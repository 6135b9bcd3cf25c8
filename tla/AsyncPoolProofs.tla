---------------------------- MODULE AsyncPoolProofs ----------------------------
(* Proofs about AsyncPool: an instance is in one place at a time, what a     *)
(* caller works with is alive, and no error path forgets a client; when      *)
(* calls do not share sticky keys, no instance is lost either.               *)
EXTENDS AsyncPool, WellFoundedInduction, TLAPS

-----------------------------------------------------------------------------
(* The invariant.  Most steps take an instance from one place to another, so *)
(* the books are stated while call u moves instance i: the queue q, the      *)
(* bindings b and what the other calls hold are in order without u, and i is *)
(* nowhere else.  Between steps nobody moves anything.                       *)

Disposing == {"discarding", "discarding_late", "recycling", "disconnecting"}
Working   == {"using", "want_bind"}
Holding   == Disposing \cup Working \cup {"using_bound", "replacing"}
ForKey    == {"want_sticky", "replacing", "want_bind", "using_bound", "want_release"}

In(s)   == {s[n] : n \in DOMAIN s}
Once(s) == \A m, n \in DOMAIN s : s[m] = s[n] => m = n

(* The other calls that hold an instance of their own.                       *)
Owners(u) == {v \in Users \ {u} : pc[v] \in Working \cup Disposing}

(* The instances the health loop has yet to disconnect.                      *)
Swept == (todo[Health] \cup {current[Health]}) \ {NoInstance}

Placed(u, q, b, i) ==
  /\ q \in Seq(Instances) /\ b \in [Keys -> Instances \cup {NoInstance}] /\ i \in Instances \cup {NoInstance}
  /\ Once(q)
  /\ \A k, l \in Keys : b[k] # NoInstance /\ b[k] = b[l] => k = l
  /\ \A v, w \in Owners(u) : held[v] = held[w] => v = w
  /\ \A k \in Keys : b[k] \notin In(q)
  /\ \A v \in Owners(u) : held[v] \notin In(q) /\ \A k \in Keys : b[k] # held[v]
  /\ i # NoInstance => /\ i \notin In(q) /\ \A k \in Keys : b[k] # i
                       /\ \A v \in Owners(u) : held[v] # i

(* With T the tracked instances and C the clients: who works with an instance *)
(* has a live one; a bound instance may be on its way out with the sticky    *)
(* lock held; what is on its way out is not tracked and in no other place.   *)
Sound(u, T, q, C, b, i) ==
  LET Up(x) == x \in T /\ C[x] # "none" IN
  /\ T \subseteq Instances /\ C \in [Instances -> {"none", "fresh", "worn", "dead"}]
  /\ \A v \in Users \ {u} : pc[v] \in Working => Up(held[v])
  /\ \A x \in In(q) : Up(x)
  /\ \A k \in Keys : b[k] # NoInstance =>
       Up(b[k]) \/ \E v \in Users \ {u} : pc[v] = "replacing" /\ key[v] = k
  /\ \A v \in Users \ {u} : pc[v] = "replacing" => b[key[v]] = held[v]
  /\ \A v \in Users \ {u} : pc[v] \in Disposing \cup {"replacing"} => held[v] \notin T
  /\ \A x \in Swept : /\ x \notin In(q) /\ x # i /\ \A k \in Keys : b[k] # x
                      /\ \A v \in Owners(u) : held[v] # x
  /\ \A x \in Instances : C[x] # "none" =>
       \/ x \in T
       \/ current[Health] = x
       \/ \E v \in Users \ {u} : pc[v] \in Disposing \cup {"replacing"} /\ held[v] = x
  /\ i # NoInstance => Up(i)

Control ==
  /\ \A u \in Users : /\ pc[u] \in ForKey => key[u] \in Keys
                      /\ pc[u] \in Holding <=> held[u] # NoInstance
                      /\ stickyLock = u <=> pc[u] = "replacing"
  /\ lock = Refill => refills > 0
  /\ phase = "warming" => warm > 0 /\ hpc = "off"
  /\ hpc \notin {"recycling", "cleaning"} => todo[Health] = {} /\ current[Health] = NoInstance
  /\ phase = "new" => /\ tracked = {} /\ avail = <<>> /\ hpc = "off" /\ refills = 0
                      /\ \A i \in Instances : client[i] = "none"
                      /\ \A k \in Keys : sticky[k] = NoInstance
                      /\ \A u \in Users : pc[u] \in {"idle", "want_release"}

Books == /\ Placed(Nobody, avail, sticky, NoInstance)
         /\ Running => Sound(Nobody, tracked, avail, client, sticky, NoInstance)

Core == TypeOK /\ Control /\ Books

-----------------------------------------------------------------------------
(* The queue *)

LEMMA InTyped ==
  ASSUME NEW S, NEW s \in Seq(S)
  PROVE  In(s) \subseteq S /\ In(<<>>) = {} /\ Once(<<>>)
BY DEF In, Once

LEMMA TailIn ==
  ASSUME NEW S, NEW s \in Seq(S), s # <<>>, Once(s)
  PROVE  /\ Head(s) \in S /\ Tail(s) \in Seq(S) /\ Head(s) \in In(s)
         /\ In(Tail(s)) = In(s) \ {Head(s)} /\ Once(Tail(s))
<1> DEFINE t == Tail(s)
<1>1. /\ DOMAIN s = 1..Len(s) /\ Len(s) \in Nat \ {0} /\ t \in Seq(S) /\ Len(t) = Len(s) - 1
      /\ DOMAIN t = 1..(Len(s) - 1) /\ Head(s) = s[1] /\ Head(s) \in S
      /\ \A n \in 1..(Len(s) - 1) : t[n] = s[n + 1]
  OBVIOUS
<1> HIDE DEF t
<1>2. 1 \in DOMAIN s /\ \A n \in DOMAIN t : n + 1 \in DOMAIN s /\ t[n] = s[n + 1] /\ n + 1 # 1
  BY ONLY <1>1
<1>3. \A n \in DOMAIN s : n # 1 => n - 1 \in DOMAIN t /\ t[n - 1] = s[n]
  BY ONLY <1>1
<1>4. In(t) = In(s) \ {Head(s)}
  <2>1. ASSUME NEW n \in DOMAIN t PROVE t[n] \in In(s) \ {Head(s)}
    BY <1>1, <1>2 DEF In, Once
  <2>2. ASSUME NEW n \in DOMAIN s, s[n] # Head(s) PROVE s[n] \in In(t)
    BY <1>1, <1>3, <2>2 DEF In
  <2> QED
    BY <2>1, <2>2 DEF In
<1>5. Once(t)
  <2>1. ASSUME NEW m \in DOMAIN t, NEW n \in DOMAIN t, t[m] = t[n] PROVE m = n
    <3>1. m + 1 = n + 1 /\ m \in Nat /\ n \in Nat
      BY <1>1, <1>2, <2>1 DEF Once
    <3> QED
      BY ONLY <3>1
  <2> QED
    BY <2>1 DEF Once
<1> QED
  BY <1>1, <1>2, <1>4, <1>5 DEF In, t

LEMMA AppendIn ==
  ASSUME NEW S, NEW s \in Seq(S), Once(s), NEW e \in S, e \notin In(s)
  PROVE  Append(s, e) \in Seq(S) /\ In(Append(s, e)) = In(s) \cup {e} /\ Once(Append(s, e))
<1> DEFINE t == Append(s, e)
<1>1. /\ DOMAIN s = 1..Len(s) /\ Len(s) \in Nat /\ t \in Seq(S)
      /\ DOMAIN t = 1..(Len(s) + 1) /\ t[Len(s) + 1] = e
      /\ \A n \in 1..Len(s) : t[n] = s[n]
  OBVIOUS
<1> HIDE DEF t
<1>2. /\ \A n \in DOMAIN t : n \in DOMAIN s \/ n = Len(s) + 1
      /\ Len(s) + 1 \in DOMAIN t /\ Len(s) + 1 \notin DOMAIN s
      /\ \A n \in DOMAIN s : n \in DOMAIN t
  BY ONLY <1>1
<1>3. In(t) = In(s) \cup {e}
  BY <1>1, <1>2 DEF In
<1>4. Once(t)
  <2>1. \A n \in DOMAIN s : t[n] = s[n] /\ s[n] # e
    BY <1>1 DEF In
  <2> QED
    BY <1>1, <1>2, <2>1 DEF Once
<1> QED
  BY <1>1, <1>3, <1>4 DEF t

LEMMA KeepsIn ==
  ASSUME avail \in Seq(Instances), Once(avail), KeepsUsable
  PROVE  avail' \in Seq(Instances) /\ In(avail') = {i \in In(avail) : Usable(i)} /\ Once(avail')
<1>0. PICK n \in 0..Len(avail) : \E kept \in [1..n -> DOMAIN avail] :
        /\ \A l, m \in DOMAIN kept : l < m => kept[l] < kept[m]
        /\ {kept[m] : m \in DOMAIN kept} = {x \in DOMAIN avail : Usable(avail[x])}
        /\ avail' = [m \in DOMAIN kept |-> avail[kept[m]]]
  BY DEF KeepsUsable
<1>1. PICK kept \in [1..n -> DOMAIN avail] :
        /\ \A l, m \in DOMAIN kept : l < m => kept[l] < kept[m]
        /\ {kept[m] : m \in DOMAIN kept} = {x \in DOMAIN avail : Usable(avail[x])}
        /\ avail' = [m \in DOMAIN kept |-> avail[kept[m]]]
  BY <1>0
<1>2. n \in Nat /\ DOMAIN kept = 1..n /\ DOMAIN avail \subseteq Int /\ \A x \in DOMAIN avail : avail[x] \in Instances
  OBVIOUS
<1>3. avail' \in Seq(Instances) /\ DOMAIN avail' = DOMAIN kept /\ \A m \in DOMAIN kept : avail'[m] = avail[kept[m]]
  <2>1. avail' = [m \in 1..n |-> avail[kept[m]]] /\ \A m \in 1..n : kept[m] \in DOMAIN avail
    BY <1>1, <1>2
  <2> QED
    BY <1>2, <2>1
<1>4. In(avail') = {i \in In(avail) : Usable(i)}
  <2>1. \A m \in DOMAIN kept : kept[m] \in DOMAIN avail /\ Usable(avail[kept[m]])
    BY <1>1
  <2>2. \A x \in DOMAIN avail : Usable(avail[x]) => \E m \in DOMAIN kept : kept[m] = x
    BY <1>1
  <2> QED
    BY <1>3, <2>1, <2>2 DEF In
<1>5. Once(avail')
  <2>1. ASSUME NEW l \in DOMAIN kept, NEW m \in DOMAIN kept, avail'[l] = avail'[m] PROVE l = m
    <3>1. kept[l] = kept[m] /\ kept[l] \in Int /\ l \in Int /\ m \in Int
      BY <1>2, <1>3, <2>1 DEF Once
    <3>2. ~ (l < m) /\ ~ (m < l)
      BY <1>1, <3>1
    <3> QED
      BY ONLY <3>1, <3>2
  <2> QED
    BY <1>3, <2>1 DEF Once
<1> QED
  BY <1>3, <1>4, <1>5

-----------------------------------------------------------------------------
(* Where a moving instance comes from                                        *)

LEMMA NoneIsNone == NoInstance \notin Instances
BY PoolAssumption DEF NoInstance, Instances

LEMMA OwnersOf ==
  ASSUME NEW u \in Users
  PROVE  /\ Users \ {Nobody} = Users /\ Nobody # u /\ Owners(u) \subseteq Owners(Nobody)
         /\ \A v \in Owners(Nobody) : v \in Users /\ (v # u => v \in Owners(u))
         /\ \A v \in Owners(u) : v \in Users \ {u}
         /\ u \in Owners(Nobody) <=> pc[u] \in Working \cup Disposing
BY PoolAssumption DEF Owners

(* Without one call the others are in order.                                 *)
LEMMA WithoutPlaced ==
  ASSUME NEW u \in Users, NEW q, NEW b, NEW i, Placed(Nobody, q, b, i)
  PROVE  Placed(u, q, b, i)
BY OwnersOf DEF Placed

(* A call that has no instance of its own.                                   *)
LEMMA IdlesSound ==
  ASSUME NEW u \in Users, pc[u] \notin Working \cup Disposing \cup {"replacing"},
         NEW T, NEW q, NEW C, NEW b, NEW i, Sound(Nobody, T, q, C, b, i)
  PROVE  Sound(u, T, q, C, b, i)
<1>1. \A v \in Users : pc[v] = "replacing" \/ pc[v] \in Disposing \cup {"replacing"} => v \in Users \ {u}
  OBVIOUS
<1> QED
  BY <1>1, OwnersOf DEF Sound

(* A call that gives back what it works with: its instance moves.            *)
LEMMA GivesPlaced ==
  ASSUME Books, Control, TypeOK, NEW u \in Users, pc[u] \in Working \cup Disposing
  PROVE  Placed(u, avail, sticky, held[u])
<1>1. u \in Owners(Nobody) /\ held[u] \in Instances
  BY OwnersOf DEF Control, TypeOK, Holding
<1>2. \A v \in Owners(u) : held[v] # held[u]
  BY <1>1, OwnersOf DEF Books, Placed
<1> QED
  BY <1>1, <1>2, OwnersOf DEF Books, Placed

LEMMA GivesSound ==
  ASSUME Books, Control, TypeOK, NEW u \in Users, pc[u] \in Working, Running
  PROVE  Sound(u, tracked, avail, client, sticky, held[u])
<1>1. u \in Owners(Nobody) /\ held[u] \in Instances
  BY OwnersOf DEF Control, TypeOK, Holding
<1>2. pc[u] \notin Disposing \cup {"replacing"}
  BY DEF Working, Disposing
<1>3. \A v \in Users : pc[v] = "replacing" \/ pc[v] \in Disposing \cup {"replacing"} => v \in Users \ {u}
  BY <1>2
<1>4. Sound(Nobody, tracked, avail, client, sticky, NoInstance)
  BY DEF Books
<1> QED
  BY <1>1, <1>3, <1>4, OwnersOf DEF Sound

(* A call whose client has been disconnected, and its binding dropped.       *)
LEMMA DropsPlaced ==
  ASSUME Books, Control, NEW u \in Users, NEW k \in Keys \cup {NoKey}
  PROVE  /\ Placed(u, avail, sticky, NoInstance)
         /\ Placed(u, avail, [sticky EXCEPT ![k] = NoInstance], NoInstance)
<1>1. Placed(u, avail, sticky, NoInstance)
  BY WithoutPlaced DEF Books
<1> DEFINE b == [sticky EXCEPT ![k] = NoInstance]
<1>2. /\ b \in [Keys -> Instances \cup {NoInstance}]
      /\ \A l \in Keys : b[l] = sticky[l] \/ b[l] = NoInstance
  BY <1>1 DEF Placed
<1> HIDE DEF b
<1>3. NoInstance \notin In(avail) /\ \A v \in Owners(u) : held[v] # NoInstance
  <2>1. In(avail) \subseteq Instances
    BY <1>1, InTyped DEF Placed
  <2>2. \A v \in Owners(u) : v \in Users /\ pc[v] \in Holding
    BY DEF Owners, Holding
  <2> QED
    BY <2>1, <2>2, NoneIsNone DEF Control
<1>4. Placed(u, avail, b, NoInstance)
  BY <1>1, <1>2, <1>3 DEF Placed
<1> QED
  BY <1>1, <1>4 DEF b

LEMMA DropsSound ==
  ASSUME Books, Control, TypeOK, Running, NEW u \in Users, NEW C, C = [client EXCEPT ![held[u]] = "none"],
         NEW b, \/ pc[u] \in Disposing /\ b = sticky
                \/ pc[u] = "replacing" /\ b = [sticky EXCEPT ![key[u]] = NoInstance]
  PROVE  Sound(u, tracked, avail, C, b, NoInstance)
<1> DEFINE x == held[u]
<1>1. Sound(Nobody, tracked, avail, client, sticky, NoInstance) /\ Placed(Nobody, avail, sticky, NoInstance)
  BY DEF Books
<1>2. /\ x \in Instances /\ C \in [Instances -> {"none", "fresh", "worn", "dead"}]
      /\ \A y \in Instances : C[y] = IF y = x THEN "none" ELSE client[y]
  BY DEF Control, TypeOK, Holding
<1>3. \A k \in Keys : b[k] = sticky[k] \/ b[k] = NoInstance
  BY DEF TypeOK
<1>4. /\ x \notin In(avail) /\ \A k \in Keys : b[k] # x
      /\ \A v \in Users \ {u} : pc[v] \in Working \cup Disposing => held[v] # x
  <2>1. CASE pc[u] \in Disposing /\ b = sticky
    <3>1. u \in Owners(Nobody)
      BY <2>1, OwnersOf
    <3>2. \A v \in Users \ {u} : pc[v] \in Working \cup Disposing => v \in Owners(Nobody)
      BY OwnersOf DEF Owners
    <3> QED
      BY <1>1, <2>1, <3>1, <3>2 DEF Placed
  <2>2. CASE pc[u] = "replacing" /\ b = [sticky EXCEPT ![key[u]] = NoInstance]
    <3>1. key[u] \in Keys /\ sticky[key[u]] = x /\ x # NoInstance
      BY <1>1, <2>2, OwnersOf DEF Sound, Control, ForKey, Holding
    <3>2. \A v \in Users \ {u} : pc[v] \in Working \cup Disposing => v \in Owners(Nobody)
      BY OwnersOf DEF Owners
    <3>3. \A k \in Keys : b[k] # x
      BY <1>1, <2>2, <3>1 DEF Placed
    <3> QED
      BY <1>1, <3>1, <3>2, <3>3 DEF Placed
  <2> QED
    BY <2>1, <2>2
<1>5. \A v \in Users \ {u} : pc[v] = "replacing" => pc[u] # "replacing" /\ b = sticky
  BY DEF Control
<1>6. ASSUME NEW v \in Users \ {u} PROVE v \in Users /\ (pc[v] \in Working => held[v] \in Instances)
  BY DEF Control, TypeOK, Holding
<1>7. In(avail) \subseteq Instances
  BY <1>1, InTyped DEF Placed
<1> HIDE DEF x
<1>8. \A v \in Users \ {u} : pc[v] \in Working => held[v] \in tracked /\ C[held[v]] # "none"
  BY <1>1, <1>2, <1>4, <1>6, OwnersOf DEF Sound
<1>9. \A y \in In(avail) : y \in tracked /\ C[y] # "none"
  BY <1>1, <1>2, <1>4, <1>7 DEF Sound
<1>10. \A k \in Keys : b[k] # NoInstance =>
         \/ b[k] \in tracked /\ C[b[k]] # "none"
         \/ \E v \in Users \ {u} : pc[v] = "replacing" /\ key[v] = k
  <2> SUFFICES ASSUME NEW k \in Keys, b[k] # NoInstance
               PROVE  \/ b[k] \in tracked /\ C[b[k]] # "none"
                      \/ \E v \in Users \ {u} : pc[v] = "replacing" /\ key[v] = k
    OBVIOUS
  <2>1. b[k] = sticky[k] /\ b[k] \in Instances /\ b[k] # x
    BY <1>3, <1>4 DEF TypeOK
  <2>2. CASE \E v \in Users : pc[v] = "replacing" /\ key[v] = k
    <3>1. PICK v \in Users : pc[v] = "replacing" /\ key[v] = k
      BY <2>2
    <3>2. v # u
      <4> SUFFICES ASSUME v = u PROVE FALSE
        OBVIOUS
      <4>1. b = [sticky EXCEPT ![key[u]] = NoInstance] /\ key[u] = k
        BY <3>1 DEF Disposing
      <4> QED
        BY <2>1, <4>1 DEF TypeOK
    <3> QED
      BY <3>1, <3>2
  <2>3. CASE sticky[k] \in tracked /\ client[sticky[k]] # "none"
    BY <1>2, <2>1, <2>3
  <2> QED
    BY <1>1, <2>1, <2>2, <2>3, OwnersOf DEF Sound
<1>11. \A v \in Users \ {u} : pc[v] = "replacing" => b[key[v]] = held[v]
  BY <1>1, <1>5, OwnersOf DEF Sound
<1>12. \A y \in Swept : /\ y \notin In(avail) /\ y # NoInstance /\ \A k \in Keys : b[k] # y
                        /\ \A v \in Owners(u) : held[v] # y
  BY <1>1, <1>3, OwnersOf DEF Sound
<1>13. \A y \in Instances : C[y] # "none" =>
         \/ y \in tracked
         \/ current[Health] = y
         \/ \E v \in Users \ {u} : pc[v] \in Disposing \cup {"replacing"} /\ held[v] = y
  BY <1>1, <1>2, OwnersOf DEF Sound, x
<1>14. \A v \in Users \ {u} : pc[v] \in Disposing \cup {"replacing"} => held[v] \notin tracked
  BY <1>1, OwnersOf DEF Sound
<1> QED
  BY <1>1, <1>2, <1>8, <1>9, <1>10, <1>11, <1>12, <1>13, <1>14 DEF Sound

(* The head of the queue.                                                    *)
LEMMA HeadPlaced ==
  ASSUME NEW u, NEW q, NEW b, Placed(u, q, b, NoInstance), q # <<>>
  PROVE  Placed(u, Tail(q), b, Head(q)) /\ Head(q) \in Instances
<1>1. /\ Head(q) \in Instances /\ Tail(q) \in Seq(Instances) /\ Head(q) \in In(q)
      /\ In(Tail(q)) = In(q) \ {Head(q)} /\ Once(Tail(q))
  BY TailIn DEF Placed
<1> QED
  BY <1>1 DEF Placed

LEMMA HeadSound ==
  ASSUME NEW u, NEW T, NEW q, NEW C, NEW b, Placed(u, q, b, NoInstance), Sound(u, T, q, C, b, NoInstance), q # <<>>
  PROVE  Sound(u, T, Tail(q), C, b, Head(q))
<1>1. Head(q) \in In(q) /\ In(Tail(q)) = In(q) \ {Head(q)}
  BY TailIn DEF Placed
<1> QED
  BY <1>1 DEF Sound

(* A new instance.                                                           *)
LEMMA NewPlaced ==
  ASSUME Books, NEW u, Placed(u, avail, sticky, NoInstance), NEW i \in Free
  PROVE  Placed(u, avail, sticky, i)
<1>1. i \in Instances /\ i \notin In(avail) /\ (\A k \in Keys : sticky[k] # i) /\ \A v \in Users : held[v] # i
  BY DEF Free, In
<1> QED
  BY <1>1 DEF Placed, Owners

LEMMA NewSound ==
  ASSUME NEW u, Sound(u, tracked, avail, client, sticky, NoInstance), NEW i \in Free,
         NEW C, C = [client EXCEPT ![i] = "fresh"], In(avail) \subseteq Instances
  PROVE  Sound(u, tracked \cup {i}, avail, C, sticky, i)
<1>1. /\ i \in Instances /\ i \notin In(avail) /\ (\A k \in Keys : sticky[k] # i) /\ \A v \in Users : held[v] # i
      /\ i \notin Swept /\ i # current[Health]
  BY DEF Free, In, Swept
<1>2. /\ C \in [Instances -> {"none", "fresh", "worn", "dead"}] /\ C[i] = "fresh"
      /\ \A y \in Instances : y # i => C[y] = client[y]
  BY <1>1 DEF Sound
<1> QED
  BY <1>1, <1>2 DEF Sound

(* A binding that is released.                                               *)
LEMMA UnbindsPlaced ==
  ASSUME NEW u, Placed(u, avail, sticky, NoInstance), NEW k \in Keys, sticky[k] # NoInstance,
         \A v \in Owners(u) : held[v] # NoInstance
  PROVE  Placed(u, avail, [sticky EXCEPT ![k] = NoInstance], sticky[k])
<1> DEFINE b == [sticky EXCEPT ![k] = NoInstance]
<1>1. /\ b \in [Keys -> Instances \cup {NoInstance}] /\ b[k] = NoInstance
      /\ \A l \in Keys \ {k} : b[l] = sticky[l]
  BY DEF Placed
<1> HIDE DEF b
<1>2. NoInstance \notin In(avail)
  BY InTyped, NoneIsNone DEF Placed
<1>3. sticky[k] \in Instances
  BY DEF Placed
<1>4. Placed(u, avail, b, sticky[k])
  BY <1>1, <1>2, <1>3 DEF Placed
<1> QED
  BY <1>4 DEF b

LEMMA UnbindsSound ==
  ASSUME NEW u, Sound(u, tracked, avail, client, sticky, NoInstance), NEW k \in Keys, sticky[k] # NoInstance,
         sticky \in [Keys -> Instances \cup {NoInstance}],
         \A v \in Users \ {u} : pc[v] # "replacing"
  PROVE  Sound(u, tracked, avail, client, [sticky EXCEPT ![k] = NoInstance], sticky[k])
<1> DEFINE b == [sticky EXCEPT ![k] = NoInstance]
<1>1. /\ b[k] = NoInstance /\ \A l \in Keys : b[l] = sticky[l] \/ b[l] = NoInstance
  OBVIOUS
<1> HIDE DEF b
<1>2. \A y \in Swept : y # NoInstance
  BY DEF Swept
<1>3. Sound(u, tracked, avail, client, b, sticky[k])
  BY <1>1, <1>2 DEF Sound
<1> QED
  BY <1>3 DEF b

-----------------------------------------------------------------------------
(* Where it goes                                                             *)

Others(u) == /\ \A v \in Users \ {u} : pc'[v] = pc[v] /\ key'[v] = key[v] /\ held'[v] = held[v]
             /\ UNCHANGED <<todo, current>>

(* The call is left without an instance of its own.                          *)
LEMMA Rests ==
  ASSUME NEW u, Others(u), u \in Users => pc'[u] \notin Working \cup Disposing \cup {"replacing"},
         Placed(u, avail', sticky', NoInstance)
  PROVE  /\ Placed(Nobody, avail, sticky, NoInstance)'
         /\ Sound(u, tracked', avail', client', sticky', NoInstance) =>
              Sound(Nobody, tracked, avail, client, sticky, NoInstance)'
<1>1. Owners(Nobody)' = Owners(u)
  BY PoolAssumption DEF Owners, Others
<1>2. Swept' = Swept /\ current'[Health] = current[Health]
  BY DEF Others, Swept
<1>3. Placed(Nobody, avail, sticky, NoInstance)'
  BY <1>1 DEF Placed, Others, Owners
<1>4. ASSUME Sound(u, tracked', avail', client', sticky', NoInstance)
      PROVE  Sound(Nobody, tracked, avail, client, sticky, NoInstance)'
  <2>1. \A v \in Users : pc'[v] \in Working \cup Disposing \cup {"replacing"} =>
          v \in Users \ {u} /\ pc'[v] = pc[v] /\ key'[v] = key[v] /\ held'[v] = held[v]
    BY DEF Others
  <2>2. \A v \in Users \ {u} : v \in Users /\ v # Nobody
    BY PoolAssumption
  <2>3. \A v \in Owners(u) : held'[v] = held[v]
    BY DEF Owners, Others
  <2> QED
    BY <1>1, <1>2, <1>4, <2>1, <2>2, <2>3 DEF Sound, Others
<1> QED
  BY <1>3, <1>4

(* The call has it in hand.                                                  *)
LEMMA Hands ==
  ASSUME NEW u \in Users, Others(u), NEW i \in Instances, pc'[u] \in Working, held'[u] = i,
         Placed(u, avail', sticky', i)
  PROVE  /\ Placed(Nobody, avail, sticky, NoInstance)'
         /\ Sound(u, tracked', avail', client', sticky', i) =>
              Sound(Nobody, tracked, avail, client, sticky, NoInstance)'
<1>1. Owners(Nobody)' = Owners(u) \cup {u}
  BY PoolAssumption DEF Owners, Others
<1>2. Swept' = Swept /\ current'[Health] = current[Health]
  BY DEF Others, Swept
<1>3. \A v \in Owners(u) : held'[v] = held[v] /\ v # u
  BY DEF Owners, Others
<1>4. Placed(Nobody, avail, sticky, NoInstance)'
  BY <1>1, <1>3, NoneIsNone DEF Placed
<1>5. ASSUME Sound(u, tracked', avail', client', sticky', i)
      PROVE  Sound(Nobody, tracked, avail, client, sticky, NoInstance)'
  <2>1. \A v \in Users : pc'[v] \in Disposing \cup {"replacing"} =>
          v \in Users \ {u} /\ pc'[v] = pc[v] /\ key'[v] = key[v] /\ held'[v] = held[v]
    BY DEF Others, Working, Disposing
  <2>2. \A v \in Users \ {u} : v \in Users \ {Nobody} /\ pc'[v] = pc[v] /\ key'[v] = key[v] /\ held'[v] = held[v]
    BY PoolAssumption DEF Others
  <2>3. \A v \in Users : pc'[v] \in Working => v = u \/ (v \in Users \ {u} /\ pc[v] \in Working /\ held'[v] = held[v])
    BY <2>2
  <2>4. \A x \in Swept : x # NoInstance
    BY DEF Swept
  <2> QED
    BY <1>1, <1>2, <1>3, <1>5, <2>1, <2>2, <2>3, <2>4, NoneIsNone DEF Sound
<1> QED
  BY <1>4, <1>5

(* It is bound to a key, whose old binding is overwritten.                   *)
LEMMA Binds ==
  ASSUME NEW u \in Users, Others(u), NEW i \in Instances, pc'[u] \notin Working \cup Disposing \cup {"replacing"},
         NEW k \in Keys, NEW b, sticky' = [b EXCEPT ![k] = i], Placed(u, avail', b, i)
  PROVE  /\ Placed(Nobody, avail, sticky, NoInstance)'
         /\ Sound(u, tracked', avail', client', b, i) /\ (\A v \in Users \ {u} : pc[v] # "replacing") =>
              Sound(Nobody, tracked, avail, client, sticky, NoInstance)'
<1>1. /\ sticky' \in [Keys -> Instances \cup {NoInstance}] /\ sticky'[k] = i
      /\ \A l \in Keys \ {k} : sticky'[l] = b[l]
  BY DEF Placed
<1>2. Placed(u, avail', sticky', NoInstance)
  BY <1>1, NoneIsNone DEF Placed
<1>3. ASSUME Sound(u, tracked', avail', client', b, i), \A v \in Users \ {u} : pc[v] # "replacing"
      PROVE  Sound(u, tracked', avail', client', sticky', NoInstance)
  <2>1. \A x \in Swept : x # NoInstance
    BY DEF Swept
  <2> QED
    BY <1>1, <1>3, <2>1, NoneIsNone DEF Sound
<1> QED
  BY <1>2, <1>3, Rests

(* It joins the queue.                                                       *)
LEMMA Queues ==
  ASSUME NEW u, Others(u), u \in Users => pc'[u] \notin Working \cup Disposing \cup {"replacing"},
         NEW i \in Instances, NEW q, avail' = Append(q, i), Placed(u, q, sticky', i)
  PROVE  /\ Placed(Nobody, avail, sticky, NoInstance)'
         /\ Sound(u, tracked', q, client', sticky', i) =>
              Sound(Nobody, tracked, avail, client, sticky, NoInstance)'
<1>1. avail' \in Seq(Instances) /\ In(avail') = In(q) \cup {i} /\ Once(avail')
  BY AppendIn, NoneIsNone DEF Placed
<1>2. Placed(u, avail', sticky', NoInstance)
  BY <1>1, NoneIsNone DEF Placed
<1>3. ASSUME Sound(u, tracked', q, client', sticky', i)
      PROVE  Sound(u, tracked', avail', client', sticky', NoInstance)
  <2>1. \A x \in Swept : x # NoInstance
    BY DEF Swept
  <2> QED
    BY <1>1, <1>3, <2>1, NoneIsNone DEF Sound
<1> QED
  BY <1>2, <1>3, Rests

(* The call disconnects it.                                                  *)
LEMMA Disposes ==
  ASSUME NEW u \in Users, Others(u), NEW i \in Instances, pc'[u] \in Disposing, held'[u] = i,
         NEW T, tracked' = T \ {i}, Placed(u, avail', sticky', i)
  PROVE  /\ Placed(Nobody, avail, sticky, NoInstance)'
         /\ Sound(u, T, avail', client', sticky', i) =>
              Sound(Nobody, tracked, avail, client, sticky, NoInstance)'
<1>1. Owners(Nobody)' = Owners(u) \cup {u}
  BY PoolAssumption DEF Owners, Others
<1>2. Swept' = Swept /\ current'[Health] = current[Health]
  BY DEF Others, Swept
<1>3. \A v \in Owners(u) : held'[v] = held[v] /\ v # u
  BY DEF Owners, Others
<1>4. Placed(Nobody, avail, sticky, NoInstance)'
  BY <1>1, <1>3, NoneIsNone DEF Placed
<1>5. ASSUME Sound(u, T, avail', client', sticky', i)
      PROVE  Sound(Nobody, tracked, avail, client, sticky, NoInstance)'
  <2>1. \A v \in Users : pc'[v] \in Working \cup {"replacing"} =>
          v \in Users \ {u} /\ pc'[v] = pc[v] /\ key'[v] = key[v] /\ held'[v] = held[v]
    BY DEF Others, Working, Disposing
  <2>2. \A v \in Users \ {u} : v \in Users \ {Nobody} /\ pc'[v] = pc[v] /\ key'[v] = key[v] /\ held'[v] = held[v]
    BY PoolAssumption DEF Others
  <2>3. \A v \in Users : pc'[v] \in Disposing \cup {"replacing"} =>
          v = u \/ (v \in Users \ {u} /\ pc[v] \in Disposing \cup {"replacing"} /\ held'[v] = held[v])
    BY <2>2
  <2>4. \A x \in Swept : x # NoInstance
    BY DEF Swept
  <2>5. \A v \in Users \ {u} : pc[v] \in Working => held[v] # i
    BY NoneIsNone DEF Placed, Owners
  <2>6. \A x \in In(avail') : x # i
    BY NoneIsNone DEF Placed
  <2>7. \A k \in Keys : sticky'[k] # i
    BY NoneIsNone DEF Placed
  <2>8. T \subseteq Instances /\ u \in Users \ {Nobody}
    BY <1>5, PoolAssumption DEF Sound
  <2> QED
    BY <1>1, <1>2, <1>3, <1>5, <2>1, <2>2, <2>3, <2>4, <2>5, <2>6, <2>7, <2>8 DEF Sound
<1> QED
  BY <1>4, <1>5

(* A binding is found unhealthy: its instance is disconnected while bound.   *)
LEMMA Faults ==
  ASSUME NEW u \in Users, Others(u), pc'[u] = "replacing", NEW k \in Keys, key'[u] = k, held'[u] = sticky[k],
         sticky[k] # NoInstance, tracked' = tracked \ {sticky[k]}, UNCHANGED <<avail, sticky, client>>,
         Placed(u, avail, sticky, NoInstance)
  PROVE  /\ Placed(Nobody, avail, sticky, NoInstance)'
         /\ Sound(u, tracked, avail, client, sticky, NoInstance) =>
              Sound(Nobody, tracked, avail, client, sticky, NoInstance)'
<1>1. Owners(Nobody)' = Owners(u)
  BY PoolAssumption DEF Owners, Others, Working, Disposing
<1>2. Swept' = Swept /\ current'[Health] = current[Health]
  BY DEF Others, Swept
<1>3. \A v \in Owners(u) : held'[v] = held[v] /\ v # u
  BY DEF Owners, Others
<1>4. Placed(Nobody, avail, sticky, NoInstance)'
  BY <1>1, <1>3 DEF Placed
<1>5. ASSUME Sound(u, tracked, avail, client, sticky, NoInstance)
      PROVE  Sound(Nobody, tracked, avail, client, sticky, NoInstance)'
  <2> DEFINE i == sticky[k]
  <2>1. \A v \in Users : pc'[v] \in Working =>
          v \in Users \ {u} /\ pc'[v] = pc[v] /\ held'[v] = held[v]
    BY DEF Others, Working
  <2>2. \A v \in Users \ {u} : v \in Users \ {Nobody} /\ pc'[v] = pc[v] /\ key'[v] = key[v] /\ held'[v] = held[v]
    BY PoolAssumption DEF Others
  <2>3. \A v \in Users : pc'[v] \in Disposing \cup {"replacing"} =>
          v = u \/ (v \in Users \ {u} /\ pc[v] \in Disposing \cup {"replacing"} /\ held'[v] = held[v])
    BY <2>2
  <2>4. \A v \in Users \ {u} : pc[v] \in Working => held[v] # i
    BY DEF Placed, Owners
  <2>5. \A x \in In(avail) : x # i
    BY DEF Placed
  <2>6. \A l \in Keys : sticky[l] = i => l = k
    BY DEF Placed
  <2>7. u \in Users \ {Nobody} /\ i \in Instances
    BY PoolAssumption DEF Placed
  <2>8. \A v \in Users : pc'[v] = "replacing" => sticky'[key'[v]] = held'[v]
    BY <1>5, <2>2 DEF Sound
  <2> HIDE DEF i
  <2>9. \A l \in Keys : sticky'[l] # NoInstance =>
          \/ sticky'[l] \in tracked' /\ client'[sticky'[l]] # "none"
          \/ \E v \in Users \ {Nobody} : pc'[v] = "replacing" /\ key'[v] = l
    BY <1>5, <2>2, <2>6, <2>7 DEF Sound, i
  <2> QED
    BY <1>1, <1>2, <1>3, <1>5, <2>1, <2>2, <2>3, <2>4, <2>5, <2>7, <2>8, <2>9 DEF Sound, i
<1> QED
  BY <1>4, <1>5

-----------------------------------------------------------------------------
(* A call's step                                                             *)

(* What a call is left with fits the point it waits at.                      *)
Fits(p, k, i) ==
  /\ p \in UserPCs /\ k \in Keys \cup {NoKey} /\ i \in Instances \cup {NoInstance}
  /\ p \in ForKey => k \in Keys
  /\ p \in Holding <=> i # NoInstance

LEMMA AtOthers ==
  ASSUME TypeOK, Control, NEW u \in Users, NEW p, NEW k, NEW i, Fits(p, k, i), At(u, p, k, i),
         UNCHANGED <<todo, current>>
  PROVE  /\ Others(u) /\ pc'[u] = p /\ key'[u] = k /\ held'[u] = i
         /\ pc' \in [Users -> UserPCs] /\ key' \in [Users -> Keys \cup {NoKey}]
         /\ held' \in [Users -> Instances \cup {NoInstance}]
         /\ \A v \in Users : /\ pc'[v] \in ForKey => key'[v] \in Keys
                             /\ pc'[v] \in Holding <=> held'[v] # NoInstance
<1>1. /\ Others(u) /\ pc'[u] = p /\ key'[u] = k /\ held'[u] = i
      /\ pc' \in [Users -> UserPCs] /\ key' \in [Users -> Keys \cup {NoKey}]
      /\ held' \in [Users -> Instances \cup {NoInstance}]
  BY DEF TypeOK, At, Fits, Others
<1>2. ASSUME NEW v \in Users
      PROVE  /\ pc'[v] \in ForKey => key'[v] \in Keys
             /\ pc'[v] \in Holding <=> held'[v] # NoInstance
  <2>1. CASE v = u
    BY <1>1, <2>1 DEF Fits
  <2>2. CASE v # u
    BY <1>1, <2>2 DEF Others, Control
  <2> QED
    BY <2>1, <2>2
<1> QED
  BY <1>1, <1>2

(* Of the locks a call takes and gives up its own only.                      *)
Turn(u, p) ==
  /\ UNCHANGED <<phase, warm, hpc, todo, current>>
  /\ refills' \in refills..MaxRefills
  /\ lock' \in {lock, Nobody, u}
  /\ \/ UNCHANGED stickyLock /\ pc[u] # "replacing" /\ p # "replacing"
     \/ stickyLock = Nobody /\ stickyLock' = u /\ p = "replacing"
     \/ stickyLock' = Nobody /\ pc[u] = "replacing" /\ p # "replacing"
  /\ phase = "new" => p \in {"idle", "want_release"} /\ UNCHANGED <<tracked, avail, client, sticky, refills>>

LEMMA TurnCore ==
  ASSUME TypeOK, Control, NEW u \in Users, NEW p, NEW k, NEW i, Fits(p, k, i), At(u, p, k, i), Turn(u, p),
         tracked' \subseteq Instances, client' \in [Instances -> {"none", "fresh", "worn", "dead"}],
         Placed(Nobody, avail, sticky, NoInstance)',
         Running => Sound(Nobody, tracked, avail, client, sticky, NoInstance)'
  PROVE  Core'
<1>1. /\ Others(u) /\ pc'[u] = p
      /\ pc' \in [Users -> UserPCs] /\ key' \in [Users -> Keys \cup {NoKey}]
      /\ held' \in [Users -> Instances \cup {NoInstance}]
      /\ \A v \in Users : /\ pc'[v] \in ForKey => key'[v] \in Keys
                          /\ pc'[v] \in Holding <=> held'[v] # NoInstance
  BY AtOthers DEF Turn
<1>2. refills \in Nat /\ MaxRefills \in Nat /\ refills' \in Nat /\ refills' >= refills /\ refills' =< MaxRefills
  BY PoolAssumption DEF TypeOK, Turn
<1>3. TypeOK'
  <2>1. avail' \in Seq(Instances) /\ sticky' \in [Keys -> Instances \cup {NoInstance}]
    BY DEF Placed
  <2>2. refills' \in 0..MaxRefills
    BY <1>2
  <2>3. lock' \in Users \cup {Nobody, Health, Refill} /\ stickyLock' \in Users \cup {Nobody}
    BY DEF TypeOK, Turn
  <2> QED
    BY <1>1, <2>1, <2>2, <2>3 DEF TypeOK, Turn
<1>4. \A v \in Users : stickyLock' = v <=> pc'[v] = "replacing"
  <2> SUFFICES ASSUME NEW v \in Users PROVE stickyLock' = v <=> pc'[v] = "replacing"
    OBVIOUS
  <2>1. CASE v = u
    BY <1>1, <2>1, PoolAssumption DEF Turn, Control
  <2>2. CASE v # u
    <3>1. pc'[v] = pc[v] /\ (stickyLock = v <=> pc[v] = "replacing")
      BY <1>1, <2>2 DEF Others, Control
    <3>2. stickyLock = Nobody \/ stickyLock = u \/ UNCHANGED stickyLock
      BY DEF Turn, Control
    <3> QED
      BY <2>2, <3>1, <3>2, PoolAssumption DEF Turn, Control
  <2> QED
    BY <2>1, <2>2
<1>5. lock' = Refill => refills' > 0
  <2>1. lock' = Refill => lock = Refill
    BY PoolAssumption DEF Turn, Nobody, Refill
  <2> QED
    BY <1>2, <2>1 DEF Control
<1>6. phase' = "new" =>
        /\ tracked' = {} /\ avail' = <<>> /\ hpc' = "off" /\ refills' = 0
        /\ \A x \in Instances : client'[x] = "none"
        /\ \A l \in Keys : sticky'[l] = NoInstance
        /\ \A v \in Users : pc'[v] \in {"idle", "want_release"}
  <2> SUFFICES ASSUME phase = "new"
               PROVE  /\ tracked' = {} /\ avail' = <<>> /\ hpc' = "off" /\ refills' = 0
                      /\ \A x \in Instances : client'[x] = "none"
                      /\ \A l \in Keys : sticky'[l] = NoInstance
                      /\ \A v \in Users : pc'[v] \in {"idle", "want_release"}
    BY DEF Turn
  <2>1. \A v \in Users : pc'[v] \in {"idle", "want_release"}
    BY <1>1 DEF Turn, Others, Control
  <2> QED
    BY <2>1 DEF Turn, Control
<1>7. Control'
  BY <1>1, <1>4, <1>5, <1>6 DEF Control, Turn
<1>8. Books'
  BY DEF Books, Turn, Running
<1> QED
  BY <1>3, <1>7, <1>8 DEF Core

(* A call that checks out: what it is left with, the books in order.         *)
Outcome(u) ==
  /\ \E p \in UserPCs \ {"replacing"} : \E k \in Keys \cup {NoKey} : \E i \in Instances \cup {NoInstance} :
       Fits(p, k, i) /\ At(u, p, k, i)
  /\ tracked' \subseteq Instances
  /\ Placed(Nobody, avail, sticky, NoInstance)'
  /\ Running => Sound(Nobody, tracked, avail, client, sticky, NoInstance)'

(* Empty-handed.                                                             *)
LEMMA RestsWith ==
  ASSUME TypeOK, Control, NEW u \in Users, NEW p, NEW k, Fits(p, k, NoInstance), At(u, p, k, NoInstance),
         UNCHANGED <<todo, current>>, tracked' \subseteq Instances,
         Placed(u, avail', sticky', NoInstance), Running => Sound(u, tracked', avail', client', sticky', NoInstance)
  PROVE  Outcome(u)
<1>1. Others(u) /\ pc'[u] = p
  BY AtOthers
<1>2. p \notin Working \cup Disposing \cup {"replacing"}
  BY DEF Fits, Holding
<1>3. Placed(Nobody, avail, sticky, NoInstance)' /\ (Running => Sound(Nobody, tracked, avail, client, sticky, NoInstance)')
  BY <1>1, <1>2, Rests
<1>4. p \in UserPCs \ {"replacing"} /\ k \in Keys \cup {NoKey}
  BY <1>2 DEF Fits
<1> QED
  BY <1>3, <1>4 DEF Outcome

LEMMA ObtainedMoves ==
  ASSUME TypeOK, Control, NEW u \in Users, NEW k \in Keys \cup {NoKey}, NEW i \in Instances, NEW b,
         Obtained(u, k, i, b), UNCHANGED <<todo, current>>, tracked' \subseteq Instances,
         Placed(u, avail', b, i), Running => Sound(u, tracked', avail', client', b, i)
  PROVE  Outcome(u)
<1>0. i # NoInstance
  BY NoneIsNone
<1>1. CASE k = NoKey /\ At(u, "using", k, i) /\ sticky' = b
  <2>1. Fits("using", k, i)
    BY <1>0, <1>1 DEF Fits, UserPCs, ForKey, Holding, Working
  <2>2. Others(u) /\ pc'[u] = "using" /\ held'[u] = i
    BY <1>1, <2>1, AtOthers
  <2> QED
    BY <1>1, <2>1, <2>2, Hands DEF Outcome, Working, UserPCs
<1>2. CASE k # NoKey /\ At(u, "want_bind", k, i) /\ sticky' = b
  <2>1. Fits("want_bind", k, i)
    BY <1>0, <1>2 DEF Fits, UserPCs, ForKey, Holding, Working
  <2>2. Others(u) /\ pc'[u] = "want_bind" /\ held'[u] = i
    BY <1>2, <2>1, AtOthers
  <2> QED
    BY <1>2, <2>1, <2>2, Hands DEF Outcome, Working, UserPCs
<1>3. CASE k # NoKey /\ StickyLockFree(u) /\ sticky' = [b EXCEPT ![k] = i] /\ At(u, "using_bound", k, i)
  <2>1. Fits("using_bound", k, i)
    BY <1>0, <1>3 DEF Fits, UserPCs, ForKey, Holding
  <2>2. Others(u) /\ pc'[u] = "using_bound" /\ held'[u] = i
    BY <1>3, <2>1, AtOthers
  <2>3. \A v \in Users \ {u} : pc[v] # "replacing"
    BY <1>3, PoolAssumption DEF StickyLockFree, Control
  <2>4. pc'[u] \notin Working \cup Disposing \cup {"replacing"} /\ k \in Keys
    BY <1>3, <2>2 DEF Working, Disposing
  <2>5. Placed(Nobody, avail, sticky, NoInstance)' /\ (Running => Sound(Nobody, tracked, avail, client, sticky, NoInstance)')
    BY <1>3, <2>2, <2>3, <2>4, Binds
  <2> QED
    BY <1>3, <2>1, <2>5 DEF Outcome, UserPCs
<1> QED
  BY <1>1, <1>2, <1>3 DEF Obtained

LEMMA DisposesOf ==
  ASSUME TypeOK, Control, NEW u \in Users, NEW p \in Disposing, NEW k \in Keys \cup {NoKey}, NEW i \in Instances,
         NEW T \in SUBSET Instances, At(u, p, k, i), tracked' = T \ {i}, UNCHANGED <<todo, current>>,
         Placed(u, avail', sticky', i), Running => Sound(u, T, avail', client', sticky', i)
  PROVE  Outcome(u)
<1>1. Fits(p, k, i) /\ p \in UserPCs \ {"replacing"}
  BY NoneIsNone DEF Fits, UserPCs, Holding, Disposing, ForKey
<1>2. Others(u) /\ pc'[u] = p /\ held'[u] = i
  BY <1>1, AtOthers
<1>3. Placed(Nobody, avail, sticky, NoInstance)' /\ (Running => Sound(Nobody, tracked, avail, client, sticky, NoInstance)')
  BY <1>2, Disposes
<1> QED
  BY <1>1, <1>3 DEF Outcome

LEMMA TakeHeadMoves ==
  ASSUME TypeOK, Control, NEW u \in Users, NEW k \in Keys \cup {NoKey}, NEW p \in Disposing, NEW b,
         TakeHead(u, k, p, b), UNCHANGED <<todo, current>>,
         Placed(u, avail, b, NoInstance), Running => Sound(u, tracked, avail, client', b, NoInstance)
  PROVE  Outcome(u) /\ UNCHANGED lock
<1> DEFINE i == Head(avail)
<1>1. avail # <<>> /\ avail' = Tail(avail) /\ UNCHANGED lock
  BY DEF TakeHead
<1>2. Placed(u, avail', b, i) /\ i \in Instances
  BY <1>1, HeadPlaced
<1>3. Running => Sound(u, tracked, avail', client', b, i)
  BY <1>1, HeadSound
<1>4. tracked \in SUBSET Instances
  BY DEF TypeOK
<1> HIDE DEF i
<1>5. CASE Obtained(u, k, i, b) /\ UNCHANGED tracked
  <2>1. tracked' \subseteq Instances /\ (Running => Sound(u, tracked', avail', client', b, i))
    BY <1>3, <1>4, <1>5
  <2> QED
    BY <1>1, <1>2, <1>5, <2>1, ObtainedMoves
<1>6. CASE tracked' = tracked \ {i} /\ At(u, p, k, i) /\ sticky' = b
  BY <1>1, <1>2, <1>3, <1>4, <1>6, DisposesOf
<1> QED
  BY <1>5, <1>6 DEF TakeHead, i

LEMMA TryCreateMoves ==
  ASSUME TypeOK, Control, NEW u \in Users, NEW k \in Keys \cup {NoKey},
         TryCreate(u, k), UNCHANGED <<todo, current, tracked, avail>>,
         Placed(u, avail, sticky', NoInstance), Running => Sound(u, tracked, avail, client', sticky', NoInstance)
  PROVE  Outcome(u) /\ lock' \in {lock, u}
<1>1. PICK p \in {"creating", "waiting", "want_create"} : At(u, p, k, NoInstance) /\ lock' \in {lock, u}
  BY DEF TryCreate, CreateBelowMax
<1>2. Fits(p, k, NoInstance)
  BY DEF Fits, UserPCs, ForKey, Holding, Working, Disposing
<1>3. tracked' \subseteq Instances
  BY DEF TypeOK
<1> QED
  BY <1>1, <1>2, <1>3, RestsWith

LEMMA ReturnFits == Fits("idle", NoKey, NoInstance)
BY DEF Fits, UserPCs, ForKey, Holding, Working, Disposing

LEMMA CheckoutMoves ==
  ASSUME TypeOK, Control, NEW u \in Users, NEW k \in Keys \cup {NoKey}, NEW b,
         Checkout(u, k, b), UNCHANGED <<todo, current>>,
         Placed(u, avail, b, NoInstance), Running => Sound(u, tracked, avail, client', b, NoInstance)
  PROVE  Outcome(u) /\ lock' \in {lock, u}
<1>1. CASE Return(u) /\ sticky' = b /\ UNCHANGED <<tracked, avail, lock>>
  <2>1. tracked' \subseteq Instances
    BY <1>1 DEF TypeOK
  <2> QED
    BY <1>1, <2>1, ReturnFits, RestsWith DEF Return
<1>2. CASE TakeHead(u, k, "discarding", b)
  BY <1>2, TakeHeadMoves DEF Disposing
<1>3. CASE TryCreate(u, k) /\ sticky' = b /\ UNCHANGED <<tracked, avail>>
  BY <1>3, TryCreateMoves
<1> QED
  BY <1>1, <1>2, <1>3 DEF Checkout

LEMMA CheckoutForMoves ==
  ASSUME TypeOK, Control, NEW u \in Users, NEW k \in Keys \cup {NoKey}, NEW b,
         CheckoutFor(u, k, b), UNCHANGED <<todo, current>>,
         Placed(u, avail, b, NoInstance), Running => Sound(u, tracked, avail, client', b, NoInstance)
  PROVE  Outcome(u) /\ lock' \in {lock, u}
<1>1. CASE Return(u) /\ sticky' = b /\ UNCHANGED <<tracked, avail, lock>>
  <2>1. tracked' \subseteq Instances
    BY <1>1 DEF TypeOK
  <2> QED
    BY <1>1, <2>1, ReturnFits, RestsWith DEF Return
<1>2. CASE Checkout(u, k, b)
  BY <1>2, CheckoutMoves
<1> QED
  BY <1>1, <1>2 DEF CheckoutFor

-----------------------------------------------------------------------------
(* The calls' steps                                                          *)

(* A call with nothing of its own in hand.                                   *)
Bare(u) == pc[u] \notin Working \cup Disposing \cup {"replacing"}

LEMMA BareBooks ==
  ASSUME Core, NEW u \in Users, Bare(u)
  PROVE  /\ Placed(u, avail, sticky, NoInstance)
         /\ Running => Sound(u, tracked, avail, client, sticky, NoInstance)
BY WithoutPlaced, IdlesSound DEF Core, Books, Bare

(* A step that ends in an outcome and releases no lock but its own.          *)
LEMMA OutcomeCore ==
  ASSUME Core, NEW u \in Users, Outcome(u), UNCHANGED <<phase, warm, hpc, todo, current>>,
         refills' \in refills..MaxRefills, lock' \in {lock, Nobody, u}, phase # "new",
         client' \in [Instances -> {"none", "fresh", "worn", "dead"}],
         \/ UNCHANGED stickyLock /\ pc[u] # "replacing"
         \/ stickyLock' = Nobody /\ pc[u] = "replacing"
  PROVE  Core'
<1>1. PICK p \in UserPCs \ {"replacing"} : \E k \in Keys \cup {NoKey} : \E i \in Instances \cup {NoInstance} :
        Fits(p, k, i) /\ At(u, p, k, i)
  BY DEF Outcome
<1>2. PICK k \in Keys \cup {NoKey} : \E i \in Instances \cup {NoInstance} : Fits(p, k, i) /\ At(u, p, k, i)
  BY <1>1
<1>3. PICK i \in Instances \cup {NoInstance} : Fits(p, k, i) /\ At(u, p, k, i)
  BY <1>2
<1>4. Turn(u, p)
  BY DEF Turn
<1> QED
  BY <1>3, <1>4, TurnCore DEF Core, Outcome

LEMMA SameRefills == ASSUME TypeOK PROVE refills \in refills..MaxRefills
BY PoolAssumption DEF TypeOK

LEMMA AcquireCore ==
  ASSUME Core, NEW u \in Users, Acquire(u)
  PROVE  Core'
<1>1. Bare(u) /\ Running /\ phase # "new" /\ pc[u] # "replacing"
  BY DEF Acquire, Bare, Working, Disposing, Running
<1>2. Outcome(u) /\ lock' \in {lock, u}
  <2>1. /\ Checkout(u, NoKey, sticky) /\ UNCHANGED <<todo, current, client>>
        /\ Placed(u, avail, sticky, NoInstance) /\ (Running => Sound(u, tracked, avail, client', sticky, NoInstance))
    BY <1>1, BareBooks DEF Acquire, bgVars
  <2> QED
    BY <2>1, CheckoutMoves DEF Core
<1>3. client' \in [Instances -> {"none", "fresh", "worn", "dead"}] /\ refills' \in refills..MaxRefills
  BY SameRefills DEF Acquire, Core, TypeOK, bgVars
<1> QED
  BY <1>1, <1>2, <1>3, OutcomeCore DEF Acquire, bgVars

LEMMA DiscardDoneCore ==
  ASSUME Core, NEW u \in Users, DiscardDone(u) \/ LateDiscardDone(u)
  PROVE  Core'
<1>1. pc[u] \in Disposing /\ Disconnect(held[u]) /\ UNCHANGED <<bgVars, tracked, avail, sticky, stickyLock>>
  BY DEF DiscardDone, LateDiscardDone, Disposing
<1>2. /\ Placed(u, avail, sticky, NoInstance)
      /\ Running => Sound(u, tracked, avail, client', sticky, NoInstance)
  BY <1>1, DropsSound, WithoutPlaced DEF Core, Books, Disconnect
<1>3. key[u] \in Keys \cup {NoKey} /\ tracked \subseteq Instances
  BY DEF Core, TypeOK
<1>4. Outcome(u) /\ lock' \in {lock, u}
  <2>1. CASE DiscardDone(u)
    BY <1>1, <1>2, <1>3, <2>1, TryCreateMoves DEF DiscardDone, Core, bgVars
  <2>2. CASE LateDiscardDone(u)
    <3>1. PICK p \in {"creating", "want_replace"} : At(u, p, key[u], NoInstance) /\ lock' \in {lock, u}
      BY <2>2 DEF LateDiscardDone
    <3>2. Fits(p, key[u], NoInstance)
      BY <1>3 DEF Fits, UserPCs, ForKey, Holding, Working, Disposing
    <3> QED
      BY <1>1, <1>2, <1>3, <3>1, <3>2, RestsWith DEF Core, bgVars
  <2> QED
    BY <2>1, <2>2
<1>5. client' \in [Instances -> {"none", "fresh", "worn", "dead"}] /\ refills' \in refills..MaxRefills
  BY <1>1, SameRefills DEF Core, TypeOK, Disconnect, bgVars
<1>6. phase # "new" /\ pc[u] # "replacing"
  BY <1>1 DEF Core, Control, Disposing
<1> QED
  BY <1>1, <1>4, <1>5, <1>6, OutcomeCore DEF bgVars

(* Steps of a call that is waiting for a lock, the factory or the queue, and *)
(* those of a call that lets go of a bound instance.                         *)
LEMMA QuietCore ==
  ASSUME Core, NEW u \in Users,
         \/ CreateGranted(u) \/ CreateFails(u) \/ WaitTimesOut(u) \/ ReplaceGranted(u) \/ SessionDone(u)
  PROVE  Core'
<1>1. /\ UNCHANGED <<bgVars, poolVars, sticky, stickyLock>> /\ Bare(u)
      /\ pc[u] \in {"want_create", "creating", "waiting", "want_replace", "using_bound"}
  BY DEF CreateGranted, CreateFails, WaitTimesOut, ReplaceGranted, SessionDone, Bare, Working, Disposing, lockVars
<1>2. PICK p \in {"creating", "waiting", "idle"} : \E k \in {key[u], NoKey} : At(u, p, k, NoInstance)
  BY DEF CreateGranted, CreateFails, WaitTimesOut, ReplaceGranted, SessionDone, CreateBelowMax, Return
<1>3. PICK k \in {key[u], NoKey} : At(u, p, k, NoInstance)
  BY <1>2
<1>4. Fits(p, k, NoInstance)
  BY <1>3 DEF Fits, UserPCs, ForKey, Holding, Working, Disposing, Core, TypeOK
<1>5. /\ Placed(u, avail', sticky', NoInstance)
      /\ Running => Sound(u, tracked', avail', client', sticky', NoInstance)
  BY <1>1, BareBooks DEF poolVars
<1>6. lock' \in {lock, Nobody, u}
  BY DEF CreateGranted, CreateFails, WaitTimesOut, ReplaceGranted, SessionDone, CreateBelowMax, lockVars
<1>7. Outcome(u)
  BY <1>1, <1>3, <1>4, <1>5, RestsWith DEF Core, TypeOK, bgVars, poolVars
<1>8. phase # "new" /\ pc[u] # "replacing"
  BY <1>1 DEF Core, Control
<1>9. client' \in [Instances -> {"none", "fresh", "worn", "dead"}] /\ refills' \in refills..MaxRefills
  BY <1>1, SameRefills DEF Core, TypeOK, poolVars, bgVars
<1> QED
  BY <1>1, <1>6, <1>7, <1>8, <1>9, OutcomeCore DEF bgVars

LEMMA Least ==
  ASSUME NEW T \in SUBSET Nat, T # {}
  PROVE  \E n \in T : \A m \in T : n =< m
<1>1. \E n \in T : \A m \in Nat : <<m, n>> \in OpToRel(<, Nat) => m \notin T
  BY NatLessThanWellFounded, WFMin
<1>2. PICK n \in T : \A m \in Nat : <<m, n>> \in OpToRel(<, Nat) => m \notin T
  BY <1>1
<1>3. \A m \in T : ~ (m < n)
  BY <1>2 DEF OpToRel
<1> QED
  BY <1>3

LEMMA NewIsFree ==
  ASSUME Free # {}
  PROVE  NewInstance \in Free /\ NewInstance \in Instances
<1>1. Free \subseteq Nat /\ Free \subseteq Instances
  BY PoolAssumption DEF Free, Instances
<1>2. \E i \in Free : \A j \in Free : i <= j
  BY <1>1, Least
<1> QED
  BY <1>1, <1>2 DEF NewInstance

LEMMA CreatesBooks ==
  ASSUME Core, NEW u, Create, Placed(u, avail, sticky, NoInstance),
         Running => Sound(u, tracked, avail, client, sticky, NoInstance)
  PROVE  /\ NewInstance \in Instances /\ Placed(u, avail, sticky, NewInstance)
         /\ Running => Sound(u, tracked', avail, client', sticky, NewInstance)
         /\ tracked' \subseteq Instances /\ client' \in [Instances -> {"none", "fresh", "worn", "dead"}]
<1>1. NewInstance \in Free /\ NewInstance \in Instances
  BY NewIsFree DEF Create
<1>2. In(avail) \subseteq Instances
  BY InTyped DEF Core, TypeOK
<1>3. tracked' = tracked \cup {NewInstance} /\ client' = [client EXCEPT ![NewInstance] = "fresh"]
  BY DEF Create
<1>4. Running => Sound(u, tracked', avail, client', sticky, NewInstance)
  BY <1>1, <1>2, <1>3, NewSound
<1>5. tracked' \subseteq Instances /\ client' \in [Instances -> {"none", "fresh", "worn", "dead"}]
  BY <1>1, <1>3 DEF Core, TypeOK
<1> QED
  BY <1>1, <1>4, <1>5, NewPlaced DEF Core

LEMMA CreatedCore ==
  ASSUME Core, NEW u \in Users, Created(u)
  PROVE  Core'
<1>1. Bare(u) /\ pc[u] # "replacing" /\ phase # "new"
  BY DEF Created, Bare, Working, Disposing, Core, Control
<1>2. /\ NewInstance \in Instances /\ Placed(u, avail', sticky, NewInstance)
      /\ Running => Sound(u, tracked', avail', client', sticky, NewInstance)
      /\ tracked' \subseteq Instances /\ client' \in [Instances -> {"none", "fresh", "worn", "dead"}]
  BY <1>1, BareBooks, CreatesBooks DEF Created
<1>3. Outcome(u)
  BY <1>2, ObtainedMoves DEF Created, Core, TypeOK, bgVars
<1> QED
  BY <1>1, <1>2, <1>3, SameRefills, OutcomeCore DEF Created, bgVars, Core

LEMMA TakeReturnedCore ==
  ASSUME Core, NEW u \in Users, TakeReturned(u)
  PROVE  Core'
<1>1. Bare(u) /\ pc[u] # "replacing" /\ phase # "new"
  BY DEF TakeReturned, Bare, Working, Disposing, Core, Control
<1>2. Outcome(u) /\ UNCHANGED lock
  <2>1. /\ TakeHead(u, key[u], "discarding_late", sticky) /\ UNCHANGED <<todo, current, client>>
        /\ Placed(u, avail, sticky, NoInstance) /\ (Running => Sound(u, tracked, avail, client', sticky, NoInstance))
    BY <1>1, BareBooks DEF TakeReturned, bgVars
  <2>2. key[u] \in Keys \cup {NoKey} /\ "discarding_late" \in Disposing
    BY DEF Core, TypeOK, Disposing
  <2> QED
    BY <2>1, <2>2, TakeHeadMoves DEF Core
<1>3. client' \in [Instances -> {"none", "fresh", "worn", "dead"}] /\ refills' \in refills..MaxRefills
  BY SameRefills DEF TakeReturned, Core, TypeOK, bgVars
<1> QED
  BY <1>1, <1>2, <1>3, OutcomeCore DEF TakeReturned, bgVars

LEMMA CheckInMoves ==
  ASSUME TypeOK, Control, NEW u \in Users, NEW i \in Instances, CheckIn(u, i), UNCHANGED <<todo, current, client>>,
         Placed(u, avail, sticky', i), Running => Sound(u, tracked, avail, client, sticky', i)
  PROVE  Outcome(u)
<1>1. CASE tracked' = tracked \ {i} /\ UNCHANGED avail
           /\ At(u, IF Stopping THEN "disconnecting" ELSE "recycling", NoKey, i)
  <2>1. PICK p \in Disposing : At(u, p, NoKey, i)
    BY <1>1 DEF Disposing
  <2>2. tracked \in SUBSET Instances
    BY DEF TypeOK
  <2> QED
    BY <1>1, <2>1, <2>2, DisposesOf
<1>2. CASE avail' = Append(avail, i) /\ Return(u) /\ UNCHANGED tracked
  <2>1. Fits("idle", NoKey, NoInstance) /\ At(u, "idle", NoKey, NoInstance)
    BY <1>2, ReturnFits DEF Return
  <2>2. Others(u) /\ pc'[u] = "idle"
    BY <2>1, AtOthers
  <2>3. pc'[u] \notin Working \cup Disposing \cup {"replacing"}
    BY <2>2 DEF Working, Disposing
  <2>4. Running => Sound(u, tracked', avail, client', sticky', i)
    BY <1>2
  <2>5. Placed(Nobody, avail, sticky, NoInstance)' /\ (Running => Sound(Nobody, tracked, avail, client, sticky, NoInstance)')
    BY <1>2, <2>2, <2>3, <2>4, Queues
  <2>6. tracked' \subseteq Instances
    BY <1>2 DEF TypeOK
  <2> QED
    BY <2>1, <2>5, <2>6 DEF Outcome, UserPCs
<1> QED
  BY <1>1, <1>2 DEF CheckIn

LEMMA GiveBackCore ==
  ASSUME Core, NEW u \in Users, GiveBack(u)
  PROVE  Core'
<1>1. pc[u] \in Working /\ pc[u] # "replacing" /\ phase # "new" /\ held[u] \in Instances
  BY DEF GiveBack, Working, Core, Control, TypeOK, Holding
<1>2. /\ Placed(u, avail, sticky', held[u])
      /\ Running => Sound(u, tracked, avail, client, sticky', held[u])
  BY <1>1, GivesPlaced, GivesSound DEF Core, GiveBack
<1>3. Outcome(u)
  BY <1>1, <1>2, CheckInMoves DEF GiveBack, Core, bgVars
<1>4. client' \in [Instances -> {"none", "fresh", "worn", "dead"}] /\ refills' \in refills..MaxRefills
  BY SameRefills DEF GiveBack, Core, TypeOK, bgVars
<1> QED
  BY <1>1, <1>3, <1>4, OutcomeCore DEF GiveBack, bgVars, lockVars

LEMMA CheckInDoneCore ==
  ASSUME Core, NEW u \in Users, CheckInDone(u)
  PROVE  Core'
<1>1. pc[u] \in Disposing /\ Disconnect(held[u]) /\ UNCHANGED <<mainVars, sweepVars, lockVars, tracked, avail, sticky, hpc>>
  BY DEF CheckInDone, Disposing
<1>2. /\ Placed(u, avail', sticky', NoInstance)
      /\ Running => Sound(u, tracked', avail', client', sticky', NoInstance)
  BY <1>1, DropsSound, WithoutPlaced DEF Core, Books, Disconnect
<1>3. Outcome(u)
  BY <1>1, <1>2, ReturnFits, RestsWith DEF CheckInDone, Return, Core, TypeOK, sweepVars
<1>4. client' \in [Instances -> {"none", "fresh", "worn", "dead"}]
  BY <1>1 DEF Core, TypeOK, Disconnect
<1>5. refills' \in refills..MaxRefills
  <2>1. refills \in Nat /\ refills =< MaxRefills /\ MaxRefills \in Nat
    BY PoolAssumption DEF Core, TypeOK
  <2>2. refills' = refills \/ (refills < MaxRefills /\ refills' = refills + 1)
    BY DEF CheckInDone
  <2> QED
    BY ONLY <2>1, <2>2
<1>6. phase # "new" /\ pc[u] # "replacing"
  BY <1>1 DEF Core, Control, Disposing
<1> QED
  BY <1>1, <1>3, <1>4, <1>5, <1>6, OutcomeCore DEF mainVars, sweepVars, lockVars

(* A binding is used, found unhealthy, or missing.                           *)
LEMMA LookUpCore ==
  ASSUME Core, NEW u \in Users, NEW k \in Keys, LookUp(u, k), Bare(u), phase # "new", stickyLock = Nobody,
         UNCHANGED <<bgVars, client>>
  PROVE  Core'
<1>1. /\ Placed(u, avail, sticky, NoInstance) /\ (Running => Sound(u, tracked, avail, client, sticky, NoInstance))
      /\ pc[u] # "replacing"
  BY BareBooks DEF Bare
<1>2. client' \in [Instances -> {"none", "fresh", "worn", "dead"}] /\ refills' \in refills..MaxRefills
  BY SameRefills DEF Core, TypeOK, bgVars
<1>3. sticky[k] # NoInstance => sticky[k] \in Instances
  BY DEF Core, TypeOK
<1>4. CASE sticky[k] # NoInstance /\ At(u, "using_bound", k, sticky[k]) /\ UNCHANGED <<lockVars, tracked, avail, sticky>>
  <2>1. Fits("using_bound", k, sticky[k])
    BY <1>3, <1>4 DEF Fits, UserPCs, ForKey, Holding
  <2>2. Others(u) /\ pc'[u] = "using_bound"
    BY <1>4, <2>1, AtOthers DEF Core, bgVars
  <2>3. pc'[u] \notin Working \cup Disposing \cup {"replacing"}
    BY <2>2 DEF Working, Disposing
  <2>4. Placed(u, avail', sticky', NoInstance) /\ (Running => Sound(u, tracked', avail', client', sticky', NoInstance))
    BY <1>1, <1>4
  <2>5. Placed(Nobody, avail, sticky, NoInstance)' /\ (Running => Sound(Nobody, tracked, avail, client, sticky, NoInstance)')
    BY <2>2, <2>3, <2>4, Rests
  <2>6. Outcome(u)
    <3>1. tracked' \subseteq Instances /\ "using_bound" \in UserPCs \ {"replacing"} /\ sticky[k] \in Instances \cup {NoInstance}
      BY <1>3, <1>4 DEF Core, TypeOK, UserPCs
    <3> QED
      BY <1>4, <2>1, <2>5, <3>1 DEF Outcome
  <2> QED
    BY <1>1, <1>2, <1>4, <2>6, OutcomeCore DEF bgVars, lockVars
<1>5. CASE /\ sticky[k] # NoInstance /\ tracked' = tracked \ {sticky[k]} /\ stickyLock' = u
           /\ At(u, "replacing", k, sticky[k]) /\ UNCHANGED <<avail, sticky, lock>>
  <2>1. Fits("replacing", k, sticky[k])
    BY <1>3, <1>5 DEF Fits, UserPCs, ForKey, Holding
  <2>2. Others(u) /\ pc'[u] = "replacing" /\ key'[u] = k /\ held'[u] = sticky[k]
    BY <1>5, <2>1, AtOthers DEF Core, bgVars
  <2>3. UNCHANGED <<avail, sticky, client>>
    BY <1>5
  <2>4. Placed(Nobody, avail, sticky, NoInstance)' /\ (Running => Sound(Nobody, tracked, avail, client, sticky, NoInstance)')
    BY <1>1, <1>5, <2>2, <2>3, Faults
  <2>5. Turn(u, "replacing")
    BY <1>1, <1>2, <1>5 DEF Turn, bgVars
  <2>6. tracked' \subseteq Instances
    BY <1>5 DEF Core, TypeOK
  <2> QED
    BY <1>2, <1>5, <2>1, <2>4, <2>5, <2>6, TurnCore DEF Core
<1>6. CASE sticky[k] = NoInstance /\ CheckoutFor(u, k, sticky) /\ UNCHANGED stickyLock
  <2>1. Running => Sound(u, tracked, avail, client', sticky, NoInstance)
    BY <1>1
  <2>2. Outcome(u) /\ lock' \in {lock, u}
    BY <1>1, <1>6, <2>1, CheckoutForMoves DEF Core, bgVars
  <2> QED
    BY <1>1, <1>2, <1>6, <2>2, OutcomeCore DEF bgVars
<1> QED
  BY <1>4, <1>5, <1>6 DEF LookUp

(* A call that waits for the sticky lock.                                    *)
LEMMA WaitsCore ==
  ASSUME Core, NEW u \in Users, NEW p \in {"want_sticky", "want_release", "idle"}, NEW k \in Keys \cup {NoKey},
         p # "idle" => k \in Keys, At(u, p, k, NoInstance), Bare(u), UNCHANGED <<bgVars, lockVars, tracked, avail, sticky, client>>,
         phase = "new" => p # "want_sticky"
  PROVE  Core'
<1>1. Fits(p, k, NoInstance)
  BY DEF Fits, UserPCs, ForKey, Holding, Working, Disposing
<1>2. /\ Placed(u, avail', sticky', NoInstance)
      /\ Running => Sound(u, tracked', avail', client', sticky', NoInstance)
  BY BareBooks
<1>3. Outcome(u)
  BY <1>1, <1>2, RestsWith DEF Core, TypeOK, bgVars
<1>4. Turn(u, p)
  BY SameRefills DEF Turn, bgVars, lockVars, Core, Bare
<1>5. tracked' \subseteq Instances /\ client' \in [Instances -> {"none", "fresh", "worn", "dead"}]
  BY DEF Core, TypeOK
<1> QED
  BY <1>1, <1>3, <1>4, <1>5, TurnCore DEF Outcome, Core

LEMMA KeysOfCall == ASSUME NEW u \in Users, NEW k \in KeysOf[u] PROVE k \in Keys
BY PoolAssumption

LEMMA AcquireStickyCore ==
  ASSUME Core, NEW u \in Users, NEW k \in Keys, AcquireSticky(u, k)
  PROVE  Core'
<1>1. Bare(u) /\ Running /\ phase # "new" /\ pc[u] = "idle"
  BY DEF AcquireSticky, Bare, Working, Disposing, Running
<1>2. CASE StickyLockFree(u) /\ LookUp(u, k)
  <2>1. stickyLock = Nobody
    BY <1>1, <1>2 DEF StickyLockFree, Core, Control
  <2> QED
    BY <1>1, <1>2, <2>1, LookUpCore DEF AcquireSticky
<1>3. CASE At(u, "want_sticky", k, NoInstance) /\ UNCHANGED <<lockVars, tracked, avail, sticky>>
  BY <1>1, <1>3, WaitsCore DEF AcquireSticky
<1> QED
  BY <1>2, <1>3 DEF AcquireSticky

LEMMA StickyGrantedCore ==
  ASSUME Core, NEW u \in Users, StickyGranted(u)
  PROVE  Core'
<1>1. Bare(u) /\ phase # "new" /\ key[u] \in Keys
  BY DEF StickyGranted, Bare, Working, Disposing, Core, Control, ForKey
<1> QED
  BY <1>1, LookUpCore DEF StickyGranted

(* The instance found unhealthy is gone.  During shutdown its binding may be *)
(* gone too.                                                                 *)
LEMMA ReplaceStickyCore ==
  ASSUME Core, NEW u \in Users, ReplaceSticky(u)
  PROVE  Core'
<1> DEFINE b == [sticky EXCEPT ![key[u]] = NoInstance]
<1>1. /\ pc[u] = "replacing" /\ Disconnect(held[u]) /\ stickyLock' = Nobody /\ UNCHANGED bgVars
      /\ phase # "new" /\ key[u] \in Keys
  BY DEF ReplaceSticky, Core, Control, ForKey
<1>2. Placed(u, avail, sticky, NoInstance) /\ Placed(u, avail, b, NoInstance)
  BY <1>1, DropsPlaced DEF Core
<1>3. Running => Sound(u, tracked, avail, client', b, NoInstance)
  BY <1>1, DropsSound DEF Core, Disconnect
<1> HIDE DEF b
<1>4. ASSUME sticky[key[u]] = NoInstance /\ Return(u) /\ UNCHANGED <<tracked, avail, sticky, lock>>
      PROVE  Outcome(u) /\ lock' \in {lock, u}
  <2>1. b = sticky
    BY <1>4 DEF b, Core, TypeOK
  <2>2. Placed(u, avail', sticky', NoInstance) /\ (Running => Sound(u, tracked', avail', client', sticky', NoInstance))
    BY <1>2, <1>3, <1>4, <2>1
  <2>3. tracked' \subseteq Instances
    BY <1>4 DEF Core, TypeOK
  <2>4. Outcome(u)
    BY <1>1, <1>4, <2>2, <2>3, ReturnFits, RestsWith DEF Return, Core, bgVars
  <2> QED
    BY <1>4, <2>4
<1>5. ASSUME CheckoutFor(u, key[u], b)
      PROVE  Outcome(u) /\ lock' \in {lock, u}
  BY <1>1, <1>2, <1>3, <1>5, CheckoutForMoves DEF Core, bgVars
<1>6. Outcome(u) /\ lock' \in {lock, u}
  <2>1. \/ sticky[key[u]] = NoInstance /\ Return(u) /\ UNCHANGED <<tracked, avail, sticky, lock>>
        \/ CheckoutFor(u, key[u], b)
    BY DEF ReplaceSticky, b
  <2> QED
    BY <1>4, <1>5, <2>1
<1>7. client' \in [Instances -> {"none", "fresh", "worn", "dead"}] /\ refills' \in refills..MaxRefills
  BY <1>1, SameRefills DEF Core, TypeOK, Disconnect, bgVars
<1> QED
  BY <1>1, <1>6, <1>7, OutcomeCore DEF bgVars

(* The instance in hand is bound, over what the key was bound to.            *)
LEMMA BindGrantedCore ==
  ASSUME Core, NEW u \in Users, BindGranted(u)
  PROVE  Core'
<1> DEFINE k == key[u]
           i == held[u]
<1>1. /\ pc[u] = "want_bind" /\ stickyLock = Nobody /\ sticky' = [sticky EXCEPT ![k] = i]
      /\ At(u, "using_bound", k, i) /\ UNCHANGED <<bgVars, poolVars, lockVars>>
  BY DEF BindGranted
<1>2. k \in Keys /\ i \in Instances /\ pc[u] \in Working /\ phase # "new"
  BY <1>1 DEF Core, Control, TypeOK, ForKey, Holding, Working
<1>3. /\ Placed(u, avail, sticky, i)
      /\ Running => Sound(u, tracked, avail, client, sticky, i)
  BY <1>2, GivesPlaced, GivesSound DEF Core
<1> HIDE DEF k, i
<1>4. Fits("using_bound", k, i)
  BY <1>2, NoneIsNone DEF Fits, UserPCs, ForKey, Holding
<1>5. Others(u) /\ pc'[u] = "using_bound"
  BY <1>1, <1>4, AtOthers DEF Core, bgVars
<1>6. pc'[u] \notin Working \cup Disposing \cup {"replacing"}
  BY <1>5 DEF Working, Disposing
<1>7. \A v \in Users \ {u} : pc[v] # "replacing"
  BY <1>1, PoolAssumption DEF Core, Control
<1>8. Placed(u, avail', sticky, i) /\ (Running => Sound(u, tracked', avail', client', sticky, i))
  BY <1>1, <1>3 DEF poolVars
<1>9. Placed(Nobody, avail, sticky, NoInstance)' /\ (Running => Sound(Nobody, tracked, avail, client, sticky, NoInstance)')
  BY <1>1, <1>2, <1>5, <1>6, <1>7, <1>8, Binds
<1>10. Turn(u, "using_bound")
  BY <1>1, <1>2, SameRefills DEF Turn, bgVars, lockVars, Core
<1>11. tracked' \subseteq Instances /\ client' \in [Instances -> {"none", "fresh", "worn", "dead"}]
  BY <1>1 DEF Core, TypeOK, poolVars
<1> QED
  BY <1>1, <1>4, <1>9, <1>10, <1>11, TurnCore DEF Core

LEMMA UnbindCore ==
  ASSUME Core, NEW u \in Users, NEW k \in Keys, Unbind(u, k), Bare(u), stickyLock = Nobody,
         UNCHANGED <<bgVars, lockVars, client>>
  PROVE  Core'
<1>1. CASE sticky[k] = NoInstance /\ Return(u) /\ UNCHANGED <<tracked, avail, sticky>>
  BY <1>1, WaitsCore DEF Return
<1>2. CASE sticky[k] # NoInstance /\ sticky' = [sticky EXCEPT ![k] = NoInstance] /\ CheckIn(u, sticky[k])
  <2> DEFINE i == sticky[k]
  <2>1. i \in Instances /\ phase # "new" /\ pc[u] # "replacing"
    BY <1>2 DEF Core, TypeOK, Control, Bare
  <2>2. \A v \in Users : pc[v] # "replacing"
    BY PoolAssumption DEF Core, Control
  <2>3. \A v \in Owners(u) : held[v] # NoInstance
    BY DEF Owners, Core, Control, Holding
  <2>4. Placed(u, avail, sticky, NoInstance) /\ (Running => Sound(u, tracked, avail, client, sticky, NoInstance))
    BY BareBooks
  <2>5. Placed(u, avail, sticky', i)
    BY <1>2, <2>3, <2>4, UnbindsPlaced
  <2>6. Running => Sound(u, tracked, avail, client, sticky', i)
    BY <1>2, <2>2, <2>4, UnbindsSound DEF Core, TypeOK
  <2> HIDE DEF i
  <2>7. CheckIn(u, i)
    BY <1>2 DEF i
  <2>8. Outcome(u)
    BY <2>1, <2>5, <2>6, <2>7, CheckInMoves DEF Core, bgVars
  <2> QED
    BY <2>1, <2>8, SameRefills, OutcomeCore DEF Core, TypeOK, bgVars, lockVars
<1> QED
  BY <1>1, <1>2 DEF Unbind

LEMMA ReleaseCore ==
  ASSUME Core, NEW u \in Users, (\E k \in Keys : ReleaseSticky(u, k)) \/ ReleaseGranted(u)
  PROVE  Core'
<1>1. CASE ReleaseGranted(u)
  <2>1. Bare(u) /\ key[u] \in Keys
    BY <1>1 DEF ReleaseGranted, Bare, Working, Disposing, Core, Control, ForKey
  <2> QED
    BY <1>1, <2>1, UnbindCore DEF ReleaseGranted
<1>2. ASSUME NEW k \in Keys, ReleaseSticky(u, k)
      PROVE  Core'
  <2>1. Bare(u) /\ pc[u] = "idle"
    BY <1>2 DEF ReleaseSticky, Bare, Working, Disposing
  <2>2. CASE StickyLockFree(u) /\ Unbind(u, k)
    <3>1. stickyLock = Nobody
      BY <2>1, <2>2 DEF StickyLockFree, Core, Control
    <3> QED
      BY <1>2, <2>1, <2>2, <3>1, UnbindCore DEF ReleaseSticky
  <2>3. CASE At(u, "want_release", k, NoInstance) /\ UNCHANGED <<tracked, avail, sticky>>
    BY <1>2, <2>1, <2>3, WaitsCore DEF ReleaseSticky
  <2> QED
    BY <1>2, <2>2, <2>3 DEF ReleaseSticky
<1> QED
  BY <1>1, <1>2

-----------------------------------------------------------------------------
(* The pool's own steps                                                      *)

LEMMA TrackedTyped ==
  ASSUME Core, NEW S \in SUBSET Instances, SweepNext(Health, S) \/ SweepNext(Main, S)
  PROVE  /\ tracked' \subseteq Instances
         /\ todo' \in [{Health, Main} -> SUBSET Instances]
         /\ current' \in [{Health, Main} -> Instances \cup {NoInstance}]
<1>1. /\ tracked \subseteq Instances
      /\ todo \in [{Health, Main} -> SUBSET Instances]
      /\ current \in [{Health, Main} -> Instances \cup {NoInstance}]
  BY DEF Core, TypeOK
<1>2. ASSUME NEW r \in {Health, Main}, SweepNext(r, S)
      PROVE  /\ tracked' \subseteq Instances
             /\ todo' \in [{Health, Main} -> SUBSET Instances]
             /\ current' \in [{Health, Main} -> Instances \cup {NoInstance}]
  <2>1. CASE /\ S = {} /\ UNCHANGED tracked
             /\ todo' = [todo EXCEPT ![r] = {}] /\ current' = [current EXCEPT ![r] = NoInstance]
    BY <1>1, <2>1
  <2>2. ASSUME NEW i \in S, todo' = [todo EXCEPT ![r] = S \ {i}], current' = [current EXCEPT ![r] = i],
               tracked' = tracked \ {i}
        PROVE  /\ tracked' \subseteq Instances
               /\ todo' \in [{Health, Main} -> SUBSET Instances]
               /\ current' \in [{Health, Main} -> Instances \cup {NoInstance}]
    <3>1. S \ {i} \in SUBSET Instances /\ i \in Instances
      OBVIOUS
    <3> QED
      BY <1>1, <2>2, <3>1
  <2> QED
    BY <1>2, <2>1, <2>2 DEF SweepNext
<1> QED
  BY <1>2

(* What the users' side of Control needs, when no call moves.                *)
LEMMA UsersStill ==
  ASSUME Core, UNCHANGED <<userVars, stickyLock>>
  PROVE  /\ pc' \in [Users -> UserPCs] /\ key' \in [Users -> Keys \cup {NoKey}]
         /\ held' \in [Users -> Instances \cup {NoInstance}] /\ stickyLock' \in Users \cup {Nobody}
         /\ \A u \in Users : /\ pc'[u] \in ForKey => key'[u] \in Keys
                             /\ pc'[u] \in Holding <=> held'[u] # NoInstance
                             /\ stickyLock' = u <=> pc'[u] = "replacing"
         /\ UNCHANGED <<todo, current>> => Others(Nobody)
BY DEF Core, TypeOK, Control, userVars, Others

LEMMA BooksNow ==
  ASSUME Core
  PROVE  /\ Placed(Nobody, avail, sticky, NoInstance) /\ In(avail) \subseteq Instances
         /\ Running => Sound(Nobody, tracked, avail, client, sticky, NoInstance)
BY InTyped DEF Core, Books, TypeOK

(* An instance created for the queue.                                        *)
LEMMA StocksCore ==
  ASSUME Core, Create, avail' = Append(avail, NewInstance),
         UNCHANGED <<userVars, stickyLock, sticky, todo, current>>
  PROVE  /\ Placed(Nobody, avail, sticky, NoInstance)'
         /\ Running => Sound(Nobody, tracked, avail, client, sticky, NoInstance)'
         /\ tracked' \subseteq Instances /\ client' \in [Instances -> {"none", "fresh", "worn", "dead"}]
         /\ avail' \in Seq(Instances)
<1>1. Others(Nobody) /\ Nobody \notin Users
  BY UsersStill, PoolAssumption
<1>2. /\ NewInstance \in Instances /\ Placed(Nobody, avail, sticky', NewInstance)
      /\ Running => Sound(Nobody, tracked', avail, client', sticky', NewInstance)
      /\ tracked' \subseteq Instances /\ client' \in [Instances -> {"none", "fresh", "worn", "dead"}]
  BY BooksNow, CreatesBooks
<1>3. Placed(Nobody, avail, sticky, NoInstance)' /\ (Running => Sound(Nobody, tracked, avail, client, sticky, NoInstance)')
  BY <1>1, <1>2, Queues
<1> QED
  BY <1>2, <1>3 DEF Placed

(* The steps that move no instance.                                          *)
LEMMA StillBooks ==
  ASSUME Core, UNCHANGED <<userVars, poolVars, sticky, todo, current>>
  PROVE  /\ Placed(Nobody, avail, sticky, NoInstance)'
         /\ Running => Sound(Nobody, tracked, avail, client, sticky, NoInstance)'
<1>1. Owners(Nobody)' = Owners(Nobody) /\ Swept' = Swept
  BY DEF Owners, Swept, userVars
<1> QED
  BY <1>1, BooksNow DEF Placed, Sound, userVars, poolVars

LEMMA StartCore ==
  ASSUME Core, Start
  PROVE  Core'
<1>1. WarmupCount \in Nat
  BY PoolAssumption
<1>2. /\ UNCHANGED <<userVars, poolVars, sticky, todo, current, refills, lock, stickyLock>>
      /\ phase' \in {"warming", "serving"} /\ (phase' = "warming" => WarmupCount # 0 /\ hpc' = "off")
      /\ warm' = WarmupCount /\ hpc' \in {"off", "sleep"} /\ phase = "new"
  BY DEF Start, sweepVars, lockVars
<1>3. warm' \in 0..WarmupCount /\ (phase' = "warming" => warm' > 0)
  BY <1>1, <1>2
<1>4. /\ tracked = {} /\ avail = <<>> /\ hpc = "off" /\ (\A i \in Instances : client[i] = "none")
      /\ (\A k \in Keys : sticky[k] = NoInstance) /\ (\A u \in Users : pc[u] \in {"idle", "want_release"})
      /\ todo[Health] = {} /\ current[Health] = NoInstance
  BY <1>2 DEF Core, Control
<1>5. TypeOK'
  BY <1>2, <1>3, UsersStill DEF Core, TypeOK, Phases, HealthPCs, poolVars
<1>6. Control'
  BY <1>2, <1>3, <1>4, UsersStill DEF Core, Control
<1>7. Sound(Nobody, tracked, avail, client, sticky, NoInstance)
  <2>1. In(avail) = {} /\ Swept = {}
    BY <1>4 DEF In, Swept
  <2>2. \A u \in Users : pc[u] \notin Working \cup Disposing \cup {"replacing"}
    BY <1>4 DEF Working, Disposing
  <2>3. client \in [Instances -> {"none", "fresh", "worn", "dead"}]
    BY DEF Core, TypeOK
  <2> QED
    BY <1>4, <2>1, <2>2, <2>3 DEF Sound
<1>8. Sound(Nobody, tracked, avail, client, sticky, NoInstance)'
  <2>1. Owners(Nobody)' = Owners(Nobody) /\ Swept' = Swept
    BY <1>2 DEF Owners, Swept, userVars
  <2> QED
    BY <1>2, <1>7, <2>1 DEF Sound, userVars, poolVars
<1> QED
  BY <1>2, <1>5, <1>6, <1>8, StillBooks DEF Books, Core

LEMMA WarmedCore ==
  ASSUME Core, Warmed
  PROVE  Core'
<1>1. /\ UNCHANGED <<userVars, sticky, todo, current, refills, lock, stickyLock>> /\ warm' = warm - 1 /\ warm > 0
      /\ \/ phase = "warming" /\ phase' = "serving" /\ hpc' = "sleep"
         \/ phase # "new" /\ UNCHANGED <<phase, hpc>> /\ (phase = "warming" => warm # 1)
  BY DEF Warmed, sweepVars, lockVars
<1>2. warm \in 0..WarmupCount /\ WarmupCount \in Nat
  BY PoolAssumption DEF Core, TypeOK
<1>3. warm' \in 0..WarmupCount /\ (phase' = "warming" => warm' > 0)
  BY <1>1, <1>2
<1>4. /\ Placed(Nobody, avail, sticky, NoInstance)'
      /\ Running => Sound(Nobody, tracked, avail, client, sticky, NoInstance)'
      /\ tracked' \subseteq Instances /\ client' \in [Instances -> {"none", "fresh", "worn", "dead"}]
      /\ avail' \in Seq(Instances)
  <2>1. CASE Create /\ avail' = Append(avail, NewInstance)
    BY <1>1, <2>1, StocksCore
  <2>2. CASE UNCHANGED poolVars
    BY <1>1, <2>2, StillBooks DEF Core, TypeOK, poolVars
  <2> QED
    BY <2>1, <2>2 DEF Warmed
<1>5. TypeOK'
  BY <1>1, <1>3, <1>4, UsersStill DEF Core, TypeOK, Phases, HealthPCs
<1>6. Control'
  <2>1. phase = "warming" => hpc = "off" /\ todo[Health] = {} /\ current[Health] = NoInstance
    BY DEF Core, Control
  <2> QED
    BY <1>1, <1>3, <2>1, UsersStill DEF Core, Control
<1>7. Running' => Running
  BY <1>1 DEF Running
<1> QED
  BY <1>4, <1>5, <1>6, <1>7 DEF Books, Core

(* A client wears or dies, but is still there.                               *)
LEMMA DeclinesCore ==
  ASSUME Core, NEW i \in Instances, Declines(i)
  PROVE  Core'
<1>1. /\ UNCHANGED <<phase, warm, hpc, refills, todo, current, userVars, lock, stickyLock, tracked, avail, sticky>>
      /\ UNCHANGED userVars /\ client[i] # "none"
      /\ \E condition \in {"worn", "dead"} : client' = [client EXCEPT ![i] = condition]
  BY PoolAssumption DEF Declines, bgVars, lockVars
<1>2. PICK condition \in {"worn", "dead"} : client' = [client EXCEPT ![i] = condition]
  BY <1>1
<1>3. /\ client' \in [Instances -> {"none", "fresh", "worn", "dead"}]
      /\ \A x \in Instances : client'[x] # "none" <=> client[x] # "none"
  BY <1>1, <1>2 DEF Core, TypeOK
<1>4. TypeOK'
  BY <1>1, <1>3, UsersStill DEF Core, TypeOK
<1>5. phase # "new"
  BY <1>1 DEF Core, Control
<1>6. Control'
  BY <1>1, <1>5, UsersStill DEF Core, Control
<1>7. Owners(Nobody)' = Owners(Nobody) /\ Swept' = Swept
  BY <1>1 DEF Owners, Swept, userVars
<1>8. Placed(Nobody, avail, sticky, NoInstance)'
  BY <1>1, <1>7, BooksNow DEF Placed, userVars
<1>9. ASSUME Running
      PROVE  Sound(Nobody, tracked, avail, client, sticky, NoInstance)'
  <2>1. Sound(Nobody, tracked, avail, client, sticky, NoInstance)
    BY <1>9, BooksNow
  <2>2. \A x \in tracked : x \in Instances
    BY DEF Core, TypeOK
  <2> QED
    BY <1>1, <1>3, <1>7, <2>1, <2>2 DEF Sound, userVars
<1> QED
  BY <1>1, <1>4, <1>6, <1>8, <1>9 DEF Books, Core, Running

(* Instances created for the queue by the loop and the refills, and the      *)
(* steps by which they take and give back the lock.                          *)
LEMMA RefillsCore ==
  ASSUME Core,
         \/ HealthEnsures \/ HealthCreated \/ HealthCreateFails \/ RefillStarts \/ RefillCreated \/ RefillFails
  PROVE  Core'
<1>1. /\ UNCHANGED <<userVars, stickyLock, sticky, todo, current, phase, warm>>
      /\ \/ Create /\ avail' = Append(avail, NewInstance)
         \/ UNCHANGED poolVars
  BY DEF HealthEnsures, HealthCreated, HealthCreateFails, RefillStarts, RefillCreated, RefillFails, mainVars, sweepVars
<1>2. /\ Placed(Nobody, avail, sticky, NoInstance)'
      /\ Running => Sound(Nobody, tracked, avail, client, sticky, NoInstance)'
      /\ tracked' \subseteq Instances /\ client' \in [Instances -> {"none", "fresh", "worn", "dead"}]
      /\ avail' \in Seq(Instances)
  <2>1. CASE Create /\ avail' = Append(avail, NewInstance)
    BY <1>1, <2>1, StocksCore
  <2>2. CASE UNCHANGED poolVars
    BY <1>1, <2>2, StillBooks DEF Core, TypeOK, poolVars
  <2> QED
    BY <1>1, <2>1, <2>2
<1>3. refills \in Nat /\ MaxRefills \in Nat /\ refills =< MaxRefills
  BY PoolAssumption DEF Core, TypeOK
<1>4. phase # "new" /\ (phase # "warming" \/ (hpc = "off" /\ UNCHANGED hpc))
  BY <1>3 DEF HealthEnsures, HealthCreated, HealthCreateFails, RefillStarts, RefillCreated, RefillFails, Core, Control
<1>5. /\ refills' \in Nat /\ refills' =< MaxRefills
      /\ lock' \in Users \cup {Nobody, Health, Refill}
      /\ lock' = Refill => refills' > 0
  <2>1. CASE HealthEnsures \/ HealthCreated \/ HealthCreateFails
    BY <1>3, <2>1 DEF HealthEnsures, HealthCreated, HealthCreateFails, Core, TypeOK, Control, Health, Nobody, Refill
  <2>2. CASE RefillStarts \/ RefillCreated \/ RefillFails
    <3>1. /\ refills > 0 /\ lock' \in {lock, Nobody, Refill}
          /\ refills' = refills \/ (lock' # Refill /\ refills' = refills - 1)
      BY <2>2 DEF RefillStarts, RefillCreated, RefillFails, Core, Control, Nobody, Refill
    <3> QED
      BY <1>3, <3>1 DEF Core, TypeOK
  <2> QED
    BY <2>1, <2>2
<1>6. /\ hpc' \in HealthPCs
      /\ hpc' # hpc => hpc \notin {"recycling", "cleaning"}
  BY DEF HealthEnsures, HealthCreated, HealthCreateFails, RefillStarts, RefillCreated, RefillFails, HealthPCs, Core, TypeOK
<1>7. TypeOK'
  <2>1. refills' \in 0..MaxRefills
    BY <1>3, <1>5
  <2> QED
    BY <1>1, <1>2, <1>5, <1>6, <2>1, UsersStill DEF Core, TypeOK
<1>8. Control'
  BY <1>1, <1>4, <1>5, <1>6, UsersStill DEF Core, Control
<1> QED
  BY <1>1, <1>2, <1>7, <1>8 DEF Books, Core, Running

(* The loop goes on to destroy S: no call, queue or binding refers to it.    *)
LEMMA SweepBooks ==
  ASSUME Core, UNCHANGED userVars, NEW S \in SUBSET Instances, SweepNext(Health, S),
         Placed(Nobody, avail', sticky', NoInstance),
         \A x \in S : /\ x \notin In(avail') /\ \A k \in Keys : sticky'[k] # x
                      /\ \A v \in Owners(Nobody) : held[v] # x,
         Running => /\ Sound(Nobody, tracked, avail', client', sticky', NoInstance)
                    /\ \A x \in Instances : client'[x] # "none" =>
                         \/ x \in tracked
                         \/ \E v \in Users : pc[v] \in Disposing \cup {"replacing"} /\ held[v] = x
  PROVE  /\ Placed(Nobody, avail, sticky, NoInstance)'
         /\ Running => Sound(Nobody, tracked, avail, client, sticky, NoInstance)'
<1>1. Owners(Nobody)' = Owners(Nobody) /\ Users \ {Nobody} = Users
  BY PoolAssumption DEF Owners, userVars
<1>2. Placed(Nobody, avail, sticky, NoInstance)'
  BY <1>1 DEF Placed, userVars
<1>3. /\ Swept' \subseteq S /\ S \ Swept' = {}
      /\ tracked' = tracked \/ (current'[Health] \in S /\ tracked' = tracked \ {current'[Health]})
  <2>1. CASE S = {} /\ todo' = [todo EXCEPT ![Health] = {}] /\ current' = [current EXCEPT ![Health] = NoInstance] /\ UNCHANGED tracked
    <3>1. todo'[Health] = {} /\ current'[Health] = NoInstance
      BY <2>1 DEF Core, TypeOK
    <3> QED
      BY <2>1, <3>1 DEF Swept
  <2>2. ASSUME NEW i \in S, todo' = [todo EXCEPT ![Health] = S \ {i}], current' = [current EXCEPT ![Health] = i],
               tracked' = tracked \ {i}
        PROVE  /\ Swept' \subseteq S /\ S \ Swept' = {}
               /\ tracked' = tracked \/ (current'[Health] \in S /\ tracked' = tracked \ {current'[Health]})
    <3>1. todo'[Health] = S \ {i} /\ current'[Health] = i /\ i # NoInstance /\ NoInstance \notin S
      BY <2>2, NoneIsNone DEF Core, TypeOK
    <3> QED
      BY <2>2, <3>1 DEF Swept
  <2> QED
    BY <2>1, <2>2 DEF SweepNext
<1>4. ASSUME Running PROVE Sound(Nobody, tracked, avail, client, sticky, NoInstance)'
  <2>1. \A x \in Swept' : x # NoInstance
    BY <1>3, NoneIsNone
  <2>2. \A v \in Users : pc[v] \in Working => v \in Owners(Nobody)
    BY <1>1 DEF Owners
  <2>3. \A x \in tracked : x \in tracked' \/ (x \in S /\ current'[Health] = x)
    BY <1>3
  <2>4. \A v \in Users : pc[v] \in Working => held[v] \in tracked' /\ client'[held[v]] # "none"
    BY <1>1, <1>4, <2>2, <2>3 DEF Sound
  <2>5. \A k \in Keys : sticky'[k] # NoInstance =>
          \/ sticky'[k] \in tracked' /\ client'[sticky'[k]] # "none"
          \/ \E v \in Users : pc[v] = "replacing" /\ key[v] = k
    BY <1>1, <1>4, <2>3 DEF Sound
  <2>6. /\ tracked' \subseteq tracked
        /\ \A x \in In(avail') : x \in tracked' /\ client'[x] # "none"
    BY <1>3, <1>4, <2>3 DEF Sound
  <2>7. UNCHANGED <<pc, key, held>>
    BY DEF userVars
  <2>8. tracked' \subseteq Instances
    BY <1>4, <2>6 DEF Sound
  <2> QED
    BY <1>1, <1>3, <1>4, <2>1, <2>3, <2>4, <2>5, <2>6, <2>7, <2>8 DEF Sound
<1> QED
  BY <1>2, <1>4

(* The loop's control while it destroys.                                     *)
LEMMA SweepCore ==
  ASSUME Core, NEW S \in SUBSET Instances, SweepNext(Health, S), UNCHANGED <<mainVars, userVars, lockVars, refills>>,
         hpc # "off", hpc' \in HealthPCs, hpc' # "off", S = {} \/ hpc' \in {"recycling", "cleaning"},
         client' \in [Instances -> {"none", "fresh", "worn", "dead"}],
         /\ Placed(Nobody, avail, sticky, NoInstance)'
         /\ Running => Sound(Nobody, tracked, avail, client, sticky, NoInstance)'
  PROVE  Core'
<1>1. /\ tracked' \subseteq Instances
      /\ todo' \in [{Health, Main} -> SUBSET Instances]
      /\ current' \in [{Health, Main} -> Instances \cup {NoInstance}]
  BY TrackedTyped
<1>2. avail' \in Seq(Instances) /\ sticky' \in [Keys -> Instances \cup {NoInstance}]
  BY DEF Placed
<1>3. TypeOK'
  BY <1>1, <1>2, UsersStill DEF Core, TypeOK, mainVars, lockVars
<1>4. S = {} => todo'[Health] = {} /\ current'[Health] = NoInstance
  BY DEF SweepNext, Core, TypeOK
<1>5. phase # "new" /\ phase # "warming"
  BY DEF Core, Control
<1>6. Control'
  BY <1>4, <1>5, UsersStill DEF Core, Control, mainVars, lockVars
<1> QED
  BY <1>3, <1>6 DEF Core, Books, Running, mainVars

(* The unusable instances leave the queue to be destroyed.                   *)
LEMMA HealthWakesCore ==
  ASSUME Core, HealthWakes
  PROVE  Core'
<1> DEFINE S == {i \in Instances : ~ Usable(i) /\ \E n \in DOMAIN avail : avail[n] = i}
<1>1. /\ hpc = "sleep" /\ KeepsUsable /\ SweepNext(Health, S) /\ hpc' = (IF S = {} THEN "want_lock" ELSE "recycling")
      /\ UNCHANGED <<mainVars, userVars, lockVars, client, sticky, refills>>
  BY DEF HealthWakes
<1>2. S \in SUBSET Instances /\ \A i \in S : ~ Usable(i) /\ i \in In(avail)
  BY DEF In
<1> HIDE DEF S
<1>3. todo[Health] = {} /\ current[Health] = NoInstance /\ Swept = {}
  BY <1>1 DEF Core, Control, Swept
<1>4. avail' \in Seq(Instances) /\ In(avail') = {i \in In(avail) : Usable(i)} /\ Once(avail')
  BY <1>1, BooksNow, KeepsIn DEF Placed
<1>5. Placed(Nobody, avail', sticky', NoInstance)
  BY <1>1, <1>4, BooksNow DEF Placed
<1>6. \A x \in S : /\ x \notin In(avail') /\ \A k \in Keys : sticky'[k] # x
                   /\ \A v \in Owners(Nobody) : held[v] # x
  BY <1>1, <1>2, <1>4, BooksNow DEF Placed
<1>7. Running => Sound(Nobody, tracked, avail', client', sticky', NoInstance)
  BY <1>1, <1>3, <1>4, BooksNow DEF Sound
<1>8. Running => \A x \in Instances : client'[x] # "none" =>
        \/ x \in tracked
        \/ \E v \in Users : pc[v] \in Disposing \cup {"replacing"} /\ held[v] = x
  BY <1>1, <1>3, NoneIsNone, BooksNow DEF Sound
<1>9. /\ Placed(Nobody, avail, sticky, NoInstance)'
      /\ Running => Sound(Nobody, tracked, avail, client, sticky, NoInstance)'
  BY <1>1, <1>2, <1>5, <1>6, <1>7, <1>8, SweepBooks
<1>10. client' \in [Instances -> {"none", "fresh", "worn", "dead"}]
  BY <1>1 DEF Core, TypeOK
<1> QED
  BY <1>1, <1>2, <1>9, <1>10, SweepCore DEF HealthPCs

(* One of them is disconnected.                                              *)
LEMMA HealthDisconnectsCore ==
  ASSUME Core, HealthRecycled \/ HealthCleaned
  PROVE  Core'
<1> DEFINE S == todo[Health]
           c == current[Health]
<1>1. /\ hpc \in {"recycling", "cleaning"} /\ SweepNext(Health, S) /\ hpc' \in HealthPCs \ {"off"}
      /\ S = {} \/ hpc' \in {"recycling", "cleaning"}
      /\ UNCHANGED <<mainVars, userVars, lockVars, avail, sticky, refills>>
      /\ client' = [client EXCEPT ![c] = "none"]
  BY DEF HealthRecycled, HealthCleaned, HealthPCs, Disconnect
<1>2. S \in SUBSET Instances /\ S \subseteq Swept /\ (c # NoInstance => c \in Swept) /\ c \in Instances \cup {NoInstance}
  BY NoneIsNone DEF Swept, Core, TypeOK
<1>3. /\ client' \in [Instances -> {"none", "fresh", "worn", "dead"}]
      /\ \A x \in Instances : client'[x] = IF x = c THEN "none" ELSE client[x]
  BY <1>1 DEF Core, TypeOK
<1> HIDE DEF S, c
<1>4. Placed(Nobody, avail', sticky', NoInstance)
  BY <1>1, BooksNow
<1>5. CASE Running
  <2>1. Sound(Nobody, tracked, avail, client, sticky, NoInstance)
    BY <1>5, BooksNow
  <2>2. \A x \in S : /\ x \notin In(avail') /\ \A k \in Keys : sticky'[k] # x
                     /\ \A v \in Owners(Nobody) : held[v] # x
    BY <1>1, <1>2, <2>1 DEF Sound
  <2>3. \A x \in tracked : x # c /\ client[x] # "none" => client'[x] # "none"
    BY <1>3, <2>1 DEF Sound
  <2>4. /\ \A v \in Users : pc[v] \in Working => held[v] \in tracked /\ held[v] # c
        /\ \A x \in In(avail) : x \in tracked /\ x # c
        /\ \A k \in Keys : sticky[k] # NoInstance => sticky[k] # c
    <3>1. \A v \in Users : pc[v] \in Working => v \in Owners(Nobody) /\ v \in Users \ {Nobody}
      BY PoolAssumption DEF Owners
    <3>2. NoInstance \notin tracked
      BY NoneIsNone, <2>1 DEF Sound
    <3> QED
      BY <1>2, <2>1, <3>1, <3>2 DEF Sound
  <2>5. Sound(Nobody, tracked, avail', client', sticky', NoInstance)
    <3>1. \A x \in Instances : client'[x] # "none" => client[x] # "none"
      BY <1>3
    <3> QED
      BY <1>1, <1>3, <2>1, <2>3, <2>4, <3>1 DEF Sound
  <2>6. \A x \in Instances : client'[x] # "none" =>
          \/ x \in tracked
          \/ \E v \in Users : pc[v] \in Disposing \cup {"replacing"} /\ held[v] = x
    BY <1>3, <2>1 DEF Sound, c
  <2>7. /\ Placed(Nobody, avail, sticky, NoInstance)'
        /\ Running => Sound(Nobody, tracked, avail, client, sticky, NoInstance)'
    BY <1>1, <1>2, <1>4, <2>2, <2>5, <2>6, SweepBooks
  <2> QED
    BY <1>1, <1>2, <1>3, <2>7, SweepCore
<1>6. CASE ~ Running
  <2>1. Placed(Nobody, avail, sticky, NoInstance)'
    BY <1>1, <1>4 DEF Placed, Owners, userVars
  <2> QED
    BY <1>1, <1>2, <1>3, <1>6, <2>1, SweepCore
<1> QED
  BY <1>5, <1>6

(* Bindings are dropped, their instances to be destroyed.                    *)
LEMMA HealthUnbindsCore ==
  ASSUME Core, HealthUnbinds
  PROVE  Core'
<1>1. /\ hpc = "want_sticky" /\ stickyLock = Nobody /\ UNCHANGED <<mainVars, userVars, lockVars, avail, client, refills>>
      /\ \E expired \in SUBSET Bound :
           /\ sticky' = [k \in Keys |-> IF k \in expired THEN NoInstance ELSE sticky[k]]
           /\ SweepNext(Health, {sticky[k] : k \in expired})
           /\ hpc' = IF expired = {} THEN "sleep" ELSE "cleaning"
  BY DEF HealthUnbinds
<1>2. PICK expired \in SUBSET Bound :
           /\ sticky' = [k \in Keys |-> IF k \in expired THEN NoInstance ELSE sticky[k]]
           /\ SweepNext(Health, {sticky[k] : k \in expired})
           /\ hpc' = IF expired = {} THEN "sleep" ELSE "cleaning"
  BY <1>1
<1> DEFINE S == {sticky[k] : k \in expired}
<1>3. /\ S \in SUBSET Instances /\ SweepNext(Health, S)
      /\ \A k \in Keys : sticky'[k] = IF k \in expired THEN NoInstance ELSE sticky[k]
      /\ sticky' \in [Keys -> Instances \cup {NoInstance}]
      /\ \A x \in S : \E k \in expired : k \in Keys /\ x = sticky[k] /\ sticky[k] # NoInstance
      /\ S = {} => expired = {}
  <2>1. \A k \in expired : k \in Keys /\ sticky[k] # NoInstance /\ sticky[k] \in Instances
    BY DEF Bound, Core, TypeOK
  <2>2. \A x \in S : \E k \in expired : x = sticky[k]
    OBVIOUS
  <2>3. sticky' \in [Keys -> Instances \cup {NoInstance}] /\ \A k \in Keys : sticky'[k] = IF k \in expired THEN NoInstance ELSE sticky[k]
    BY <1>2 DEF Core, TypeOK
  <2>4. S = {} => expired = {}
    OBVIOUS
  <2> HIDE DEF S
  <2>5. SweepNext(Health, S)
    BY <1>2 DEF S
  <2> QED
    BY <2>1, <2>2, <2>3, <2>4, <2>5
<1> HIDE DEF S
<1>4. todo[Health] = {} /\ current[Health] = NoInstance /\ Swept = {}
  BY <1>1 DEF Core, Control, Swept
<1>5. NoInstance \notin In(avail) /\ \A v \in Owners(Nobody) : held[v] # NoInstance
  BY BooksNow, NoneIsNone DEF Owners, Core, Control, Holding
<1>6. Placed(Nobody, avail', sticky', NoInstance)
  BY <1>1, <1>3, <1>5, BooksNow DEF Placed
<1>7. \A x \in S : /\ x \notin In(avail') /\ \A k \in Keys : sticky'[k] # x
                   /\ \A v \in Owners(Nobody) : held[v] # x
  <2> SUFFICES ASSUME NEW x \in S
               PROVE  /\ x \notin In(avail') /\ \A k \in Keys : sticky'[k] # x
                      /\ \A v \in Owners(Nobody) : held[v] # x
    OBVIOUS
  <2>1. PICK k \in expired : k \in Keys /\ x = sticky[k] /\ sticky[k] # NoInstance
    BY <1>3
  <2> QED
    BY <1>1, <1>3, <2>1, BooksNow DEF Placed
<1>8. \A v \in Users : pc[v] # "replacing"
  BY <1>1, PoolAssumption DEF Core, Control
<1>9. Running => Sound(Nobody, tracked, avail', client', sticky', NoInstance)
  BY <1>1, <1>3, <1>4, <1>8, BooksNow DEF Sound
<1>10. Running => \A x \in Instances : client'[x] # "none" =>
        \/ x \in tracked
        \/ \E v \in Users : pc[v] \in Disposing \cup {"replacing"} /\ held[v] = x
  BY <1>1, <1>4, NoneIsNone, BooksNow DEF Sound
<1>11. /\ Placed(Nobody, avail, sticky, NoInstance)'
       /\ Running => Sound(Nobody, tracked, avail, client, sticky, NoInstance)'
  BY <1>1, <1>3, <1>6, <1>7, <1>9, <1>10, SweepBooks
<1>12. client' \in [Instances -> {"none", "fresh", "worn", "dead"}]
  BY <1>1 DEF Core, TypeOK
<1>13. hpc' \in HealthPCs /\ hpc' # "off" /\ (S = {} \/ hpc' \in {"recycling", "cleaning"})
  BY <1>2, <1>3 DEF HealthPCs, S
<1> QED
  BY <1>1, <1>3, <1>11, <1>12, <1>13, SweepCore

(* Shutdown.                                                                 *)
LEMMA ShutdownCore ==
  ASSUME Core, BeginShutdown \/ HealthCancelled \/ DestroyAll \/ Destroyed
  PROVE  Core'
<1>1. /\ UNCHANGED <<userVars, warm, stickyLock, refills>> /\ ~ Running' /\ phase' # "new" /\ phase' # "warming"
      /\ phase' \in Phases
  BY DEF BeginShutdown, HealthCancelled, DestroyAll, Destroyed, mainVars, lockVars, sweepVars, bgVars, Running, Phases
<1>2. Placed(Nobody, avail, sticky, NoInstance)'
  <2>1. CASE UNCHANGED <<avail, sticky>>
    BY <1>1, <2>1, BooksNow DEF Placed, Owners, userVars
  <2>2. CASE avail' = <<>> /\ sticky' = [k \in Keys |-> NoInstance]
    <3>1. In(avail') = {} /\ Once(avail') /\ avail' \in Seq(Instances)
      BY <2>2 DEF In, Once
    <3>2. \A v \in Owners(Nobody) : held[v] # NoInstance
      BY DEF Owners, Core, Control, Holding
    <3> QED
      BY <1>1, <2>2, <3>1, <3>2, BooksNow DEF Placed, Owners, userVars
  <2> QED
    BY <2>1, <2>2 DEF BeginShutdown, HealthCancelled, DestroyAll, Destroyed, mainVars, poolVars
<1>3. /\ client' \in [Instances -> {"none", "fresh", "worn", "dead"}]
      /\ tracked' \subseteq Instances
      /\ todo' \in [{Health, Main} -> SUBSET Instances]
      /\ current' \in [{Health, Main} -> Instances \cup {NoInstance}]
  <2>1. CASE BeginShutdown
    BY <2>1 DEF BeginShutdown, Core, TypeOK, poolVars, sweepVars
  <2>2. CASE HealthCancelled
    BY <2>2 DEF HealthCancelled, Core, TypeOK, Disconnect
  <2>3. CASE DestroyAll
    BY <2>3, TrackedTyped DEF DestroyAll, Core, TypeOK
  <2>4. CASE Destroyed
    BY <2>4, TrackedTyped DEF Destroyed, Core, TypeOK, Disconnect
  <2> QED
    BY <2>1, <2>2, <2>3, <2>4
<1>4. hpc' \in HealthPCs /\ lock' \in {lock, Nobody}
  BY DEF BeginShutdown, HealthCancelled, DestroyAll, Destroyed, lockVars, HealthPCs, Core, TypeOK
<1>5. avail' \in Seq(Instances) /\ sticky' \in [Keys -> Instances \cup {NoInstance}]
  BY <1>2 DEF Placed
<1>6. TypeOK'
  BY <1>1, <1>3, <1>4, <1>5, UsersStill DEF Core, TypeOK
<1>7. hpc' \notin {"recycling", "cleaning"} => todo'[Health] = {} /\ current'[Health] = NoInstance
  <2>1. CASE BeginShutdown
    BY <2>1 DEF BeginShutdown, Core, Control, sweepVars
  <2>2. CASE HealthCancelled
    BY <2>2 DEF HealthCancelled, Core, TypeOK
  <2>3. ASSUME DestroyAll \/ Destroyed
        PROVE  todo'[Health] = todo[Health] /\ current'[Health] = current[Health] /\ UNCHANGED hpc
    BY <2>3 DEF DestroyAll, Destroyed, SweepNext, Core, TypeOK, Health, Main
  <2> QED
    BY <2>1, <2>2, <2>3 DEF Core, Control
<1>8. lock' = Refill => refills' > 0
  BY <1>1, <1>4 DEF Core, Control, Nobody, Refill
<1>9. Control'
  BY <1>1, <1>7, <1>8, UsersStill DEF Core, Control
<1> QED
  BY <1>1, <1>2, <1>6, <1>9 DEF Core, Books

-----------------------------------------------------------------------------
(* The theorems                                                              *)

LEMMA InitCore == Init => Core
<1> SUFFICES ASSUME Init PROVE Core
  OBVIOUS
<1>1. \A u \in Users : pc[u] = "idle" /\ held[u] = NoInstance /\ u # Nobody
  BY PoolAssumption DEF Init
<1>2. TypeOK
  BY PoolAssumption DEF Init, TypeOK, Phases, UserPCs, HealthPCs
<1>3. Control
  BY <1>1, PoolAssumption DEF Init, Control, ForKey, Holding, Working, Disposing, Nobody, Refill
<1>4. In(avail) = {} /\ Once(avail) /\ avail \in Seq(Instances)
  BY DEF Init, In, Once
<1>5. Owners(Nobody) = {}
  BY <1>1 DEF Owners, Working, Disposing
<1>6. Placed(Nobody, avail, sticky, NoInstance)
  BY <1>4, <1>5 DEF Init, Placed
<1> QED
  BY <1>2, <1>3, <1>6 DEF Core, Books, Init, Running

LEMMA NextCore == Core /\ [Next]_vars => Core'
<1> SUFFICES ASSUME Core, [Next]_vars PROVE Core'
  OBVIOUS
<1>1. ASSUME NEW u \in Users, Call(u) PROVE Core'
  <2>1. CASE Acquire(u)
    BY <2>1, AcquireCore
  <2>2. ASSUME NEW k \in KeysOf[u], AcquireSticky(u, k) \/ ReleaseSticky(u, k) PROVE Core'
    BY <2>2, KeysOfCall, AcquireStickyCore, ReleaseCore
  <2> QED
    BY <1>1, <2>1, <2>2 DEF Call
<1>2. ASSUME NEW u \in Users, Resume(u) PROVE Core'
  BY <1>2, DiscardDoneCore, QuietCore, CreatedCore, TakeReturnedCore, GiveBackCore, CheckInDoneCore,
     StickyGrantedCore, ReplaceStickyCore, BindGrantedCore, ReleaseCore DEF Resume
<1>3. CASE HealthLoop \/ HealthCreateFails \/ Refilling
  BY <1>3, HealthWakesCore, HealthDisconnectsCore, HealthUnbindsCore, RefillsCore DEF HealthLoop, Refilling
<1>4. CASE Start \/ Warmed \/ BeginShutdown \/ Shutdown
  BY <1>4, StartCore, WarmedCore, ShutdownCore DEF Shutdown
<1>5. CASE \E i \in Instances : Declines(i)
  BY <1>5, DeclinesCore
<1>6. CASE UNCHANGED vars
  <2>1. UNCHANGED <<phase, warm, tracked, avail, client, sticky, lock, stickyLock, pc, key, held, hpc, refills, todo, current>>
    BY <1>6 DEF vars
  <2>2. TypeOK' /\ Control'
    BY <2>1 DEF Core, TypeOK, Control
  <2>3. Books'
    BY <2>1, StillBooks DEF Books, Running, userVars, poolVars
  <2> QED
    BY <2>2, <2>3 DEF Core
<1> QED
  BY <1>1, <1>2, <1>3, <1>4, <1>5, <1>6 DEF Next

(* The invariant holds always.                                               *)
THEOREM PoolInvariant == Spec => []Core
<1>1. Init => Core
  BY InitCore
<1>2. Core /\ [Next]_vars => Core'
  BY NextCore
<1> QED
  BY <1>1, <1>2, PTL DEF Spec

(* What a caller of checkout works with is a tracked, connected instance     *)
(* while the pool runs: neither the health loop, a cleanup of sticky keys    *)
(* nor another call destroys it under it.                                    *)
THEOREM CallersHoldLiveInstances == Spec => []PoolSound
<1>1. Core => PoolSound
  <2> SUFFICES ASSUME Core PROVE PoolSound
    OBVIOUS
  <2>1. TypeOK
    BY DEF Core
  <2>2. \A u \in Users : pc[u] = "using" => u \in Users \ {Nobody} /\ pc[u] \in Working
    BY PoolAssumption DEF Working
  <2>3. HeldIsLive
    BY <2>2, BooksNow DEF HeldIsLive, Sound
  <2> QED
    BY <2>1, <2>3 DEF PoolSound
<1> QED
  BY <1>1, PoolInvariant, PTL

(* No instance is in two places at a time: twice in the queue, queued and    *)
(* held, bound to two keys, or in the hands of two callers.                  *)
THEOREM InstancesAreExclusive == Spec => []Exclusive
<1>1. Core => Exclusive
  <2> SUFFICES ASSUME Core PROVE Exclusive
    OBVIOUS
  <2>1. Placed(Nobody, avail, sticky, NoInstance)
    BY BooksNow
  <2>2. Owned = Owners(Nobody)
    BY PoolAssumption DEF Owned, Owners, Working, Disposing
  <2>3. Bound \subseteq Keys /\ \A k \in Bound : sticky[k] # NoInstance
    BY DEF Bound
  <2>4. \A i : InQueue(i) <=> i \in In(avail)
    BY DEF InQueue, In
  <2> QED
    BY <2>1, <2>2, <2>3, <2>4 DEF Exclusive, Placed, Once
<1> QED
  BY <1>1, PoolInvariant, PTL

(* A running pool knows every client that is connected: it tracks it, or a   *)
(* call or the health loop is about to disconnect it.                        *)
THEOREM NoClientIsForgotten == Spec => []NoOrphan
<1>1. Core => NoOrphan
  BY BooksNow DEF NoOrphan, Sound
<1> QED
  BY <1>1, PoolInvariant, PTL

-----------------------------------------------------------------------------
(* No instance is lost, when no two calls are made for one key: a call that  *)
(* seeks an instance for its key finds the key still free when it binds, so  *)
(* that no binding is overwritten.                                           *)

OwnKeys == \A u, v \in Users : u # v => KeysOf[u] \cap KeysOf[v] = {}

(* The calls that will bind what they get to their key.                      *)
Seeking == {"discarding", "want_create", "creating", "waiting", "discarding_late", "want_replace", "want_bind"}

KeyOwned == \A u \in Users : key[u] # NoKey => key[u] \in KeysOf[u]

(* While call u moves i, every other instance of T is in some place.         *)
Reached(u, T, q, b, i) ==
  \A x \in T : \/ x = i
               \/ x \in In(q)
               \/ \E k \in Keys : b[k] = x
               \/ \E v \in Users \ {u} : pc[v] \in Working /\ held[v] = x
               \/ x \in todo[Health]

Awaited == \A u \in Users : pc[u] \in Seeking /\ key[u] # NoKey => sticky[key[u]] = NoInstance

Kept == Running => Reached(Nobody, tracked, avail, sticky, NoInstance) /\ Awaited

(* What a call leaves when it acts for key k: its key is free if it seeks an *)
(* instance, no other key is bound, nothing is lost.                         *)
Keeps(u, k) ==
  /\ \E p \in UserPCs : \E l \in {k, NoKey} : \E i \in Instances \cup {NoInstance} :
       /\ Fits(p, l, i) /\ At(u, p, l, i)
       /\ p \in Seeking /\ l # NoKey => sticky'[l] = NoInstance
  /\ \A l \in Keys \ {k} : sticky'[l] = sticky[l] \/ sticky'[l] = NoInstance
  /\ Reached(Nobody, tracked, avail, sticky, NoInstance)'

LEMMA KeepsKept ==
  ASSUME OwnKeys, Core, KeyOwned, Awaited, NEW u \in Users, NEW k \in KeysOf[u] \cup {NoKey}, Keeps(u, k),
         UNCHANGED <<todo, current>>
  PROVE  Kept'
<1>1. PICK p \in UserPCs : \E l \in {k, NoKey} : \E i \in Instances \cup {NoInstance} :
       /\ Fits(p, l, i) /\ At(u, p, l, i)
       /\ p \in Seeking /\ l # NoKey => sticky'[l] = NoInstance
  BY DEF Keeps
<1>2. PICK l \in {k, NoKey} : \E i \in Instances \cup {NoInstance} :
       /\ Fits(p, l, i) /\ At(u, p, l, i)
       /\ p \in Seeking /\ l # NoKey => sticky'[l] = NoInstance
  BY <1>1
<1>3. PICK i \in Instances \cup {NoInstance} :
       /\ Fits(p, l, i) /\ At(u, p, l, i)
       /\ p \in Seeking /\ l # NoKey => sticky'[l] = NoInstance
  BY <1>2
<1>4. Others(u) /\ pc'[u] = p /\ key'[u] = l
  BY <1>3, AtOthers DEF Core
<1>5. ASSUME NEW v \in Users, pc'[v] \in Seeking, key'[v] # NoKey
      PROVE  sticky'[key'[v]] = NoInstance
  <2>1. CASE v = u
    BY <1>3, <1>4, <1>5, <2>1
  <2>2. CASE v # u
    <3>1. pc[v] \in Seeking /\ key[v] # NoKey /\ key'[v] = key[v]
      BY <1>4, <1>5, <2>2 DEF Others
    <3>2. key[v] \in KeysOf[v] /\ key[v] \in Keys /\ sticky[key[v]] = NoInstance
      BY <3>1, PoolAssumption DEF KeyOwned, Awaited
    <3>3. key[v] \in Keys \ {k}
      BY <2>2, <3>1, <3>2 DEF OwnKeys
    <3> QED
      BY <3>1, <3>2, <3>3 DEF Keeps
  <2> QED
    BY <2>1, <2>2
<1> QED
  BY <1>5 DEF Kept, Awaited, Keeps

(* The call's own key, at every step.                                        *)
LEMMA NextKeys == Core /\ KeyOwned /\ [Next]_vars => KeyOwned'
<1> SUFFICES ASSUME Core, KeyOwned, [Next]_vars PROVE KeyOwned'
  OBVIOUS
<1>1. ASSUME NEW u \in Users, NEW k \in KeysOf[u] \cup {key[u], NoKey}, key' = [key EXCEPT ![u] = k]
      PROVE  KeyOwned'
  BY <1>1 DEF KeyOwned, Core, TypeOK
<1>2. ASSUME UNCHANGED key PROVE KeyOwned'
  BY <1>2 DEF KeyOwned
<1>3. ASSUME NEW u \in Users, NEW k, NEW b, CheckoutFor(u, k, b) \/ Checkout(u, k, b) \/ TryCreate(u, k)
      PROVE  \E l \in {k, NoKey} : key' = [key EXCEPT ![u] = l]
  BY <1>3 DEF CheckoutFor, Checkout, TryCreate, CreateBelowMax, TakeHead, Obtained, Return, At
<1>4. ASSUME NEW u \in Users, Call(u) \/ Resume(u)
      PROVE  \E k \in KeysOf[u] \cup {key[u], NoKey} : key' = [key EXCEPT ![u] = k]
  <2>1. CASE Acquire(u) \/ DiscardDone(u)
    BY <1>3, <2>1 DEF Acquire, DiscardDone
  <2>2. ASSUME NEW k \in Keys, LookUp(u, k)
        PROVE  \E l \in {k, NoKey} : key' = [key EXCEPT ![u] = l]
    BY <1>3, <2>2 DEF LookUp, At
  <2>3. ASSUME NEW k \in Keys, Unbind(u, k)
        PROVE  \E l \in {k, NoKey} : key' = [key EXCEPT ![u] = l]
    BY <2>3 DEF Unbind, CheckIn, Return, At
  <2>4. ASSUME NEW k \in KeysOf[u], AcquireSticky(u, k) \/ ReleaseSticky(u, k)
        PROVE  \E l \in {k, NoKey} : key' = [key EXCEPT ![u] = l]
    BY <2>2, <2>3, <2>4, KeysOfCall DEF AcquireSticky, ReleaseSticky, At
  <2>5. CASE StickyGranted(u) \/ ReleaseGranted(u)
    <3>1. key[u] \in Keys
      BY <2>5 DEF StickyGranted, ReleaseGranted, Core, Control, ForKey
    <3> QED
      BY <2>2, <2>3, <2>5, <3>1 DEF StickyGranted, ReleaseGranted
  <2>6. CASE ReplaceSticky(u)
    BY <1>3, <2>6 DEF ReplaceSticky, Return, At
  <2>7. CASE \/ CreateGranted(u) \/ Created(u) \/ CreateFails(u) \/ TakeReturned(u) \/ WaitTimesOut(u)
             \/ LateDiscardDone(u) \/ ReplaceGranted(u) \/ GiveBack(u) \/ CheckInDone(u)
             \/ BindGranted(u) \/ SessionDone(u)
    BY <2>7 DEF CreateGranted, Created, CreateFails, TakeReturned, WaitTimesOut, LateDiscardDone, ReplaceGranted,
       GiveBack, CheckInDone, BindGranted, SessionDone, CreateBelowMax, TakeHead, Obtained, CheckIn, Return, At
  <2> QED
    BY <1>4, <2>1, <2>4, <2>5, <2>6, <2>7 DEF Call, Resume
<1>5. HealthLoop \/ HealthCreateFails \/ Refilling \/ Start \/ Warmed \/ BeginShutdown \/ Shutdown
        \/ (\E i \in Instances : Declines(i)) \/ UNCHANGED vars => UNCHANGED key
  BY DEF HealthLoop, HealthWakes, HealthRecycled, HealthEnsures, HealthCreated, HealthUnbinds, HealthCleaned,
     HealthCreateFails, Refilling, RefillStarts, RefillCreated, RefillFails, Start, Warmed, BeginShutdown, Shutdown,
     HealthCancelled, DestroyAll, Destroyed, Declines, userVars, vars
<1> QED
  BY <1>1, <1>2, <1>4, <1>5 DEF Next

(* Where an instance in hand comes from.                                     *)
LEMMA BareReached ==
  ASSUME NEW u \in Users, Bare(u) \/ pc[u] \in Disposing, Reached(Nobody, tracked, avail, sticky, NoInstance)
  PROVE  Reached(u, tracked, avail, sticky, NoInstance)
<1>1. pc[u] \notin Working
  BY DEF Bare, Disposing, Working
<1> QED
  BY <1>1 DEF Reached

LEMMA GivesReached ==
  ASSUME Core, NEW u \in Users, Reached(Nobody, tracked, avail, sticky, NoInstance)
  PROVE  Reached(u, tracked, avail, sticky, held[u])
<1>1. \A x : (\E v \in Users \ {Nobody} : pc[v] \in Working /\ held[v] = x) =>
              x = held[u] \/ \E v \in Users \ {u} : pc[v] \in Working /\ held[v] = x
  OBVIOUS
<1>2. \A x \in tracked : x # NoInstance
  BY NoneIsNone DEF Core, TypeOK
<1> QED
  BY <1>1, <1>2 DEF Reached

LEMMA DropsReached ==
  ASSUME Core, Running, NEW u \in Users, pc[u] = "replacing", Reached(Nobody, tracked, avail, sticky, NoInstance)
  PROVE  Reached(u, tracked, avail, [sticky EXCEPT ![key[u]] = NoInstance], NoInstance)
<1> DEFINE b == [sticky EXCEPT ![key[u]] = NoInstance]
<1>1. key[u] \in Keys /\ sticky[key[u]] = held[u] /\ held[u] \notin tracked
  <2>1. u \in Users \ {Nobody}
    BY PoolAssumption
  <2> QED
    BY <2>1, BooksNow DEF Sound, Core, Control, ForKey
<1>2. \A k \in Keys \ {key[u]} : b[k] = sticky[k]
  BY DEF Core, TypeOK
<1>3. \A x \in tracked : (\E k \in Keys : sticky[k] = x) => \E k \in Keys : b[k] = x
  BY <1>1, <1>2
<1>4. pc[u] \notin Working
  BY DEF Working
<1> HIDE DEF b
<1>5. Reached(u, tracked, avail, b, NoInstance)
  BY <1>3, <1>4 DEF Reached
<1> QED
  BY <1>5 DEF b

LEMMA HeadReached ==
  ASSUME NEW u, NEW T, NEW q, NEW b, Placed(u, q, b, NoInstance), Reached(u, T, q, b, NoInstance), q # <<>>,
         NoInstance \notin T
  PROVE  Reached(u, T, Tail(q), b, Head(q))
<1>1. In(Tail(q)) = In(q) \ {Head(q)}
  BY TailIn DEF Placed
<1> QED
  BY <1>1 DEF Reached

(* And where it goes.                                                        *)
LEMMA SinksReached ==
  ASSUME NEW u, Others(u), NEW i \in Instances \cup {NoInstance}, NEW T, NEW q, NEW b, Reached(u, T, q, b, i),
         NoInstance \notin T,
         \/ i = NoInstance /\ avail' = q /\ sticky' = b /\ tracked' \subseteq T
         \/ u \in Users /\ avail' = q /\ sticky' = b /\ tracked' = T /\ pc'[u] \in Working /\ held'[u] = i
         \/ avail' = q /\ sticky' = b /\ tracked' = T \ {i}
         \/ avail' = Append(q, i) /\ q \in Seq(Instances) /\ sticky' = b /\ tracked' = T
         \/ \E k \in Keys : /\ b \in [Keys -> Instances \cup {NoInstance}] /\ b[k] = NoInstance
                            /\ avail' = q /\ sticky' = [b EXCEPT ![k] = i] /\ tracked' = T
  PROVE  Reached(Nobody, tracked, avail, sticky, NoInstance)'
<1>1. /\ tracked' \subseteq T /\ todo'[Health] = todo[Health]
      /\ \A v \in Users \ {u} : v \in Users /\ pc'[v] = pc[v] /\ held'[v] = held[v]
      /\ u \in Users => u \in Users \ {Nobody}
      /\ \A v \in Users : v \in Users \ {Nobody}
  BY PoolAssumption DEF Others
<1>2. In(q) \subseteq In(avail')
  <2>1. CASE avail' = Append(q, i) /\ q \in Seq(Instances)
    <3>1. /\ \A n \in DOMAIN q : n \in DOMAIN avail' /\ avail'[n] = q[n]
      BY <2>1
    <3> QED
      BY <3>1 DEF In
  <2> QED
    BY <2>1
<1>3. \A x \in T : (\E k \in Keys : b[k] = x) => \E k \in Keys : sticky'[k] = x
  <2>1. ASSUME NEW k \in Keys, b \in [Keys -> Instances \cup {NoInstance}], b[k] = NoInstance, sticky' = [b EXCEPT ![k] = i]
        PROVE  \A x \in T : (\E l \in Keys : b[l] = x) => \E l \in Keys : sticky'[l] = x
    <3>1. \A l \in Keys \ {k} : sticky'[l] = b[l]
      BY <2>1
    <3> QED
      BY <2>1, <3>1
  <2> QED
    BY <2>1
<1>4. i \in tracked' => \/ i \in In(avail') \/ \E k \in Keys : sticky'[k] = i
                        \/ \E v \in Users \ {Nobody} : pc'[v] \in Working /\ held'[v] = i
  <2>1. CASE avail' = Append(q, i) /\ q \in Seq(Instances)
    <3>1. Len(q) + 1 \in DOMAIN avail' /\ avail'[Len(q) + 1] = i
      BY <2>1
    <3> QED
      BY <3>1 DEF In
  <2>2. ASSUME NEW k \in Keys, b \in [Keys -> Instances \cup {NoInstance}], sticky' = [b EXCEPT ![k] = i]
        PROVE  sticky'[k] = i
    BY <2>2
  <2> QED
    BY <1>1, <2>1, <2>2
<1> QED
  BY <1>1, <1>2, <1>3, <1>4 DEF Reached

(* A call that checks out for key k, with the bindings b that leave k free.  *)
KeyFree(k, b) ==
  /\ b \in [Keys -> Instances \cup {NoInstance}]
  /\ k # NoKey => b[k] = NoInstance
  /\ \A l \in Keys \ {k} : b[l] = sticky[l]

LEMMA NoneUntracked == TypeOK => NoInstance \notin tracked
BY NoneIsNone DEF TypeOK

LEMMA EmptyKeeps ==
  ASSUME TypeOK, Control, NEW u \in Users, NEW k \in Keys \cup {NoKey}, KeyFree(k, sticky'),
         NEW p, NEW l \in {k, NoKey}, Fits(p, l, NoInstance), At(u, p, l, NoInstance),
         UNCHANGED <<todo, current, tracked, avail>>, Reached(u, tracked, avail, sticky', NoInstance)
  PROVE  Keeps(u, k)
<1>1. Others(u)
  BY AtOthers
<1>2. Reached(Nobody, tracked, avail, sticky, NoInstance)'
  BY <1>1, NoneUntracked, SinksReached
<1> QED
  BY <1>2 DEF Keeps, KeyFree, Fits

LEMMA ObtainedKeeps ==
  ASSUME TypeOK, Control, NEW u \in Users, NEW k \in Keys \cup {NoKey}, NEW i \in Instances, NEW b, KeyFree(k, b),
         Obtained(u, k, i, b), UNCHANGED <<todo, current>>,
         tracked' \subseteq Instances, Reached(u, tracked', avail', b, i)
  PROVE  Keeps(u, k)
<1>1. PICK p \in {"using", "want_bind", "using_bound"} :
        /\ At(u, p, k, i)
        /\ \/ p \in Working /\ sticky' = b /\ (p \in Seeking => k # NoKey)
           \/ p = "using_bound" /\ k # NoKey /\ sticky' = [b EXCEPT ![k] = i]
        /\ p # "using" => k # NoKey
  BY DEF Obtained, Working, Seeking
<1>2. Fits(p, k, i)
  BY <1>1, NoneIsNone DEF Fits, UserPCs, ForKey, Holding, Working, Disposing
<1>3. Others(u) /\ pc'[u] = p /\ held'[u] = i
  BY <1>1, <1>2, AtOthers
<1>4. NoInstance \notin tracked'
  BY NoneIsNone
<1>5. Reached(Nobody, tracked, avail, sticky, NoInstance)'
  BY <1>1, <1>3, <1>4, SinksReached DEF KeyFree
<1>6. /\ p \in Seeking /\ k # NoKey => sticky'[k] = NoInstance
      /\ \A l \in Keys \ {k} : sticky'[l] = sticky[l]
  BY <1>1 DEF KeyFree, Seeking
<1> QED
  BY <1>1, <1>2, <1>5, <1>6 DEF Keeps, Fits

LEMMA TakeHeadKeeps ==
  ASSUME TypeOK, Control, NEW u \in Users, NEW k \in Keys \cup {NoKey}, NEW p \in Disposing, NEW b, KeyFree(k, b),
         TakeHead(u, k, p, b), UNCHANGED <<todo, current>>,
         Placed(u, avail, b, NoInstance), Reached(u, tracked, avail, b, NoInstance)
  PROVE  Keeps(u, k)
<1> DEFINE i == Head(avail)
<1>1. avail # <<>> /\ avail' = Tail(avail)
  BY DEF TakeHead
<1>2. Reached(u, tracked, avail', b, i) /\ i \in Instances
  BY <1>1, NoneUntracked, HeadReached, HeadPlaced
<1>3. tracked \in SUBSET Instances
  BY DEF TypeOK
<1> HIDE DEF i
<1>4. CASE Obtained(u, k, i, b) /\ UNCHANGED tracked
  <2>1. Reached(u, tracked', avail', b, i) /\ tracked' \subseteq Instances
    BY <1>2, <1>3, <1>4
  <2> QED
    BY <1>2, <1>4, <2>1, ObtainedKeeps
<1>5. CASE tracked' = tracked \ {i} /\ At(u, p, k, i) /\ sticky' = b
  <2>1. Fits(p, k, i)
    BY <1>2, NoneIsNone DEF Fits, UserPCs, ForKey, Holding, Disposing
  <2>2. Others(u)
    BY <1>5, <2>1, AtOthers
  <2>3. Reached(Nobody, tracked, avail, sticky, NoInstance)'
    BY <1>2, <1>5, <2>2, NoneUntracked, SinksReached
  <2> QED
    BY <1>5, <2>1, <2>3 DEF Keeps, Fits, KeyFree
<1> QED
  BY <1>4, <1>5 DEF TakeHead, i

LEMMA TryCreateKeeps ==
  ASSUME TypeOK, Control, NEW u \in Users, NEW k \in Keys \cup {NoKey}, KeyFree(k, sticky'),
         TryCreate(u, k), UNCHANGED <<todo, current, tracked, avail>>,
         Reached(u, tracked, avail, sticky', NoInstance)
  PROVE  Keeps(u, k)
<1>1. PICK p \in {"creating", "waiting", "want_create"} : At(u, p, k, NoInstance)
  BY DEF TryCreate, CreateBelowMax
<1>2. Fits(p, k, NoInstance)
  BY DEF Fits, UserPCs, ForKey, Holding, Working, Disposing
<1> QED
  BY <1>1, <1>2, EmptyKeeps

LEMMA CheckoutForKeeps ==
  ASSUME TypeOK, Control, NEW u \in Users, NEW k \in Keys \cup {NoKey}, NEW b, KeyFree(k, b),
         CheckoutFor(u, k, b) \/ Checkout(u, k, b), UNCHANGED <<todo, current>>,
         Placed(u, avail, b, NoInstance), Reached(u, tracked, avail, b, NoInstance)
  PROVE  Keeps(u, k)
<1>1. CASE Return(u) /\ sticky' = b /\ UNCHANGED <<tracked, avail, lock>>
  BY <1>1, ReturnFits, EmptyKeeps DEF Return
<1>2. CASE TakeHead(u, k, "discarding", b)
  BY <1>2, TakeHeadKeeps DEF Disposing
<1>3. CASE TryCreate(u, k) /\ sticky' = b /\ UNCHANGED <<tracked, avail>>
  BY <1>3, TryCreateKeeps
<1> QED
  BY <1>1, <1>2, <1>3 DEF Checkout, CheckoutFor

LEMMA CheckInKeeps ==
  ASSUME TypeOK, Control, NEW u \in Users, NEW k, NEW i \in Instances, CheckIn(u, i), UNCHANGED <<todo, current>>,
         \A l \in Keys : sticky'[l] = sticky[l] \/ sticky'[l] = NoInstance,
         Reached(u, tracked, avail, sticky', i)
  PROVE  Keeps(u, k)
<1>1. CASE tracked' = tracked \ {i} /\ UNCHANGED avail
           /\ At(u, IF Stopping THEN "disconnecting" ELSE "recycling", NoKey, i)
  <2>1. PICK p \in {"disconnecting", "recycling"} : At(u, p, NoKey, i)
    BY <1>1
  <2>2. Fits(p, NoKey, i) /\ p \notin Seeking
    BY NoneIsNone DEF Fits, UserPCs, ForKey, Holding, Disposing, Seeking
  <2>3. Others(u)
    BY <1>1, <2>1, <2>2, AtOthers
  <2>4. Reached(Nobody, tracked, avail, sticky, NoInstance)'
    BY <1>1, <2>3, NoneUntracked, SinksReached
  <2> QED
    BY <2>1, <2>2, <2>4 DEF Keeps, Fits
<1>2. CASE avail' = Append(avail, i) /\ Return(u) /\ UNCHANGED tracked
  <2>1. Fits("idle", NoKey, NoInstance) /\ At(u, "idle", NoKey, NoInstance)
    BY <1>2, ReturnFits DEF Return
  <2>2. Others(u)
    BY <2>1, AtOthers
  <2>3. Reached(Nobody, tracked, avail, sticky, NoInstance)'
    BY <1>2, <2>2, NoneUntracked, SinksReached DEF TypeOK
  <2> QED
    BY <2>1, <2>3 DEF Keeps, Fits
<1> QED
  BY <1>1, <1>2 DEF CheckIn

LEMMA LookUpKeeps ==
  ASSUME Core, NEW u \in Users, NEW k \in Keys, LookUp(u, k), Bare(u), UNCHANGED <<todo, current>>, Running,
         UNCHANGED client, Reached(Nobody, tracked, avail, sticky, NoInstance)
  PROVE  Keeps(u, k)
<1>1. TypeOK /\ Control /\ Reached(u, tracked, avail, sticky, NoInstance) /\ Placed(u, avail, sticky, NoInstance)
  BY BareReached, BareBooks DEF Core
<1>2. CASE \E p \in {"using_bound", "replacing"} : At(u, p, k, sticky[k]) /\ sticky[k] # NoInstance
           /\ tracked' \subseteq tracked /\ UNCHANGED <<avail, sticky>>
  <2>1. PICK p \in {"using_bound", "replacing"} : At(u, p, k, sticky[k]) /\ sticky[k] # NoInstance
           /\ tracked' \subseteq tracked /\ UNCHANGED <<avail, sticky>>
    BY <1>2
  <2>2. Fits(p, k, sticky[k]) /\ p \notin Seeking
    BY <1>1, <2>1 DEF Fits, UserPCs, ForKey, Holding, Seeking, TypeOK
  <2>3. Others(u)
    BY <1>1, <2>1, <2>2, AtOthers
  <2>4. Reached(Nobody, tracked, avail, sticky, NoInstance)'
    BY <1>1, <2>1, <2>3, NoneUntracked, SinksReached
  <2> QED
    BY <2>1, <2>2, <2>4 DEF Keeps, Fits
<1>3. CASE sticky[k] = NoInstance /\ CheckoutFor(u, k, sticky)
  <2>1. KeyFree(k, sticky)
    BY <1>1, <1>3 DEF KeyFree, TypeOK
  <2> QED
    BY <1>1, <1>3, <2>1, CheckoutForKeeps
<1> QED
  BY <1>2, <1>3 DEF LookUp

LEMMA UnbindKeeps ==
  ASSUME Core, NEW u \in Users, NEW k \in Keys, Unbind(u, k), Bare(u), UNCHANGED <<todo, current>>,
         Reached(Nobody, tracked, avail, sticky, NoInstance)
  PROVE  Keeps(u, k)
<1>1. TypeOK /\ Control /\ Reached(u, tracked, avail, sticky, NoInstance)
  BY BareReached DEF Core
<1>2. CASE sticky[k] = NoInstance /\ Return(u) /\ UNCHANGED <<tracked, avail, sticky>>
  <2>1. KeyFree(k, sticky') /\ k \in Keys \cup {NoKey}
    BY <1>1, <1>2 DEF KeyFree, TypeOK
  <2> QED
    BY <1>1, <1>2, <2>1, ReturnFits, EmptyKeeps DEF Return
<1>3. CASE sticky[k] # NoInstance /\ sticky' = [sticky EXCEPT ![k] = NoInstance] /\ CheckIn(u, sticky[k])
  <2>1. /\ sticky[k] \in Instances /\ sticky \in [Keys -> Instances \cup {NoInstance}]
        /\ \A l \in Keys : sticky'[l] = sticky[l] \/ (l = k /\ sticky'[l] = NoInstance)
    BY <1>1, <1>3 DEF TypeOK
  <2>2. Reached(u, tracked, avail, sticky', sticky[k])
    <3>1. \A x \in tracked : (\E l \in Keys : sticky[l] = x) => x = sticky[k] \/ \E l \in Keys : sticky'[l] = x
      BY <2>1
    <3>2. \A x \in tracked : x # NoInstance
      BY <1>1, NoneUntracked
    <3> QED
      BY <1>1, <3>1, <3>2 DEF Reached
  <2> QED
    BY <1>1, <1>3, <2>1, <2>2, CheckInKeeps
<1> QED
  BY <1>2, <1>3 DEF Unbind

(* Every step of a call keeps what is reached.                               *)
LEMMA CallKeeps ==
  ASSUME OwnKeys, Core, KeyOwned, Awaited, Running, Reached(Nobody, tracked, avail, sticky, NoInstance),
         NEW u \in Users, Call(u) \/ Resume(u)
  PROVE  \E k \in KeysOf[u] \cup {NoKey} : Keeps(u, k)
<1> DEFINE K == KeysOf[u] \cup {NoKey}
<1> SUFFICES \E k \in K : Keeps(u, k)
  OBVIOUS
<1>1. /\ TypeOK /\ Control /\ K \subseteq Keys \cup {NoKey} /\ key[u] \in K /\ NoKey \in K /\ tracked \subseteq Instances
      /\ KeysOf[u] \subseteq Keys
  BY PoolAssumption DEF Core, KeyOwned, TypeOK
<1>2. Placed(u, avail, sticky, NoInstance) /\ KeyFree(NoKey, sticky)
  BY <1>1, BooksNow, WithoutPlaced, PoolAssumption DEF KeyFree, TypeOK
<1>3. (Bare(u) \/ pc[u] \in Disposing) => Reached(u, tracked, avail, sticky, NoInstance)
  BY BareReached
<1>4. pc[u] \in Seeking => KeyFree(key[u], sticky)
  BY <1>1 DEF KeyFree, Awaited, TypeOK
<1> HIDE DEF K
<1>5. CASE Acquire(u)
  <2>1. Bare(u) /\ Checkout(u, NoKey, sticky) /\ UNCHANGED <<todo, current>>
    BY <1>5 DEF Acquire, Bare, Working, Disposing, bgVars
  <2> QED
    BY <1>1, <1>2, <1>3, <2>1, CheckoutForKeeps DEF K
<1>6. ASSUME NEW k \in KeysOf[u], AcquireSticky(u, k) \/ ReleaseSticky(u, k)
      PROVE  \E l \in K : Keeps(u, l)
  <2>1. Bare(u) /\ UNCHANGED <<todo, current, client>> /\ k \in Keys /\ k \in K
    BY <1>1, <1>6 DEF AcquireSticky, ReleaseSticky, Bare, Working, Disposing, bgVars, K
  <2>2. CASE LookUp(u, k)
    BY <1>1, <2>1, <2>2, LookUpKeeps
  <2>3. CASE Unbind(u, k)
    BY <1>1, <2>1, <2>3, UnbindKeeps
  <2>4. ASSUME NEW p \in {"want_sticky", "want_release"}, At(u, p, k, NoInstance), UNCHANGED <<tracked, avail, sticky>>
        PROVE  Keeps(u, k)
    <3>1. Fits(p, k, NoInstance) /\ p \notin Seeking
      BY <2>1 DEF Fits, UserPCs, ForKey, Holding, Working, Disposing, Seeking
    <3>2. Others(u)
      BY <1>1, <2>1, <2>4, <3>1, AtOthers
    <3>3. Reached(Nobody, tracked, avail, sticky, NoInstance)'
      BY <1>1, <1>3, <2>1, <2>4, <3>2, NoneUntracked, SinksReached
    <3> QED
      BY <2>4, <3>1, <3>3 DEF Keeps, Fits
  <2> QED
    BY <1>6, <2>1, <2>2, <2>3, <2>4 DEF AcquireSticky, ReleaseSticky
<1>7. CASE DiscardDone(u)
  <2>1. pc[u] \in Disposing /\ pc[u] \in Seeking /\ TryCreate(u, key[u]) /\ UNCHANGED <<todo, current, tracked, avail, sticky>>
    BY <1>7 DEF DiscardDone, Disposing, Seeking, bgVars
  <2> QED
    BY <1>1, <1>3, <1>4, <2>1, TryCreateKeeps
<1>8. CASE \/ CreateGranted(u) \/ CreateFails(u) \/ WaitTimesOut(u) \/ LateDiscardDone(u) \/ ReplaceGranted(u)
           \/ SessionDone(u) \/ CheckInDone(u)
  <2>1. UNCHANGED <<todo, current, tracked, avail, sticky>> /\ (Bare(u) \/ pc[u] \in Disposing)
    BY <1>8 DEF CreateGranted, CreateFails, WaitTimesOut, LateDiscardDone, ReplaceGranted, SessionDone, CheckInDone,
       bgVars, poolVars, sweepVars, Bare, Disposing, Working
  <2>2. CASE \E p \in {"creating", "waiting", "want_replace"} : At(u, p, key[u], NoInstance) /\ pc[u] \in Seeking
    <3>1. PICK p \in {"creating", "waiting", "want_replace"} : At(u, p, key[u], NoInstance) /\ pc[u] \in Seeking
      BY <2>2
    <3>2. Fits(p, key[u], NoInstance)
      BY <1>1 DEF Fits, UserPCs, ForKey, Holding, Working, Disposing, TypeOK
    <3> QED
      BY <1>1, <1>3, <1>4, <2>1, <3>1, <3>2, EmptyKeeps
  <2>3. CASE Return(u)
    BY <1>1, <1>2, <1>3, <2>1, <2>3, ReturnFits, EmptyKeeps DEF Return
  <2> QED
    BY <1>8, <2>2, <2>3 DEF CreateGranted, CreateFails, WaitTimesOut, LateDiscardDone, ReplaceGranted, SessionDone,
       CheckInDone, CreateBelowMax, Seeking
<1>9. CASE Created(u)
  <2>1. /\ Bare(u) /\ pc[u] \in Seeking /\ Create /\ Obtained(u, key[u], NewInstance, sticky)
        /\ UNCHANGED <<todo, current, avail>>
    BY <1>9 DEF Created, Bare, Working, Disposing, Seeking, bgVars
  <2>2. NewInstance \in Instances /\ tracked' \subseteq Instances
    BY <1>2, <1>3, <2>1, BareBooks, CreatesBooks
  <2>3. Reached(u, tracked', avail', sticky, NewInstance)
    <3>1. tracked' = tracked \cup {NewInstance}
      BY <2>1 DEF Create
    <3>2. Reached(u, tracked, avail, sticky, NoInstance) /\ NoInstance \notin tracked
      BY <1>1, <1>3, <2>1, NoneUntracked
    <3> QED
      BY <2>1, <3>1, <3>2 DEF Reached
  <2>4. KeyFree(key[u], sticky) /\ key[u] \in Keys \cup {NoKey}
    BY <1>1, <1>4, <2>1
  <2>5. UNCHANGED <<todo, current>>
    BY <2>1
  <2>6. Keeps(u, key[u])
    BY <1>1, <2>1, <2>2, <2>3, <2>4, <2>5, ObtainedKeeps
  <2> QED
    BY <1>1, <2>6
<1>10. CASE TakeReturned(u)
  <2>1. /\ Bare(u) /\ pc[u] \in Seeking /\ TakeHead(u, key[u], "discarding_late", sticky)
        /\ UNCHANGED <<todo, current>> /\ "discarding_late" \in Disposing
    BY <1>10 DEF TakeReturned, Bare, Working, Disposing, Seeking, bgVars
  <2> QED
    BY <1>1, <1>2, <1>3, <1>4, <2>1, TakeHeadKeeps
<1>11. CASE GiveBack(u)
  <2>1. CheckIn(u, held[u]) /\ UNCHANGED <<todo, current, sticky>> /\ held[u] \in Instances
    BY <1>1, <1>11 DEF GiveBack, bgVars, TypeOK, Control, Holding, Working
  <2>2. Reached(u, tracked, avail, sticky', held[u])
    BY <2>1, GivesReached
  <2> QED
    BY <1>1, <2>1, <2>2, CheckInKeeps
<1>12. CASE StickyGranted(u) \/ ReleaseGranted(u)
  <2>1. Bare(u) /\ key[u] \in Keys /\ UNCHANGED <<todo, current, client>>
    BY <1>1, <1>12 DEF StickyGranted, ReleaseGranted, Bare, Working, Disposing, Control, ForKey, bgVars
  <2> QED
    BY <1>1, <1>12, <2>1, LookUpKeeps, UnbindKeeps DEF StickyGranted, ReleaseGranted
<1>13. CASE ReplaceSticky(u)
  <2> DEFINE b == [sticky EXCEPT ![key[u]] = NoInstance]
  <2>1. pc[u] = "replacing" /\ UNCHANGED <<todo, current>> /\ key[u] \in Keys
    BY <1>1, <1>13 DEF ReplaceSticky, Control, ForKey, bgVars
  <2>2. KeyFree(key[u], b)
    BY <1>1, <2>1 DEF KeyFree, TypeOK
  <2>3. Placed(u, avail, b, NoInstance) /\ Reached(u, tracked, avail, b, NoInstance)
    BY <2>1, DropsPlaced, DropsReached DEF Core
  <2>4. sticky[key[u]] = NoInstance => b = sticky
    BY <1>1 DEF TypeOK
  <2>5. \/ sticky[key[u]] = NoInstance /\ Return(u) /\ UNCHANGED <<tracked, avail, sticky, lock>>
        \/ CheckoutFor(u, key[u], b)
    BY <1>13 DEF ReplaceSticky
  <2> HIDE DEF b
  <2>6. CASE sticky[key[u]] = NoInstance /\ Return(u) /\ UNCHANGED <<tracked, avail, sticky, lock>>
    BY <1>1, <2>1, <2>2, <2>3, <2>4, <2>6, ReturnFits, EmptyKeeps DEF Return
  <2>7. CASE CheckoutFor(u, key[u], b)
    BY <1>1, <2>1, <2>2, <2>3, <2>7, CheckoutForKeeps
  <2> QED
    BY <2>5, <2>6, <2>7
<1>14. CASE BindGranted(u)
  <2> DEFINE k == key[u]
             i == held[u]
  <2>1. /\ sticky' = [sticky EXCEPT ![k] = i] /\ At(u, "using_bound", k, i)
        /\ UNCHANGED <<todo, current, tracked, avail>> /\ pc[u] = "want_bind"
    BY <1>14 DEF BindGranted, bgVars, poolVars
  <2>2. k \in Keys /\ k \in K /\ i \in Instances /\ KeyFree(k, sticky)
    BY <1>1, <1>4, <2>1 DEF Control, ForKey, Holding, Working, TypeOK, Seeking
  <2>3. Reached(u, tracked, avail, sticky, i)
    BY GivesReached
  <2> HIDE DEF k, i
  <2>4. Fits("using_bound", k, i) /\ "using_bound" \notin Seeking
    BY <2>2, NoneIsNone DEF Fits, UserPCs, ForKey, Holding, Seeking
  <2>5. Others(u)
    BY <1>1, <2>1, <2>4, AtOthers
  <2>6. Reached(Nobody, tracked, avail, sticky, NoInstance)'
    <3>1. sticky \in [Keys -> Instances \cup {NoInstance}] /\ sticky[k] = NoInstance
      BY <2>2, PoolAssumption DEF KeyFree
    <3> QED
      BY <1>1, <2>1, <2>2, <2>3, <2>5, <3>1, NoneUntracked, SinksReached
  <2>7. \A l \in Keys \ {k} : sticky'[l] = sticky[l]
    BY <1>1, <2>1 DEF TypeOK
  <2>8. Keeps(u, k)
    BY <2>1, <2>4, <2>6, <2>7 DEF Keeps, Fits
  <2> QED
    BY <2>2, <2>8
<1> QED
  BY <1>5, <1>6, <1>7, <1>8, <1>9, <1>10, <1>11, <1>12, <1>13, <1>14 DEF Call, Resume, K

(* So does every step of the pool's own tasks.                               *)
LEMMA PoolKeeps ==
  ASSUME Core, Awaited, Running, Reached(Nobody, tracked, avail, sticky, NoInstance), UNCHANGED userVars,
         \/ HealthLoop \/ HealthCreateFails \/ Refilling \/ Warmed \/ \E i \in Instances : Declines(i)
         \/ UNCHANGED vars
  PROVE  Reached(Nobody, tracked, avail, sticky, NoInstance)' /\ Awaited'
<1>1. UNCHANGED <<pc, key, held>> /\ TypeOK
  BY DEF userVars, Core
<1>2. CASE UNCHANGED <<tracked, avail, sticky, todo>>
  BY <1>1, <1>2 DEF Reached, Awaited
<1>3. CASE Create /\ avail' = Append(avail, NewInstance) /\ UNCHANGED <<sticky, todo, current>>
  <2> DEFINE i == NewInstance
  <2>1. i \in Instances /\ tracked' = tracked \cup {i}
    BY <1>3, NewIsFree DEF Create
  <2>2. Others(Nobody)
    BY <1>1, <1>3 DEF Others
  <2> HIDE DEF i
  <2>3. Reached(Nobody, tracked', avail, sticky, i) /\ NoInstance \notin tracked' /\ avail \in Seq(Instances)
    BY <1>1, <2>1, NoneUntracked, NoneIsNone DEF Reached, TypeOK
  <2>4. avail' = Append(avail, i) /\ sticky' = sticky
    BY <1>3 DEF i
  <2>5. Reached(Nobody, tracked, avail, sticky, NoInstance)'
    BY <2>1, <2>2, <2>3, <2>4, SinksReached
  <2> QED
    BY <1>1, <1>3, <2>5 DEF Awaited
<1>4. ASSUME NEW S \in SUBSET Instances, SweepNext(Health, S)
      PROVE  tracked' \subseteq tracked /\ \A x \in tracked' : x \in S => x \in todo'[Health]
  BY <1>1, <1>4 DEF SweepNext, TypeOK
<1>5. CASE HealthWakes
  <2> DEFINE S == {i \in Instances : ~ Usable(i) /\ \E n \in DOMAIN avail : avail[n] = i}
  <2>1. SweepNext(Health, S) /\ KeepsUsable /\ UNCHANGED sticky /\ S \in SUBSET Instances /\ hpc = "sleep"
    BY <1>5 DEF HealthWakes
  <2>2. In(avail') = {i \in In(avail) : Usable(i)} /\ In(avail) \subseteq Instances
    BY <2>1, BooksNow, KeepsIn DEF Placed
  <2>3. \A x \in In(avail) : x \in In(avail') \/ x \in S
    BY <2>2 DEF In
  <2>4. todo[Health] = {}
    BY <2>1 DEF Core, Control
  <2> HIDE DEF S
  <2>5. Reached(Nobody, tracked, avail, sticky, NoInstance)'
    BY <1>1, <1>4, <2>1, <2>3, <2>4 DEF Reached
  <2> QED
    BY <1>1, <2>1, <2>5 DEF Awaited
<1>6. CASE HealthRecycled \/ HealthCleaned
  <2>1. SweepNext(Health, todo[Health]) /\ UNCHANGED <<avail, sticky>> /\ todo[Health] \in SUBSET Instances
    BY <1>1, <1>6 DEF HealthRecycled, HealthCleaned, TypeOK
  <2>2. Reached(Nobody, tracked, avail, sticky, NoInstance)'
    BY <1>1, <1>4, <2>1 DEF Reached
  <2> QED
    BY <1>1, <2>1, <2>2 DEF Awaited
<1>7. CASE HealthUnbinds
  <2>1. PICK expired \in SUBSET Bound :
           /\ sticky' = [k \in Keys |-> IF k \in expired THEN NoInstance ELSE sticky[k]]
           /\ SweepNext(Health, {sticky[k] : k \in expired})
    BY <1>7 DEF HealthUnbinds
  <2> DEFINE S == {sticky[k] : k \in expired}
  <2>2. \A k \in expired : k \in Keys /\ sticky[k] \in Instances
    BY <1>1 DEF Bound, TypeOK
  <2>3. S \in SUBSET Instances /\ SweepNext(Health, S)
    BY <2>1, <2>2
  <2>4. \A k \in Keys : \/ sticky'[k] = sticky[k]
                        \/ sticky[k] \in S /\ sticky'[k] = NoInstance
    BY <1>1, <2>1, <2>2 DEF TypeOK
  <2>5. UNCHANGED avail /\ todo[Health] = {}
    BY <1>7 DEF HealthUnbinds, Core, Control
  <2> HIDE DEF S
  <2>6. \A x \in tracked' : (\E k \in Keys : sticky[k] = x) => x \in todo'[Health] \/ \E k \in Keys : sticky'[k] = x
    BY <1>4, <2>3, <2>4
  <2>7. Reached(Nobody, tracked, avail, sticky, NoInstance)'
    BY <1>1, <1>4, <2>3, <2>5, <2>6 DEF Reached
  <2>8. \A u \in Users : key[u] # NoKey => key[u] \in Keys
    BY <1>1 DEF TypeOK
  <2> QED
    BY <1>1, <2>4, <2>7, <2>8 DEF Awaited
<1>8. CASE \/ HealthEnsures \/ HealthCreated \/ HealthCreateFails \/ Refilling \/ Warmed \/ UNCHANGED vars
           \/ \E i \in Instances : Declines(i)
  <2>1. CASE HealthEnsures \/ HealthCreated \/ HealthCreateFails \/ Refilling
    BY <1>2, <1>3, <2>1 DEF HealthEnsures, HealthCreated, HealthCreateFails, Refilling, RefillStarts, RefillCreated,
       RefillFails, poolVars, sweepVars
  <2>2. CASE Warmed \/ UNCHANGED vars \/ \E i \in Instances : Declines(i)
    BY <1>2, <1>3, <2>2 DEF Warmed, vars, Declines, poolVars, bgVars, sweepVars
  <2> QED
    BY <1>8, <2>1, <2>2
<1> QED
  BY <1>5, <1>6, <1>7, <1>8 DEF HealthLoop

LEMMA NextKept ==
  ASSUME OwnKeys
  PROVE  Core /\ KeyOwned /\ Kept /\ [Next]_vars => Kept'
<1> SUFFICES ASSUME Core, KeyOwned, Kept, [Next]_vars PROVE Kept'
  OBVIOUS
<1>1. CASE Running
  <2>1. Awaited /\ Reached(Nobody, tracked, avail, sticky, NoInstance)
    BY <1>1 DEF Kept
  <2>2. ASSUME NEW u \in Users, Call(u) \/ Resume(u) PROVE Kept'
    <3>1. PICK k \in KeysOf[u] \cup {NoKey} : Keeps(u, k)
      BY <1>1, <2>1, <2>2, CallKeeps
    <3>2. UNCHANGED <<todo, current>>
      BY <2>2 DEF Call, Resume, Acquire, AcquireSticky, ReleaseSticky, DiscardDone, CreateGranted, Created, CreateFails,
         TakeReturned, WaitTimesOut, LateDiscardDone, ReplaceGranted, GiveBack, CheckInDone, StickyGranted,
         ReplaceSticky, BindGranted, SessionDone, ReleaseGranted, bgVars, sweepVars
    <3> QED
      BY <2>1, <3>1, <3>2, KeepsKept
  <2>3. ASSUME \/ HealthLoop \/ HealthCreateFails \/ Refilling \/ Warmed \/ \E i \in Instances : Declines(i)
               \/ UNCHANGED vars
        PROVE  Kept'
    <3>1. UNCHANGED userVars
      BY <2>3 DEF HealthLoop, HealthWakes, HealthRecycled, HealthEnsures, HealthCreated, HealthUnbinds, HealthCleaned,
         HealthCreateFails, Refilling, RefillStarts, RefillCreated, RefillFails, Warmed, Declines, userVars, vars
    <3> QED
      BY <1>1, <2>1, <2>3, <3>1, PoolKeeps DEF Kept
  <2>4. Start \/ BeginShutdown \/ Shutdown => ~ Running'
    BY <1>1 DEF Start, BeginShutdown, Shutdown, HealthCancelled, DestroyAll, Destroyed, mainVars, Running
  <2> QED
    BY <2>2, <2>3, <2>4 DEF Next, Kept
<1>2. CASE ~ Running /\ Running'
  <2>1. Start
    <3>1. phase' # phase
      BY <1>2 DEF Running
    <3>2. ~ Warmed /\ ~ BeginShutdown /\ ~ HealthCancelled /\ ~ DestroyAll /\ ~ Destroyed
      BY <1>2 DEF Warmed, BeginShutdown, HealthCancelled, DestroyAll, Destroyed, Running, mainVars
    <3>3. ~ (\E u \in Users : Call(u) \/ Resume(u))
      BY <3>1 DEF Call, Resume, Acquire, AcquireSticky, ReleaseSticky, DiscardDone, CreateGranted, Created, CreateFails,
         TakeReturned, WaitTimesOut, LateDiscardDone, ReplaceGranted, GiveBack, CheckInDone, StickyGranted,
         ReplaceSticky, BindGranted, SessionDone, ReleaseGranted, bgVars, mainVars
    <3>4. ~ (HealthLoop \/ HealthCreateFails \/ Refilling \/ \E i \in Instances : Declines(i))
      BY <3>1 DEF HealthLoop, HealthWakes, HealthRecycled, HealthEnsures, HealthCreated, HealthUnbinds, HealthCleaned,
         HealthCreateFails, Refilling, RefillStarts, RefillCreated, RefillFails, Declines, mainVars, bgVars
    <3> QED
      BY <3>1, <3>2, <3>3, <3>4 DEF Next, Shutdown, vars
  <2>2. /\ tracked' = {} /\ UNCHANGED pc /\ \A u \in Users : pc[u] \in {"idle", "want_release"}
    BY <2>1 DEF Start, Core, Control, poolVars, userVars
  <2> QED
    BY <2>2 DEF Kept, Reached, Awaited, Seeking
<1> QED
  BY <1>1, <1>2 DEF Kept

(* A running pool loses no instance it counts: what is tracked is queued,    *)
(* bound, in a call's hands or about to be destroyed, if no two calls are    *)
(* made for one sticky key.  Without that it is false: of two first calls    *)
(* for one key, the second to bind overwrites the binding of the first.      *)
THEOREM NothingLeaks ==
  ASSUME OwnKeys
  PROVE  Spec => []NoLeak
<1>1. Init => Core /\ KeyOwned /\ Kept
  BY InitCore DEF Init, KeyOwned, Kept, Running
<1>2. Core /\ KeyOwned /\ Kept /\ [Next]_vars => (Core /\ KeyOwned /\ Kept)'
  BY NextCore, NextKeys, NextKept
<1>3. Core /\ Kept => NoLeak
  <2> SUFFICES ASSUME Core, Kept, Running, NEW i \in tracked
               PROVE  \/ InQueue(i)
                      \/ \E k \in Keys : sticky[k] = i
                      \/ \E u \in Users : held[u] = i
                      \/ i \in todo[Health]
    BY DEF NoLeak
  <2>1. Reached(Nobody, tracked, avail, sticky, NoInstance) /\ i # NoInstance
    BY NoneUntracked DEF Kept, Core
  <2>2. i \in In(avail) => InQueue(i)
    BY DEF InQueue, In
  <2>3. (\E v \in Users \ {Nobody} : pc[v] \in Working /\ held[v] = i) => \E u \in Users : held[u] = i
    OBVIOUS
  <2>4. \/ i = NoInstance
        \/ i \in In(avail)
        \/ \E k \in Keys : sticky[k] = i
        \/ \E v \in Users \ {Nobody} : pc[v] \in Working /\ held[v] = i
        \/ i \in todo[Health]
    BY <2>1 DEF Reached
  <2> QED
    BY <2>1, <2>2, <2>3, <2>4
<1> QED
  BY <1>1, <1>2, <1>3, PTL DEF Spec
=============================================================================
