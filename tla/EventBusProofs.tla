---------------------------- MODULE EventBusProofs ----------------------------
(* Machine-checked theorems about EventBus, for any readers, requests and   *)
(* stream of events, and any number of failures: the events are written     *)
(* once and in order, a subscriber misses the events of one window only,    *)
(* and queries answer as EventHistory has it.                               *)
EXTENDS EventBus, FiniteSetTheorems, SequenceTheorems, TLAPS

-------------------------------------------------------------------------------
(* Sequences of numbers and their elements                                  *)

LEMMA EmptyHas == ToSet(<<>>) = {} /\ Increasing(<<>>)
  BY DEF ToSet, Increasing

LEMMA ConcatHas ==
  ASSUME NEW S, NEW s \in Seq(S), NEW t \in Seq(S)
  PROVE  ToSet(s \o t) = ToSet(s) \cup ToSet(t)
<1>1. ToSet(s \o t) \subseteq ToSet(s) \cup ToSet(t)
  BY DEF ToSet
<1>2. ToSet(s) \subseteq ToSet(s \o t)
  BY DEF ToSet
<1>3. ASSUME NEW i \in DOMAIN t PROVE t[i] \in ToSet(s \o t)
  <2>1. Len(s) + i \in DOMAIN (s \o t) /\ (s \o t)[Len(s) + i] = t[i]
    OBVIOUS
  <2> QED
    BY <2>1 DEF ToSet
<1> QED
  BY <1>1, <1>2, <1>3 DEF ToSet

LEMMA ConcatIncreases ==
  ASSUME NEW s \in Seq(Int), NEW t \in Seq(Int), Increasing(s), Increasing(t), Below(s, t)
  PROVE  Increasing(s \o t)
<1> SUFFICES ASSUME NEW i \in DOMAIN (s \o t), NEW j \in DOMAIN (s \o t), i < j
             PROVE  (s \o t)[i] < (s \o t)[j]
  BY DEF Increasing
<1>1. CASE j <= Len(s)
  BY <1>1 DEF Increasing
<1>2. CASE i > Len(s)
  BY <1>2 DEF Increasing
<1>3. CASE i <= Len(s) /\ j > Len(s)
  <2>1. (s \o t)[i] \in ToSet(s)
    BY <1>3 DEF ToSet
  <2>2. (s \o t)[j] \in ToSet(t)
    BY <1>3 DEF ToSet
  <2> QED
    BY <2>1, <2>2 DEF Below
<1> QED
  BY <1>1, <1>2, <1>3

LEMMA AppendHas ==
  ASSUME NEW S, NEW s \in Seq(S), NEW e \in S
  PROVE  ToSet(Append(s, e)) = ToSet(s) \cup {e}
<1>1. ToSet(Append(s, e)) \subseteq ToSet(s) \cup {e}
  BY DEF ToSet
<1>2. ToSet(s) \subseteq ToSet(Append(s, e))
  BY DEF ToSet
<1>3. e \in ToSet(Append(s, e))
  <2>1. Len(s) + 1 \in DOMAIN Append(s, e) /\ Append(s, e)[Len(s) + 1] = e
    OBVIOUS
  <2> QED
    BY <2>1 DEF ToSet
<1> QED
  BY <1>1, <1>2, <1>3

LEMMA AppendIncreases ==
  ASSUME NEW s \in Seq(Int), NEW e \in Int, Increasing(s), \A x \in ToSet(s) : x < e
  PROVE  Increasing(Append(s, e))
  BY DEF Increasing, ToSet

(* Taking from the front.                                                   *)
LEMMA HeadTail ==
  ASSUME NEW s \in Seq(Int), s # <<>>, Increasing(s)
  PROVE  /\ ToSet(s) = {Head(s)} \cup ToSet(Tail(s)) /\ Increasing(Tail(s))
         /\ \A x \in ToSet(Tail(s)) : Head(s) < x
<1>1. Len(s) > 0 /\ 1 \in DOMAIN s /\ Head(s) = s[1]
  OBVIOUS
<1>2. \A i \in DOMAIN Tail(s) : i + 1 \in DOMAIN s /\ Tail(s)[i] = s[i + 1]
  BY <1>1
<1>3. \A i \in DOMAIN s : i # 1 => i - 1 \in DOMAIN Tail(s) /\ Tail(s)[i - 1] = s[i]
  BY <1>1
<1>4. ToSet(s) = {Head(s)} \cup ToSet(Tail(s))
  <2>1. ASSUME NEW i \in DOMAIN s PROVE s[i] = Head(s) \/ s[i] \in ToSet(Tail(s))
    BY <1>1, <1>3 DEF ToSet
  <2>2. ASSUME NEW i \in DOMAIN Tail(s) PROVE Tail(s)[i] \in ToSet(s)
    BY <1>2 DEF ToSet
  <2> QED
    BY <1>1, <2>1, <2>2 DEF ToSet
<1>5. Increasing(Tail(s))
  BY <1>1, <1>2 DEF Increasing
<1>6. \A x \in ToSet(Tail(s)) : Head(s) < x
  BY <1>1, <1>2 DEF Increasing, ToSet
<1> QED
  BY <1>4, <1>5, <1>6

LEMMA HeadTyped ==
  ASSUME NEW S, NEW s \in Seq(S), s # <<>>
  PROVE  Head(s) \in S /\ Tail(s) \in Seq(S)
  OBVIOUS

(* Its first k and the others.                                              *)
LEMMA SplitAt ==
  ASSUME NEW S, NEW s \in Seq(S), NEW k \in 0..Len(s)
  PROVE  LET a == SubSeq(s, 1, k)  b == SubSeq(s, k + 1, Len(s)) IN
         /\ a \in Seq(S) /\ b \in Seq(S) /\ Len(a) = k
         /\ ToSet(s) = ToSet(a) \cup ToSet(b)
         /\ \A i \in DOMAIN a : i \in DOMAIN s /\ a[i] = s[i]
         /\ ToSet(a) = {s[i] : i \in 1..k} /\ ToSet(b) = {s[i] : i \in (k + 1)..Len(s)}
<1> DEFINE a == SubSeq(s, 1, k)
           b == SubSeq(s, k + 1, Len(s))
<1>1. a \in Seq(S) /\ Len(a) = k /\ \A i \in 1..k : a[i] = s[i]
  BY SubSeqProperties
<1>2. b \in Seq(S) /\ Len(b) = Len(s) - k /\ \A i \in 1..(Len(s) - k) : b[i] = s[k + i]
  BY SubSeqProperties
<1>3. ToSet(a) = {s[i] : i \in 1..k}
  <2>1. DOMAIN a = 1..k
    BY <1>1
  <2> QED
    BY <1>1, <2>1 DEF ToSet
<1>4. ToSet(b) = {s[i] : i \in (k + 1)..Len(s)}
  <2>1. \A i \in DOMAIN b : k + i \in (k + 1)..Len(s) /\ b[i] = s[k + i]
    BY <1>2
  <2>2. \A i \in (k + 1)..Len(s) : i - k \in DOMAIN b /\ b[i - k] = s[i]
    BY <1>2
  <2>3. ASSUME NEW x \in ToSet(b) PROVE x \in {s[i] : i \in (k + 1)..Len(s)}
    BY <2>1 DEF ToSet
  <2>4. ASSUME NEW i \in (k + 1)..Len(s) PROVE s[i] \in ToSet(b)
    BY <2>2 DEF ToSet
  <2> QED
    BY <2>3, <2>4
<1>5. ToSet(s) = ToSet(a) \cup ToSet(b)
  <2>0. DOMAIN s = 1..Len(s) /\ Len(s) \in Nat
    OBVIOUS
  <2>1. DOMAIN s = 1..k \cup (k + 1)..Len(s)
    BY <2>0
  <2>2. ToSet(s) = {s[i] : i \in 1..k \cup (k + 1)..Len(s)}
    BY <2>1 DEF ToSet
  <2> QED
    BY <1>3, <1>4, <2>2
<1> QED
  BY <1>1, <1>2, <1>3, <1>4, <1>5

-------------------------------------------------------------------------------
(* Types                                                                    *)

Who  == Readers \cup {"writer", "cancelled", "closer"}
Work == {"insert", "commit", "select", "fetch", "close"}
Ops  == [who : Who, op : Work, events : Seq(Ids)]

LEMMA OpTyped ==
  ASSUME NEW w \in Who, NEW o \in Work, NEW es \in Seq(Ids)
  PROVE  Op(w, o, es) \in Ops /\ Op(w, o, es).who = w /\ Op(w, o, es).op = o
                              /\ Op(w, o, es).events = es
  BY DEF Op, Ops

LEMMA EmptyOp ==
  ASSUME NEW w \in Who, NEW o \in Work \ {"insert"}
  PROVE  LET p == Op(w, o, <<>>) IN
         p \in Ops /\ p.events = <<>> /\ p.op = o /\ p.op # "insert" /\ p.who = w
<1>1. <<>> \in Seq(Ids)
  OBVIOUS
<1> QED
  BY <1>1 DEF Op, Ops

(* The log is what was emitted of the stream.                               *)
LEMMA LogTyped ==
  ASSUME TypeOK
  PROVE  /\ Len(log) \in Nat /\ DOMAIN log = 1..Len(log) /\ 1..Len(log) \subseteq Ids
         /\ Ids = 1..Len(Stream) /\ Ids \subseteq Int /\ Len(Stream) \in Nat
         /\ \A i \in DOMAIN log : log[i] = Stream[i]
         /\ log \in Seq(ToSet(Stream))
<1>1. Stream \in Seq(ToSet(Stream)) /\ Len(Stream) \in Nat /\ DOMAIN Stream = 1..Len(Stream)
  BY EventBusAssumption
<1>2. \A n \in 0..Len(Stream) :
        /\ SubSeq(Stream, 1, n) \in Seq(ToSet(Stream)) /\ Len(SubSeq(Stream, 1, n)) = n
        /\ \A i \in 1..n : SubSeq(Stream, 1, n)[i] = Stream[i]
  BY <1>1, SubSeqProperties
<1>3. log = SubSeq(Stream, 1, Len(log))
  BY DEF TypeOK
<1>4. Len(log) \in 0..Len(Stream)
  <2>1. CASE Len(log) \in Nat
    BY <1>1, <2>1 DEF TypeOK
  <2> QED
    BY <1>1, <1>3, <2>1
<1> QED
  BY <1>1, <1>2, <1>3, <1>4 DEF Ids

LEMMA EmitsLog ==
  ASSUME TypeOK, Len(log) < Len(Stream), log' = Append(log, Stream[Len(log) + 1])
  PROVE  /\ Len(log') = Len(log) + 1 /\ Len(log') <= Len(Stream)
         /\ log' = SubSeq(Stream, 1, Len(log'))
         /\ \A i \in DOMAIN log : log'[i] = log[i]
         /\ DOMAIN log' = DOMAIN log \cup {Len(log')} /\ Len(log') \in Ids
<1>1. /\ Len(log) \in Nat /\ DOMAIN log = 1..Len(log) /\ Ids = 1..Len(Stream) /\ Len(Stream) \in Nat
      /\ \A i \in DOMAIN log : log[i] = Stream[i]
      /\ log \in Seq(ToSet(Stream))
  BY LogTyped
<1>2. Stream[Len(log) + 1] \in ToSet(Stream)
  BY <1>1 DEF Ids, ToSet
<1>3. /\ log' \in Seq(ToSet(Stream)) /\ Len(log') = Len(log) + 1
      /\ \A i \in 1..Len(log') : log'[i] = Stream[i]
  BY <1>1, <1>2
<1>4. log' = SubSeq(Stream, 1, Len(log'))
  <2>1. /\ SubSeq(Stream, 1, Len(log')) \in Seq(ToSet(Stream))
        /\ Len(SubSeq(Stream, 1, Len(log'))) = Len(log')
        /\ \A i \in 1..Len(log') : SubSeq(Stream, 1, Len(log'))[i] = Stream[i]
    <3>1. \A i \in 1..Len(log') : Stream[i] \in ToSet(Stream)
      BY <1>1, <1>3 DEF Ids, ToSet
    <3> QED
      BY <1>1, <1>3, <3>1, SubSeqProperties
  <2> QED
    BY <1>3, <2>1
<1> QED
  BY <1>1, <1>3, <1>4

-------------------------------------------------------------------------------
(* The events on their way                                                  *)

(* Every place of an event is increasing, and below the places behind it;   *)
(* what is in none of them is lost.                                         *)
Held(e) == e \in ToSet(rows) \/ e \in ToSet(queue)
                             \/ \E i \in DOMAIN thread : e \in ToSet(thread[i].events)
Order ==
  /\ rows \in Seq(DOMAIN log) /\ queue \in Seq(DOMAIN log) /\ thread \in Seq(Ops)
  /\ Increasing(rows) /\ Increasing(queue) /\ Below(rows, queue)
  /\ \A i \in DOMAIN thread :
       /\ thread[i].events \in Seq(DOMAIN log) /\ Increasing(thread[i].events)
       /\ Below(rows, thread[i].events) /\ Below(thread[i].events, queue)
       /\ thread[i].op # "insert" => thread[i].events = <<>>
  /\ \A i, j \in DOMAIN thread : i < j => Below(thread[i].events, thread[j].events)
  /\ lost \subseteq DOMAIN log
  /\ \A e \in DOMAIN log : e \in lost <=> ~Held(e)

(* The operations move up by d places; one without events may join them.    *)
Moved(d) ==
  /\ thread' \in Seq(Ops)
  /\ \A i \in DOMAIN thread' :
       \/ /\ i + d \notin DOMAIN thread /\ i = Len(thread')
          /\ thread'[i].events = <<>> /\ thread'[i].op # "insert"
       \/ /\ i + d \in DOMAIN thread /\ thread'[i].events = thread[i + d].events
          /\ thread'[i].op = thread[i + d].op
          /\ \/ thread'[i].who = thread[i + d].who
             \/ thread[i + d].who = "writer" /\ thread'[i].who = "cancelled"
  /\ \A i \in DOMAIN thread : i > d =>
       i - d \in DOMAIN thread' /\ thread'[i - d].events = thread[i].events

(* The connection writes some events, a, of the operation it takes and      *)
(* loses the others, b; without one, there are none.                        *)
Advances(d, a, b) ==
  /\ d \in {0, 1} /\ (d = 1 => thread # <<>>) /\ Moved(d)
  /\ a \in Seq(DOMAIN log) /\ b \in Seq(DOMAIN log) /\ Increasing(a) /\ Below(a, b)
  /\ ToSet(a) \cup ToSet(b) = IF d = 1 THEN ToSet(thread[1].events) ELSE {}
  /\ rows' = rows \o a /\ lost' = lost \cup ToSet(b) /\ UNCHANGED <<queue, log>>

LEMMA SeqWiden ==
  ASSUME NEW S, NEW T, S \subseteq T, NEW s \in Seq(S)
  PROVE  s \in Seq(T)
  OBVIOUS

LEMMA OrderMoves ==
  ASSUME Order, DOMAIN log \subseteq Int, NEW d, NEW a, NEW b, Advances(d, a, b)
  PROVE  Order'
<1>0. /\ d \in {0, 1} /\ (d = 1 => thread # <<>>) /\ Moved(d)
      /\ a \in Seq(DOMAIN log) /\ b \in Seq(DOMAIN log) /\ Increasing(a) /\ Below(a, b)
      /\ ToSet(a) \cup ToSet(b) = IF d = 1 THEN ToSet(thread[1].events) ELSE {}
      /\ rows' = rows \o a /\ lost' = lost \cup ToSet(b) /\ UNCHANGED <<queue, log>>
  BY DEF Advances
<1> DEFINE es == IF d = 1 THEN ToSet(thread[1].events) ELSE {}
<1> USE <1>0
<1>1. /\ d \in Nat /\ DOMAIN thread = 1..Len(thread) /\ Len(thread) \in Nat
      /\ DOMAIN thread' = 1..Len(thread') /\ Len(thread') \in Nat
      /\ \/ d = 0 /\ es = {}
         \/ d = 1 /\ 1 \in DOMAIN thread /\ es = ToSet(thread[1].events)
      /\ \A i \in DOMAIN thread' : i + d \in Nat /\ i + d > d /\ (d = 1 => i + d > 1)
  <2>1. /\ DOMAIN thread = 1..Len(thread) /\ Len(thread) \in Nat
        /\ DOMAIN thread' = 1..Len(thread') /\ Len(thread') \in Nat
    BY DEF Order, Moved
  <2>2. d = 1 => 1 \in DOMAIN thread
    BY DEF Order
  <2> QED
    BY <2>1, <2>2
<1> HIDE DEF es
<1>es. es = ToSet(a) \cup ToSet(b)
  BY DEF es
<1>2. ToSet(rows') = ToSet(rows) \cup ToSet(a) /\ rows' \in Seq(DOMAIN log)
  BY ConcatHas DEF Order
<1>3. \A x \in ToSet(rows), y \in es : x < y
  BY <1>1 DEF Order, Below
<1>4. Increasing(rows')
  <2>1. rows \in Seq(Int) /\ a \in Seq(Int)
    BY SeqWiden DEF Order
  <2>2. Below(rows, a)
    BY <1>3, <1>es DEF Below
  <2> QED
    BY <2>1, <2>2, ConcatIncreases DEF Order
<1>5. Below(rows', queue')
  BY <1>1, <1>2, <1>es DEF Order, Below
<1>6. ASSUME NEW i \in DOMAIN thread'
      PROVE  /\ thread'[i].events \in Seq(DOMAIN log) /\ Increasing(thread'[i].events)
             /\ Below(rows', thread'[i].events) /\ Below(thread'[i].events, queue)
             /\ thread'[i].op # "insert" => thread'[i].events = <<>>
  <2>1. CASE thread'[i].events = <<>>
    BY <2>1, EmptyHas DEF Below
  <2>2. CASE /\ i + d \in DOMAIN thread /\ thread'[i].events = thread[i + d].events
             /\ thread'[i].op = thread[i + d].op
    <3>1. \A x \in es, y \in ToSet(thread[i + d].events) : x < y
      BY <1>1, <2>2 DEF Order, Below
    <3> QED
      BY <1>2, <1>es, <2>2, <3>1 DEF Order, Below
  <2> QED
    BY <2>1, <2>2 DEF Moved
<1>7. ASSUME NEW i \in DOMAIN thread', NEW j \in DOMAIN thread', i < j
      PROVE  Below(thread'[i].events, thread'[j].events)
  <2>1. CASE thread'[i].events = <<>> \/ thread'[j].events = <<>>
    BY <2>1, EmptyHas DEF Below
  <2>2. CASE /\ i + d \in DOMAIN thread /\ thread'[i].events = thread[i + d].events
             /\ j + d \in DOMAIN thread /\ thread'[j].events = thread[j + d].events
    <3>1. i + d < j + d
      <4>1. i \in Int /\ j \in Int /\ d \in Int
        BY <1>1
      <4> QED
        BY <1>7, <4>1
    <3> QED
      BY <2>2, <3>1 DEF Order
  <2> QED
    BY <2>1, <2>2 DEF Moved
<1>8. lost' \subseteq DOMAIN log
  BY DEF Order, ToSet
<1>9. ASSUME NEW e \in DOMAIN log PROVE e \in lost' <=> ~Held(e)'
  <2>1. e \in es <=> e \in ToSet(a) \/ e \in ToSet(b)
    BY <1>es
  <2>2. (\E i \in DOMAIN thread : i > d /\ e \in ToSet(thread[i].events))
        <=> (\E i \in DOMAIN thread' : e \in ToSet(thread'[i].events))
    <3>1. ASSUME NEW i \in DOMAIN thread', e \in ToSet(thread'[i].events)
          PROVE  \E k \in DOMAIN thread : k > d /\ e \in ToSet(thread[k].events)
      <4>1. thread'[i].events # <<>>
        BY <3>1, EmptyHas
      <4>2. i + d \in DOMAIN thread /\ thread'[i].events = thread[i + d].events
        BY <4>1 DEF Moved
      <4>3. i + d > d
        BY <1>1
      <4> QED
        BY <3>1, <4>2, <4>3
    <3>2. ASSUME NEW i \in DOMAIN thread, i > d, e \in ToSet(thread[i].events)
          PROVE  \E k \in DOMAIN thread' : e \in ToSet(thread'[k].events)
      BY <1>1, <3>2 DEF Moved
    <3> QED
      BY <3>1, <3>2
  <2>3. (\E i \in DOMAIN thread : e \in ToSet(thread[i].events))
        <=> e \in es \/ \E i \in DOMAIN thread : i > d /\ e \in ToSet(thread[i].events)
    <3>1. ASSUME NEW i \in DOMAIN thread, e \in ToSet(thread[i].events), ~(i > d)
          PROVE  e \in es
      <4>1. d = 1 /\ i = 1
        BY <1>1, <3>1
      <4> QED
        BY <1>1, <3>1, <4>1
    <3> QED
      BY <1>1, <3>1
  <2>4. ~(e \in ToSet(a) /\ e \in ToSet(b))
    BY DEF Below
  <2>5. e \in es => /\ ~(\E i \in DOMAIN thread : i > d /\ e \in ToSet(thread[i].events))
                    /\ e \notin ToSet(queue) /\ e \notin ToSet(rows)
    <3> SUFFICES ASSUME e \in es PROVE /\ \A i \in DOMAIN thread : i > d => e \notin ToSet(thread[i].events)
                                       /\ e \notin ToSet(queue) /\ e \notin ToSet(rows)
      OBVIOUS
    <3>1. d = 1 /\ e \in ToSet(thread[1].events) /\ 1 \in DOMAIN thread
      BY <1>1
    <3>2. ASSUME NEW i \in DOMAIN thread, i > d PROVE e \notin ToSet(thread[i].events)
      <4>1. Below(thread[1].events, thread[i].events) /\ e \in Int
        BY <1>1, <3>1, <3>2 DEF Order
      <4> QED
        BY <3>1, <4>1 DEF Below
    <3>3. e \in Int /\ Below(rows, thread[1].events) /\ Below(thread[1].events, queue)
      BY <3>1 DEF Order
    <3> QED
      BY <3>1, <3>2, <3>3 DEF Below
  <2> QED
    BY <1>2, <2>1, <2>2, <2>3, <2>4, <2>5 DEF Order, Held
<1> QED
  BY <1>2, <1>4, <1>5, <1>6, <1>7, <1>8, <1>9 DEF Order, Moved, Below

(* The ways the list of operations moves.                                   *)
LEMMA MovedNext ==
  ASSUME thread \in Seq(Ops), NEW w \in Who, NEW o \in Work \ {"insert"},
         thread' = Append(thread, Op(w, o, <<>>))
  PROVE  Moved(0)
<1> DEFINE p == Op(w, o, <<>>)
<1>1. p \in Ops /\ p.events = <<>> /\ p.op # "insert"
  BY EmptyOp
<1> HIDE DEF p
<1>2. /\ thread' \in Seq(Ops) /\ Len(thread') = Len(thread) + 1 /\ thread'[Len(thread')] = p
      /\ \A i \in 1..Len(thread) : thread'[i] = thread[i]
      /\ DOMAIN thread = 1..Len(thread) /\ DOMAIN thread' = 1..Len(thread') /\ Len(thread) \in Nat
  BY <1>1 DEF p
<1>3. /\ \A i \in DOMAIN thread' : i = Len(thread') \/ (i \in DOMAIN thread /\ i + 0 = i)
      /\ Len(thread') + 0 \notin DOMAIN thread
  BY <1>2
<1>4. \A i \in DOMAIN thread : i - 0 = i /\ i \in DOMAIN thread'
  BY <1>2
<1> QED
  BY <1>1, <1>2, <1>3, <1>4 DEF Moved

LEMMA Pushed ==
  ASSUME NEW S, NEW s \in Seq(S), NEW e \in S
  PROVE  /\ Append(s, e) \in Seq(S) /\ Len(Append(s, e)) = Len(s) + 1
         /\ Append(s, e)[Len(s) + 1] = e /\ \A i \in 1..Len(s) : Append(s, e)[i] = s[i]
         /\ DOMAIN Append(s, e) = 1..(Len(s) + 1)
  OBVIOUS

LEMMA TailMoves ==
  ASSUME thread \in Seq(Ops), thread # <<>>
  PROVE  /\ Tail(thread) \in Seq(Ops) /\ Len(Tail(thread)) = Len(thread) - 1 /\ Len(thread) \in Nat \ {0}
         /\ DOMAIN thread = 1..Len(thread) /\ DOMAIN Tail(thread) = 1..(Len(thread) - 1)
         /\ \A i \in DOMAIN Tail(thread) : i + 1 \in DOMAIN thread /\ Tail(thread)[i] = thread[i + 1]
         /\ \A i \in DOMAIN thread : i > 1 => /\ i - 1 \in DOMAIN Tail(thread)
                                              /\ Tail(thread)[i - 1] = thread[i]
         /\ Head(thread) = thread[1] /\ 1 \in DOMAIN thread
  OBVIOUS

LEMMA MovedTail ==
  ASSUME thread \in Seq(Ops), thread # <<>>, thread' = Tail(thread)
  PROVE  Moved(1)
  BY TailMoves DEF Moved

LEMMA MovedThen ==
  ASSUME thread \in Seq(Ops), thread # <<>>, NEW w \in Who, NEW o \in Work \ {"insert"},
         thread' = Append(Tail(thread), Op(w, o, <<>>))
  PROVE  Moved(1)
<1> DEFINE p == Op(w, o, <<>>)
           t == Tail(thread)
<1>1. p \in Ops /\ p.events = <<>> /\ p.op # "insert"
  BY EmptyOp
<1>2. /\ t \in Seq(Ops) /\ Len(t) = Len(thread) - 1 /\ DOMAIN t = 1..Len(t) /\ Len(t) \in Nat
      /\ DOMAIN thread = 1..Len(thread) /\ Len(thread) \in Nat
      /\ \A i \in DOMAIN t : i + 1 \in DOMAIN thread /\ t[i] = thread[i + 1]
      /\ \A i \in DOMAIN thread : i > 1 => i - 1 \in DOMAIN t /\ t[i - 1] = thread[i]
  BY TailMoves
<1>3. thread' = Append(t, p)
  OBVIOUS
<1> HIDE DEF p, t
<1>4. /\ thread' \in Seq(Ops) /\ Len(thread') = Len(t) + 1 /\ thread'[Len(thread')] = p
      /\ \A i \in 1..Len(t) : thread'[i] = t[i]
      /\ DOMAIN thread' = 1..Len(thread')
  <2>1. t \in Seq(Ops) /\ p \in Ops
    BY <1>1, <1>2
  <2> QED
    BY ONLY <1>3, <2>1, Pushed
<1>5. /\ \A i \in DOMAIN thread' : i = Len(thread') \/ i \in DOMAIN t
      /\ Len(thread') + 1 \notin DOMAIN thread
  BY <1>2, <1>4
<1>6. \A i \in DOMAIN thread : i > 1 => i - 1 \in DOMAIN thread'
  BY <1>2, <1>4
<1> QED
  BY <1>1, <1>2, <1>4, <1>5, <1>6 DEF Moved

LEMMA CancelledOps ==
  ASSUME NEW t \in Seq(Ops)
  PROVE  /\ Cancelled(t) \in Seq(Ops) /\ DOMAIN Cancelled(t) = DOMAIN t
         /\ Len(Cancelled(t)) = Len(t) /\ Len(t) \in Nat /\ DOMAIN t = 1..Len(t)
         /\ \A i \in DOMAIN t : /\ Cancelled(t)[i].op = t[i].op
                                /\ Cancelled(t)[i].events = t[i].events
                                /\ \/ Cancelled(t)[i].who = t[i].who
                                   \/ t[i].who = "writer" /\ Cancelled(t)[i].who = "cancelled"
<1> DEFINE c == Cancelled(t)
<1>1. c = [i \in DOMAIN t |-> IF t[i].who = "writer"
                              THEN [t[i] EXCEPT !.who = "cancelled"] ELSE t[i]]
  BY DEF Cancelled
<1>2. DOMAIN t = 1..Len(t) /\ Len(t) \in Nat /\ \A i \in DOMAIN t : t[i] \in Ops
  OBVIOUS
<1>3. ASSUME NEW i \in DOMAIN t
      PROVE  /\ c[i] \in Ops /\ c[i].op = t[i].op /\ c[i].events = t[i].events
             /\ c[i].who = t[i].who \/ (t[i].who = "writer" /\ c[i].who = "cancelled")
  <2>1. CASE t[i].who = "writer"
    <3>1. c[i] = [t[i] EXCEPT !.who = "cancelled"]
      BY <1>1, <2>1
    <3> QED
      BY <1>2, <2>1, <3>1 DEF Ops, Who
  <2>2. CASE t[i].who # "writer"
    BY <1>1, <1>2, <2>2
  <2> QED
    BY <2>1, <2>2
<1>4. DOMAIN c = DOMAIN t
  BY <1>1
<1> HIDE DEF c
<1>5. c \in Seq(Ops) /\ Len(c) = Len(t)
  <2>1. c \in [1..Len(t) -> Ops]
    <3>1. c = [i \in DOMAIN t |-> c[i]]
      BY <1>1
    <3> QED
      BY <1>2, <1>3, <3>1
  <2> QED
    BY <1>2, <2>1
<1> QED
  BY <1>2, <1>3, <1>4, <1>5 DEF c

LEMMA MovedClosing ==
  ASSUME thread \in Seq(Ops), NEW d \in {0, 1}, d = 1 => thread # <<>>,
         Closing(IF d = 1 THEN Tail(thread) ELSE thread)
  PROVE  Moved(d)
<1> DEFINE t == IF d = 1 THEN Tail(thread) ELSE thread
           c == Cancelled(t)
           p == Op("closer", "close", <<>>)
<1>1. p \in Ops /\ p.events = <<>> /\ p.op # "insert"
  <2>1. "closer" \in Who /\ "close" \in Work \ {"insert"}
    BY DEF Who, Work
  <2> QED
    BY ONLY <2>1, EmptyOp
<1>2. /\ t \in Seq(Ops) /\ Len(t) \in Nat /\ DOMAIN t = 1..Len(t)
      /\ Len(thread) \in Nat /\ DOMAIN thread = 1..Len(thread)
      /\ Len(t) = Len(thread) - d /\ d \in Nat
      /\ \A i \in DOMAIN t : i + d \in DOMAIN thread /\ t[i] = thread[i + d]
      /\ \A i \in DOMAIN thread : i > d => i - d \in DOMAIN t /\ t[i - d] = thread[i]
  <2>1. CASE d = 1
    BY <2>1, TailMoves
  <2>2. CASE d = 0
    BY <2>2
  <2> QED
    BY <2>1, <2>2
<1>3. thread' = Append(c, p)
  BY DEF Closing
<1> HIDE DEF t, p
<1>4. /\ c \in Seq(Ops) /\ Len(c) = Len(t)
      /\ \A i \in DOMAIN t : /\ c[i].op = t[i].op /\ c[i].events = t[i].events
                             /\ c[i].who = t[i].who \/ (t[i].who = "writer" /\ c[i].who = "cancelled")
  BY <1>2, CancelledOps
<1> HIDE DEF c
<1>5. /\ thread' \in Seq(Ops) /\ Len(thread') = Len(t) + 1 /\ thread'[Len(thread')] = p
      /\ \A i \in 1..Len(t) : thread'[i] = c[i]
      /\ DOMAIN thread' = 1..Len(thread')
  BY ONLY <1>1, <1>2, <1>3, <1>4, Pushed
<1>6. /\ \A i \in DOMAIN thread' : i = Len(thread') \/ i \in DOMAIN t
      /\ Len(thread') + d \notin DOMAIN thread
  BY <1>2, <1>5
<1>7. ASSUME NEW i \in DOMAIN thread, i > d
      PROVE  i - d \in DOMAIN thread' /\ thread'[i - d].events = thread[i].events
  <2>1. i - d \in DOMAIN t /\ t[i - d] = thread[i]
    BY <1>2, <1>7
  <2>2. \A k \in DOMAIN t : thread'[k] = c[k] /\ c[k].events = t[k].events /\ k \in DOMAIN thread'
    BY <1>2, <1>4, <1>5
  <2> QED
    BY <2>1, <2>2
<1>8. ASSUME NEW i \in DOMAIN t
      PROVE  /\ i + d \in DOMAIN thread /\ thread'[i].events = thread[i + d].events
             /\ thread'[i].op = thread[i + d].op
             /\ thread'[i].who = thread[i + d].who
                \/ (thread[i + d].who = "writer" /\ thread'[i].who = "cancelled")
  <2>1. t[i] = thread[i + d] /\ i + d \in DOMAIN thread
    BY <1>2
  <2>2. thread'[i] = c[i]
    BY <1>2, <1>5
  <2> QED
    BY <1>4, <2>1, <2>2
<1> QED
  BY <1>1, <1>5, <1>6, <1>7, <1>8 DEF Moved

(* An event enters the queue.                                               *)
LEMMA OrderEmits ==
  ASSUME TypeOK, Order, Emit
  PROVE  Order'
<1> DEFINE n == Len(log')
<1>1. /\ Len(log) \in Nat /\ DOMAIN log = 1..Len(log) /\ n = Len(log) + 1
      /\ DOMAIN log' = DOMAIN log \cup {n} /\ UNCHANGED <<rows, thread, lost>>
      /\ queue' = Append(queue, n)
  BY LogTyped, EmitsLog DEF Emit
<1>2. DOMAIN log \subseteq DOMAIN log' /\ DOMAIN log \subseteq Int /\ n \in DOMAIN log' /\ n \in Int
      /\ \A x \in DOMAIN log : x < n
  BY <1>1
<1> HIDE DEF n
<1>3. queue' \in Seq(DOMAIN log') /\ ToSet(queue') = ToSet(queue) \cup {n}
  <2>1. queue \in Seq(DOMAIN log')
    BY <1>2, SeqWiden DEF Order
  <2> QED
    BY <1>1, <1>2, <2>1, AppendHas
<1>4. Increasing(queue')
  <2>1. queue \in Seq(Int) /\ \A x \in ToSet(queue) : x < n
    BY <1>2, SeqWiden DEF Order, ToSet
  <2> QED
    BY <1>1, <1>2, <2>1, AppendIncreases DEF Order
<1>5. rows' \in Seq(DOMAIN log') /\ Below(rows', queue')
  <2>1. \A x \in ToSet(rows) : x < n
    BY <1>2 DEF Order, ToSet
  <2> QED
    BY <1>1, <1>2, <1>3, <2>1, SeqWiden DEF Order, Below
<1>6. ASSUME NEW i \in DOMAIN thread
      PROVE  thread[i].events \in Seq(DOMAIN log') /\ Below(thread[i].events, queue')
  <2>1. \A x \in ToSet(thread[i].events) : x < n
    BY <1>2 DEF Order, ToSet
  <2> QED
    BY <1>1, <1>2, <1>3, <2>1, SeqWiden DEF Order, Below
<1>7. ASSUME NEW e \in DOMAIN log' PROVE e \in lost <=> ~Held(e)'
  BY <1>1, <1>2, <1>3 DEF Order, Held
<1> QED
  BY <1>1, <1>2, <1>3, <1>4, <1>5, <1>6, <1>7 DEF Order

(* A task hands over what is queued.                                        *)
LEMMA OrderTakes ==
  ASSUME Order, NEW w \in Who, Insert(w), DOMAIN log \subseteq Ids, UNCHANGED <<rows, lost, log>>
  PROVE  Order' /\ thread' \in Seq(Ops)
<1> DEFINE p == Op(w, "insert", queue)
<1>1. p \in Ops /\ p.events = queue /\ p.op = "insert"
  BY SeqWiden, OpTyped DEF Order, Work
<1>2. thread' = Append(thread, p) /\ queue' = <<>>
  BY DEF Insert
<1> HIDE DEF p
<1>3. /\ thread' \in Seq(Ops) /\ Len(thread') = Len(thread) + 1 /\ thread'[Len(thread')] = p
      /\ \A i \in 1..Len(thread) : thread'[i] = thread[i]
      /\ DOMAIN thread = 1..Len(thread) /\ DOMAIN thread' = 1..Len(thread') /\ Len(thread) \in Nat
  BY <1>1, <1>2 DEF Order
<1>4. \A i \in DOMAIN thread' : i = Len(thread') \/ (i \in DOMAIN thread /\ i < Len(thread'))
  BY <1>3
<1>5. ToSet(queue') = {} /\ Increasing(queue') /\ queue' \in Seq(DOMAIN log)
  BY <1>2, EmptyHas
<1>6. ASSUME NEW i \in DOMAIN thread'
      PROVE  /\ thread'[i].events \in Seq(DOMAIN log) /\ Increasing(thread'[i].events)
             /\ Below(rows, thread'[i].events)
             /\ thread'[i].op # "insert" => thread'[i].events = <<>>
  BY <1>1, <1>3, <1>4 DEF Order
<1>7. ASSUME NEW i \in DOMAIN thread', NEW j \in DOMAIN thread', i < j
      PROVE  Below(thread'[i].events, thread'[j].events)
  <2>1. i \in DOMAIN thread
    BY <1>3, <1>7
  <2> QED
    BY <1>1, <1>3, <1>4, <1>7, <2>1 DEF Order
<1>8. ASSUME NEW e \in DOMAIN log PROVE Held(e)' <=> Held(e)
  <2>1. Len(thread') \in DOMAIN thread' /\ \A i \in DOMAIN thread : i \in DOMAIN thread'
    BY <1>3
  <2> QED
    BY <1>1, <1>3, <1>4, <1>5, <2>1 DEF Held
<1> QED
  BY <1>3, <1>5, <1>6, <1>7, <1>8 DEF Order, Below

(* At the end of a connection or of the process the committed rows stay.    *)
LEMMA OrderEnds ==
  ASSUME TypeOK, Order, rows' = SubSeq(rows, 1, durable), thread' = <<>>, UNCHANGED log,
         UNCHANGED queue \/ queue' = <<>>,
         lost' = (DOMAIN log) \ (ToSet(rows') \cup ToSet(queue'))
  PROVE  Order'
<1>1. /\ rows' \in Seq(DOMAIN log) /\ ToSet(rows') \subseteq ToSet(rows)
      /\ \A i \in DOMAIN rows' : i \in DOMAIN rows /\ rows'[i] = rows[i]
  <2>1. durable \in 0..Len(rows) /\ rows \in Seq(DOMAIN log)
    BY DEF TypeOK, Order
  <2> QED
    BY <2>1, SplitAt
<1>2. Increasing(rows')
  BY <1>1 DEF Order, Increasing
<1>3. queue' \in Seq(DOMAIN log) /\ Increasing(queue') /\ Below(rows', queue')
  <2>1. CASE queue' = queue
    BY <1>1, <2>1 DEF Order, Below
  <2>2. CASE queue' = <<>>
    BY <2>2, EmptyHas DEF Below
  <2> QED
    BY <2>1, <2>2
<1> QED
  BY <1>1, <1>2, <1>3 DEF Order, Held

(* What each action does to the events on their way.                        *)
LEMMA ThreadTyped ==
  ASSUME TypeOK, Order
  PROVE  /\ thread \in Seq(Ops) /\ DOMAIN log \subseteq Int /\ DOMAIN log \subseteq Ids
         /\ rows \in Seq(DOMAIN log) /\ rows \o <<>> = rows
         /\ lost \cup ToSet(<<>>) = lost
         /\ thread # <<>> => /\ 1 \in DOMAIN thread /\ Head(thread) = thread[1]
                             /\ Task = thread[1].who /\ Task \in Who
                             /\ thread[1].events \in Seq(DOMAIN log)
                             /\ thread[1].op # "insert" => thread[1].events = <<>>
<1>1. thread \in Seq(Ops) /\ rows \in Seq(DOMAIN log)
  BY DEF Order
<1>2. ASSUME thread # <<>>
      PROVE  /\ 1 \in DOMAIN thread /\ Head(thread) = thread[1] /\ thread[1] \in Ops
  BY <1>1, <1>2
<1>3. thread # <<>> => /\ Task = thread[1].who /\ Task \in Who
                       /\ thread[1].events \in Seq(DOMAIN log)
                       /\ thread[1].op # "insert" => thread[1].events = <<>>
  BY <1>2 DEF Ops, Task, Order
<1>4. ToSet(<<>>) = {}
  BY EmptyHas
<1>5. DOMAIN log \subseteq Int /\ DOMAIN log \subseteq Ids
  BY LogTyped
<1>6. rows \o <<>> = rows
  BY <1>1
<1> QED
  BY <1>1, <1>2, <1>3, <1>4, <1>5, <1>6

LEMMA EmptyAdvances ==
  ASSUME TypeOK, Order, NEW d \in {0, 1}, d = 1 => thread # <<>> /\ thread[1].events = <<>>,
         Moved(d), UNCHANGED <<rows, lost, queue, log>>
  PROVE  Advances(d, <<>>, <<>>)
  BY EmptyHas, ThreadTyped DEF Advances, Below

LEMMA InsertAdvances ==
  ASSUME TypeOK, Order, RunsInsert
  PROVE  Advances(1, Head(thread).events, <<>>)
<1> DEFINE es == thread[1].events
<1>1. /\ thread # <<>> /\ rows' = rows \o es /\ lost' = lost
      /\ UNCHANGED <<queue, log>> /\ thread[1] = Head(thread)
  BY ThreadTyped DEF RunsInsert, Runs
<1>2. Moved(1)
  <2>1. CASE thread' = Tail(thread)
    BY <1>1, <2>1, ThreadTyped, MovedTail
  <2>2. CASE thread' = Append(Tail(thread), Op(Task, "commit", <<>>))
    BY <1>1, <2>2, ThreadTyped, MovedThen DEF Work
  <2> QED
    BY <2>1, <2>2 DEF RunsInsert, Done, Then
<1>3. es \in Seq(DOMAIN log) /\ Increasing(es)
  BY <1>1, ThreadTyped DEF Order
<1>4. ToSet(es) \cup ToSet(<<>>) = ToSet(es) /\ Below(es, <<>>)
  BY EmptyHas DEF Below
<1> HIDE DEF es
<1>5. Advances(1, es, <<>>)
  BY <1>1, <1>2, <1>3, <1>4, ThreadTyped DEF Advances, es
<1> QED
  BY <1>1, <1>5 DEF es

LEMMA FailsAdvances ==
  ASSUME TypeOK, Order, FailsInsert
  PROVE  \E a, b : Advances(1, a, b)
<1> DEFINE es == thread[1].events
<1>1. thread # <<>> /\ UNCHANGED <<queue, log>> /\ thread[1] = Head(thread) /\ thread' = Tail(thread)
  BY ThreadTyped DEF FailsInsert, Runs, Done
<1>2. PICK k \in 0..(Len(es) - 1) :
        /\ rows' = rows \o SubSeq(es, 1, k)
        /\ lost' = lost \cup ToSet(SubSeq(es, k + 1, Len(es)))
  BY <1>1 DEF FailsInsert
<1> DEFINE a == SubSeq(es, 1, k)
           b == SubSeq(es, k + 1, Len(es))
<1>3. Moved(1)
  BY <1>1, ThreadTyped, MovedTail
<1>4. es \in Seq(DOMAIN log) /\ Increasing(es) /\ DOMAIN es = 1..Len(es) /\ Len(es) \in Nat
  BY <1>1, ThreadTyped DEF Order
<1>5. k \in 0..Len(es)
  BY <1>2, <1>4
<1> HIDE DEF es
<1>6. /\ a \in Seq(DOMAIN log) /\ b \in Seq(DOMAIN log) /\ ToSet(es) = ToSet(a) \cup ToSet(b)
      /\ \A i \in DOMAIN a : i \in DOMAIN es /\ a[i] = es[i]
      /\ ToSet(a) = {es[i] : i \in 1..k} /\ ToSet(b) = {es[i] : i \in (k + 1)..Len(es)}
  <2>1. es \in Seq(DOMAIN log) /\ k \in 0..Len(es)
    BY <1>4, <1>5
  <2> QED
    BY ONLY <2>1, SplitAt
<1>7. Increasing(a)
  BY <1>4, <1>6 DEF Increasing
<1>8. Below(a, b)
  <2>1. \A i \in 1..k, j \in (k + 1)..Len(es) : es[i] < es[j]
    BY <1>4, <1>5 DEF Increasing
  <2> QED
    BY <1>6, <2>1 DEF Below
<1>9. rows' = rows \o a /\ lost' = lost \cup ToSet(b)
  BY <1>2
<1> HIDE DEF a, b
<1>10. Advances(1, a, b)
  BY <1>1, <1>3, <1>6, <1>7, <1>8, <1>9 DEF Advances, es
<1> QED
  BY <1>10

LEMMA PlainAdvances ==
  ASSUME TypeOK, Order, RunsCommit \/ RunsSelect \/ RunsFetch
  PROVE  Advances(1, <<>>, <<>>)
<1>1. /\ thread # <<>> /\ thread[1].events = <<>> /\ UNCHANGED <<queue, log, rows, lost>>
  BY ThreadTyped DEF RunsCommit, RunsSelect, RunsFetch, Runs
<1>2. \/ thread' = Tail(thread)
      \/ \E o \in {"select", "fetch"} : thread' = Append(Tail(thread), Op(Task, o, <<>>))
      \/ Closing(Tail(thread))
  BY DEF RunsCommit, RunsSelect, RunsFetch, Done, Then
<1>3. CASE thread' = Tail(thread)
  BY <1>1, <1>3, ThreadTyped, MovedTail, EmptyAdvances
<1>4. CASE \E o \in {"select", "fetch"} : thread' = Append(Tail(thread), Op(Task, o, <<>>))
  <2>1. PICK o \in {"select", "fetch"} : thread' = Append(Tail(thread), Op(Task, o, <<>>))
    BY <1>4
  <2>2. Moved(1)
    BY <1>1, <2>1, ThreadTyped, MovedThen DEF Work
  <2> QED
    BY <1>1, <2>2, EmptyAdvances
<1>5. CASE Closing(Tail(thread))
  <2>1. Moved(1)
    BY <1>1, <1>5, ThreadTyped, MovedClosing
  <2> QED
    BY <1>1, <2>1, EmptyAdvances
<1> QED
  BY <1>2, <1>3, <1>4, <1>5

(* A reader's flush and the end of the write loop: an operation joins the   *)
(* others, which stay.                                                      *)
LEMMA JoinsAdvances ==
  ASSUME TypeOK, Order, UNCHANGED <<rows, lost, queue, log>>,
         \/ \E r \in Readers : thread' = Append(thread, Op(r, "select", <<>>))
         \/ Closing(thread)
  PROVE  Advances(0, <<>>, <<>>)
<1>1. CASE Closing(thread)
  BY <1>1, ThreadTyped, MovedClosing, EmptyAdvances
<1>2. CASE \E r \in Readers : thread' = Append(thread, Op(r, "select", <<>>))
  <2>1. PICK r \in Readers : thread' = Append(thread, Op(r, "select", <<>>))
    BY <1>2
  <2>2. Moved(0)
    BY <2>1, ThreadTyped, MovedNext DEF Work, Who
  <2> QED
    BY <2>2, EmptyAdvances
<1> QED
  BY <1>1, <1>2

-------------------------------------------------------------------------------
(* Readers of the past                                                      *)

(* Who reads has one operation with the connection, and all operations that *)
(* read are a reader's.                                                     *)
ReaderOps ==
  /\ \A i \in DOMAIN thread :
       /\ thread[i].op \in {"select", "fetch"} => thread[i].who \in Readers
       /\ thread[i].who \in Readers => pc[thread[i].who] = "reading"
  /\ \A i, j \in DOMAIN thread : thread[i].who \in Readers /\ thread[i].who = thread[j].who => i = j

(* Whatever happened before a reader asked is in front of its operation or  *)
(* lost; once its select ran, it is among the rows that this found.         *)
Ahead(e, i) == e \in lost \/ e \in ToSet(rows) \/ \E j \in 1..i : e \in ToSet(thread[j].events)
Found(e, r) == e \in lost \/ \E k \in 1..seen[r] : rows[k] = e
PastRead ==
  \A i \in DOMAIN thread, r \in Readers : thread[i].who = r => \A e \in 1..asked[r] :
    /\ thread[i].op \in {"insert", "commit", "select"} => Ahead(e, i)
    /\ thread[i].op = "fetch" => Found(e, r)

(* The operation that follows the one that ran.                             *)
Follows(d) ==
  \A i \in DOMAIN thread' : i + d \notin DOMAIN thread =>
    \/ thread'[i].who \notin Readers /\ thread'[i].op \notin {"select", "fetch"}
    \/ \E r \in Readers :
         /\ d = 1 /\ r = thread[1].who /\ thread'[i].who = r /\ pc'[r] = "reading"
         /\ \/ /\ thread'[i].op \in {"commit", "select"}
               /\ \A e \in 1..asked[r] : e \in lost' \/ e \in ToSet(rows')
            \/ thread'[i].op = "fetch" /\ \A e \in 1..asked[r] : Found(e, r)'

LEMMA ReadsMove ==
  ASSUME TypeOK, Order, ReaderOps, PastRead, NEW d, NEW a, NEW b, Advances(d, a, b), Follows(d),
         UNCHANGED asked,
         \A r \in Readers : \/ d = 1 /\ r = thread[1].who
                            \/ pc'[r] = pc[r] /\ seen'[r] = seen[r]
  PROVE  ReaderOps' /\ PastRead'
<1>0. /\ d \in {0, 1} /\ (d = 1 => thread # <<>>) /\ Moved(d)
      /\ a \in Seq(DOMAIN log) /\ b \in Seq(DOMAIN log)
      /\ ToSet(a) \cup ToSet(b) = IF d = 1 THEN ToSet(thread[1].events) ELSE {}
      /\ rows' = rows \o a /\ lost' = lost \cup ToSet(b) /\ UNCHANGED <<queue, log>>
  BY DEF Advances
<1>1. /\ DOMAIN thread = 1..Len(thread) /\ Len(thread) \in Nat
      /\ DOMAIN thread' = 1..Len(thread') /\ Len(thread') \in Nat
      /\ d \in Int /\ (d = 0 \/ d = 1) /\ (d = 1 => 1 \in DOMAIN thread)
  BY <1>0 DEF Order, Moved
<1> DEFINE Stays(i) == /\ i + d \in DOMAIN thread /\ thread'[i].events = thread[i + d].events
                       /\ thread'[i].op = thread[i + d].op
                       /\ \/ thread'[i].who = thread[i + d].who
                          \/ thread[i + d].who = "writer" /\ thread'[i].who = "cancelled"
           New(i) == i + d \notin DOMAIN thread /\ i = Len(thread')
<1>2. \A i \in DOMAIN thread' : Stays(i) \/ New(i)
  BY <1>0 DEF Moved
<1>3. "cancelled" \notin Readers /\ "writer" \notin Readers
  BY EventBusAssumption DEF Readers
<1>4. ASSUME NEW i \in DOMAIN thread', Stays(i), thread'[i].who \in Readers
      PROVE  /\ thread'[i].who = thread[i + d].who
             /\ d = 1 => thread'[i].who # thread[1].who
             /\ pc'[thread'[i].who] = pc[thread'[i].who] /\ seen'[thread'[i].who] = seen[thread'[i].who]
  <2>1. thread'[i].who = thread[i + d].who
    BY <1>3, <1>4
  <2>2. d = 1 => i + d # 1
    BY <1>1
  <2>3. d = 1 => thread'[i].who # thread[1].who
    BY <1>1, <1>4, <2>1, <2>2 DEF ReaderOps
  <2> QED
    BY <1>4, <2>1, <2>3
<1>5. ReaderOps'
  <2>1. ASSUME NEW i \in DOMAIN thread'
        PROVE  /\ thread'[i].op \in {"select", "fetch"} => thread'[i].who \in Readers
               /\ thread'[i].who \in Readers => pc'[thread'[i].who] = "reading"
    <3>1. CASE Stays(i)
      <4>1. thread'[i].op \in {"select", "fetch"} => thread'[i].who \in Readers
        BY <1>3, <3>1 DEF ReaderOps
      <4>2. thread'[i].who \in Readers => pc'[thread'[i].who] = "reading"
        BY <1>4, <3>1 DEF ReaderOps
      <4> QED
        BY <4>1, <4>2
    <3>2. CASE New(i)
      BY <3>2 DEF Follows
    <3> QED
      BY <1>2, <3>1, <3>2
  <2>2. ASSUME NEW i \in DOMAIN thread', NEW j \in DOMAIN thread',
               thread'[i].who \in Readers, thread'[i].who = thread'[j].who
        PROVE  i = j
    <3>1. CASE Stays(i) /\ Stays(j)
      <4>1. i + d = j + d
        BY <1>4, <2>2, <3>1 DEF ReaderOps
      <4> QED
        BY <1>1, <4>1
    <3>2. CASE New(i) /\ New(j)
      BY <3>2
    <3>3. CASE Stays(i) /\ New(j)
      BY <1>4, <2>2, <3>3 DEF Follows
    <3>4. CASE New(i) /\ Stays(j)
      BY <1>4, <2>2, <3>4 DEF Follows
    <3> QED
      BY <1>2, <3>1, <3>2, <3>3, <3>4
  <2> QED
    BY <2>1, <2>2 DEF ReaderOps
<1>6. ToSet(rows') = ToSet(rows) \cup ToSet(a)
  BY <1>0, ConcatHas DEF Order
<1>7. ASSUME NEW i \in DOMAIN thread', Stays(i), NEW e, Ahead(e, i + d) PROVE Ahead(e, i)'
  <2>1. CASE e \in lost \/ e \in ToSet(rows)
    BY <1>0, <1>6, <2>1 DEF Ahead
  <2>2. ASSUME NEW j \in 1..(i + d), e \in ToSet(thread[j].events) PROVE Ahead(e, i)'
    <3>1. j \in DOMAIN thread
      BY <1>1, <1>7
    <3>2. CASE j > d
      <4>1. j - d \in 1..i /\ thread'[j - d].events = thread[j].events
        BY <1>0, <1>1, <3>1, <3>2 DEF Moved
      <4> QED
        BY <2>2, <4>1 DEF Ahead
    <3>3. CASE ~(j > d)
      <4>1. d = 1 /\ j = 1
        BY <1>1, <3>1, <3>3
      <4> QED
        BY <1>0, <1>6, <2>2, <4>1 DEF Ahead
    <3> QED
      BY <3>2, <3>3
  <2> QED
    BY <1>7, <2>1, <2>2 DEF Ahead
<1>8. ASSUME NEW r \in Readers, NEW e, Found(e, r), seen'[r] = seen[r] PROVE Found(e, r)'
  <2>1. \A k \in 1..seen[r] : rows'[k] = rows[k]
    <3>1. seen[r] \in 0..Len(rows) /\ rows \in Seq(DOMAIN log)
      BY DEF TypeOK, Order
    <3> QED
      BY <1>0, <3>1
  <2> QED
    BY <1>0, <1>8, <2>1 DEF Found
<1>9. ASSUME NEW i \in DOMAIN thread', NEW r \in Readers, thread'[i].who = r, NEW e \in 1..asked[r]
      PROVE  /\ thread'[i].op \in {"insert", "commit", "select"} => Ahead(e, i)'
             /\ thread'[i].op = "fetch" => Found(e, r)'
  <2>1. CASE Stays(i)
    <3>1. /\ thread[i + d].who = r /\ i + d \in DOMAIN thread
          /\ thread[i + d].op = thread'[i].op /\ seen'[r] = seen[r]
      BY <1>4, <1>9, <2>1
    <3>2. /\ thread[i + d].op \in {"insert", "commit", "select"} => Ahead(e, i + d)
          /\ thread[i + d].op = "fetch" => Found(e, r)
      BY <1>9, <3>1 DEF PastRead
    <3> QED
      BY <1>7, <1>8, <2>1, <3>1, <3>2
  <2>2. CASE New(i)
    <3>1. \/ thread'[i].op \in {"commit", "select"} /\ (e \in lost' \/ e \in ToSet(rows'))
          \/ thread'[i].op = "fetch" /\ Found(e, r)'
      BY <1>9, <2>2 DEF Follows
    <3>2. (e \in lost' \/ e \in ToSet(rows')) => Ahead(e, i)'
      BY DEF Ahead
    <3> QED
      BY <3>1, <3>2
  <2> QED
    BY <1>2, <2>1, <2>2
<1>10. PastRead'
  BY <1>9 DEF PastRead
<1> QED
  BY <1>5, <1>10

(* What follows the operation that ran, for each kind of operation.         *)
LEMMA NoneFollows ==
  ASSUME thread \in Seq(Ops), thread # <<>>, thread' = Tail(thread)
  PROVE  Follows(1)
<1>1. \A i \in DOMAIN thread' : i + 1 \in DOMAIN thread
  BY TailMoves
<1> QED
  BY <1>1 DEF Follows

LEMMA LastOp ==
  ASSUME thread \in Seq(Ops), thread # <<>>, NEW t \in Seq(Ops), Len(t) = Len(thread) - 1,
         NEW p \in Ops, thread' = Append(t, p), NEW i \in DOMAIN thread', i + 1 \notin DOMAIN thread
  PROVE  thread'[i] = p
<1>1. DOMAIN thread = 1..Len(thread) /\ Len(thread) \in Nat /\ Len(t) \in Nat
  OBVIOUS
<1>2. Len(thread') = Len(t) + 1 /\ DOMAIN thread' = 1..(Len(t) + 1) /\ thread'[Len(t) + 1] = p
  OBVIOUS
<1>3. i = Len(t) + 1
  BY <1>1, <1>2
<1> QED
  BY <1>2, <1>3

LEMMA TailLast ==
  ASSUME thread \in Seq(Ops), thread # <<>>, NEW p \in Ops, thread' = Append(Tail(thread), p)
  PROVE  \A i \in DOMAIN thread' : i + 1 \notin DOMAIN thread => thread'[i] = p
<1> DEFINE t == Tail(thread)
<1>1. /\ t \in Seq(Ops) /\ Len(t) = Len(thread) - 1 /\ thread' = Append(t, p)
      /\ DOMAIN thread = 1..Len(thread) /\ Len(thread) \in Nat
  BY TailMoves
<1> HIDE DEF t
<1>2. /\ DOMAIN thread' = 1..(Len(t) + 1) /\ thread'[Len(t) + 1] = p
  BY ONLY <1>1, Pushed
<1>3. ASSUME NEW i \in DOMAIN thread', i + 1 \notin DOMAIN thread PROVE i = Len(t) + 1
  BY ONLY <1>1, <1>2, <1>3
<1> QED
  BY ONLY <1>2, <1>3

LEMMA HeadReads ==
  ASSUME TypeOK, Order, ReaderOps, PastRead, thread # <<>>, thread[1].who \in Readers,
         thread[1].op \in {"insert", "commit", "select"}, NEW e \in 1..asked[thread[1].who]
  PROVE  /\ pc[thread[1].who] = "reading"
         /\ e \in lost \/ e \in ToSet(rows) \/ e \in ToSet(thread[1].events)
<1>1. 1 \in DOMAIN thread /\ Ahead(e, 1)
  BY ThreadTyped DEF PastRead
<1> QED
  BY <1>1 DEF ReaderOps, Ahead

LEMMA InsertFollows ==
  ASSUME TypeOK, Order, ReaderOps, PastRead, RunsInsert
  PROVE  Follows(1)
<1> DEFINE p == Op(Task, "commit", <<>>)
<1>1. /\ thread # <<>> /\ thread \in Seq(Ops) /\ thread[1].op = "insert" /\ Task = thread[1].who /\ Task \in Who
      /\ rows' = rows \o thread[1].events /\ lost' = lost /\ pc' = pc
  BY ThreadTyped DEF RunsInsert, Runs
<1>2. p \in Ops /\ p.who = thread[1].who /\ p.op = "commit"
  BY <1>1, EmptyOp DEF Work
<1>3. CASE thread' = Tail(thread)
  BY <1>1, <1>3, NoneFollows
<1>4. CASE thread' = Append(Tail(thread), p)
  <2> SUFFICES ASSUME NEW i \in DOMAIN thread', i + 1 \notin DOMAIN thread, thread[1].who \in Readers
               PROVE  /\ thread'[i].who = thread[1].who /\ pc'[thread[1].who] = "reading"
                      /\ thread'[i].op \in {"commit", "select"}
                      /\ \A e \in 1..asked[thread[1].who] : e \in lost' \/ e \in ToSet(rows')
    <3>1. \A i \in DOMAIN thread' : i + 1 \notin DOMAIN thread => thread'[i] = p
      BY ONLY <1>1, <1>2, <1>4, TailLast
    <3> QED
      BY <1>2, <3>1 DEF Follows
  <2>1. thread'[i] = p
    <3>1. \A k \in DOMAIN thread' : k + 1 \notin DOMAIN thread => thread'[k] = p
      BY ONLY <1>1, <1>2, <1>4, TailLast
    <3> QED
      BY <3>1
  <2>2. ToSet(rows') = ToSet(rows) \cup ToSet(thread[1].events)
    BY <1>1, ThreadTyped, ConcatHas
  <2>3. pc[thread[1].who] = "reading"
    BY <1>1, ThreadTyped DEF ReaderOps
  <2>4. \A e \in 1..asked[thread[1].who] : e \in lost' \/ e \in ToSet(rows')
    BY <1>1, <2>2, HeadReads
  <2> QED
    BY <1>1, <1>2, <2>1, <2>3, <2>4
<1> QED
  BY <1>3, <1>4 DEF RunsInsert, Done, Then

LEMMA CommitFollows ==
  ASSUME TypeOK, Order, ReaderOps, PastRead, RunsCommit
  PROVE  Follows(1)
<1>1. /\ thread # <<>> /\ thread \in Seq(Ops) /\ thread[1].op = "commit" /\ Task = thread[1].who /\ Task \in Who
      /\ rows' = rows /\ lost' = lost /\ pc' = pc /\ thread[1].events = <<>>
  BY ThreadTyped DEF RunsCommit, Runs
<1>2. CASE thread' = Tail(thread)
  BY <1>1, <1>2, NoneFollows
<1>3. CASE Closing(Tail(thread))
  <2> DEFINE p == Op("closer", "close", <<>>)
             t == Cancelled(Tail(thread))
  <2>1. p \in Ops /\ p.who = "closer" /\ p.op = "close"
    BY EmptyOp DEF Work, Who
  <2>2. t \in Seq(Ops) /\ Len(t) = Len(thread) - 1
    BY <1>1, TailMoves, CancelledOps
  <2>3. thread' = Append(t, p)
    BY <1>3 DEF Closing
  <2> HIDE DEF p, t
  <2>4. \A i \in DOMAIN thread' : i + 1 \notin DOMAIN thread => thread'[i] = p
    BY <1>1, <2>1, <2>2, <2>3, LastOp
  <2>5. "closer" \notin Readers
    BY EventBusAssumption DEF Readers
  <2> QED
    BY <2>1, <2>4, <2>5 DEF Follows
<1>4. CASE Task \in Readers /\ thread' = Append(Tail(thread), Op(Task, "select", <<>>))
  <2> DEFINE p == Op(Task, "select", <<>>)
  <2>1. p \in Ops /\ p.who = thread[1].who /\ p.op = "select"
    BY <1>1, EmptyOp DEF Work
  <2>2. thread' = Append(Tail(thread), p)
    BY <1>4
  <2> HIDE DEF p
  <2>3. \A i \in DOMAIN thread' : i + 1 \notin DOMAIN thread => thread'[i] = p
    BY ONLY <1>1, <2>1, <2>2, TailLast
  <2>4. pc'[thread[1].who] = "reading"
    BY <1>1, <1>4, ThreadTyped DEF ReaderOps
  <2>5. \A e \in 1..asked[thread[1].who] : e \in lost' \/ e \in ToSet(rows')
    BY <1>1, <1>4, HeadReads, EmptyHas
  <2> QED
    BY <1>1, <1>4, <2>1, <2>3, <2>4, <2>5 DEF Follows
<1> QED
  BY <1>2, <1>3, <1>4 DEF RunsCommit, Done, Then

LEMMA SelectFollows ==
  ASSUME TypeOK, Order, ReaderOps, PastRead, RunsSelect
  PROVE  Follows(1) /\ Task \in Readers
<1>1. /\ thread # <<>> /\ thread \in Seq(Ops) /\ thread[1].op = "select" /\ Task = thread[1].who /\ Task \in Who
      /\ rows' = rows /\ lost' = lost /\ pc' = pc /\ thread[1].events = <<>> /\ 1 \in DOMAIN thread
      /\ seen' = [seen EXCEPT ![Task] = Len(rows)]
  BY ThreadTyped DEF RunsSelect, Runs
<1> DEFINE p == Op(Task, "fetch", <<>>)
<1>2. p \in Ops /\ p.who = thread[1].who /\ p.op = "fetch"
  BY <1>1, EmptyOp DEF Work
<1>3. thread' = Append(Tail(thread), p)
  BY DEF RunsSelect, Then
<1> HIDE DEF p
<1>4. \A i \in DOMAIN thread' : i + 1 \notin DOMAIN thread => thread'[i] = p
  BY ONLY <1>1, <1>2, <1>3, TailLast
<1>5. Task \in Readers /\ pc'[Task] = "reading"
  BY <1>1 DEF ReaderOps
<1>6. seen'[Task] = Len(rows) /\ Len(rows) \in Nat
  BY <1>1, <1>5 DEF TypeOK
<1>7. ASSUME NEW r \in Readers, r = Task, NEW e \in 1..asked[r] PROVE Found(e, r)'
  <2>1. e \in lost \/ e \in ToSet(rows)
    BY <1>1, <1>7, HeadReads, EmptyHas
  <2>2. \A k \in DOMAIN rows : k \in 1..Len(rows)
    BY DEF TypeOK
  <2> QED
    BY <1>1, <1>6, <1>7, <2>1, <2>2 DEF ToSet, Found
<1> QED
  BY <1>1, <1>2, <1>4, <1>5, <1>7 DEF Follows

(* The end of the write loop joins the operations.                          *)
LEMMA ClosingFollows ==
  ASSUME thread \in Seq(Ops), Closing(thread)
  PROVE  Follows(0)
<1> DEFINE p == Op("closer", "close", <<>>)
           t == Cancelled(thread)
<1>1. p.who = "closer" /\ p.op = "close" /\ p \in Ops
  BY EmptyOp DEF Work, Who
<1>2. t \in Seq(Ops) /\ Len(t) = Len(thread) /\ Len(thread) \in Nat /\ DOMAIN thread = 1..Len(thread)
  BY CancelledOps
<1>3. thread' = Append(t, p)
  BY DEF Closing
<1> HIDE DEF p, t
<1>4. /\ DOMAIN thread' = 1..(Len(thread) + 1) /\ thread'[Len(thread) + 1] = p
  BY <1>1, <1>2, <1>3
<1>5. \A i \in DOMAIN thread' : i + 0 \notin DOMAIN thread => i = Len(thread) + 1
  BY <1>2, <1>4
<1>6. "closer" \notin Readers
  BY EventBusAssumption DEF Readers
<1> QED
  BY <1>1, <1>4, <1>5, <1>6 DEF Follows

(* Steps that leave the connection alone, that hand it an operation, and    *)
(* that end it.                                                             *)
LEMMA ReadsStay ==
  ASSUME ReaderOps, PastRead, UNCHANGED <<thread, rows, lost, seen>>,
         \A r \in Readers : pc[r] = "reading" => pc'[r] = "reading" /\ asked'[r] = asked[r]
  PROVE  ReaderOps' /\ PastRead'
<1>1. ReaderOps'
  BY DEF ReaderOps
<1>2. ASSUME NEW i \in DOMAIN thread, NEW r \in Readers, thread[i].who = r, NEW e \in 1..asked'[r]
      PROVE  /\ thread[i].op \in {"insert", "commit", "select"} => Ahead(e, i)'
             /\ thread[i].op = "fetch" => Found(e, r)'
  <2>1. e \in 1..asked[r]
    BY <1>2 DEF ReaderOps
  <2>2. /\ thread[i].op \in {"insert", "commit", "select"} => Ahead(e, i)
        /\ thread[i].op = "fetch" => Found(e, r)
    BY <1>2, <2>1 DEF PastRead
  <2>3. (Ahead(e, i) => Ahead(e, i)') /\ (Found(e, r) => Found(e, r)')
    BY DEF Ahead, Found
  <2> QED
    BY <2>2, <2>3
<1>3. PastRead'
  BY <1>2 DEF PastRead
<1> QED
  BY <1>1, <1>3

LEMMA ReadsEnd ==
  ASSUME thread' = <<>>
  PROVE  ReaderOps' /\ PastRead'
  BY DEF ReaderOps, PastRead

LEMMA ReadsJoin ==
  ASSUME TypeOK, Order, ReaderOps, PastRead, NEW p \in Ops, thread' = Append(thread, p),
         ToSet(p.events) = ToSet(queue), UNCHANGED <<rows, lost, seen>>,
         \/ p.who \notin Readers /\ p.op = "insert" /\ UNCHANGED <<pc, asked>>
         \/ /\ p.who \in Readers /\ p.op \in {"insert", "select"} /\ pc[p.who] # "reading"
            /\ pc' = [pc EXCEPT ![p.who] = "reading"]
            /\ asked' = [asked EXCEPT ![p.who] = Len(log)]
  PROVE  ReaderOps' /\ PastRead'
<1>1. /\ thread' \in Seq(Ops) /\ Len(thread') = Len(thread) + 1 /\ thread'[Len(thread')] = p
      /\ \A i \in 1..Len(thread) : thread'[i] = thread[i]
      /\ DOMAIN thread = 1..Len(thread) /\ DOMAIN thread' = 1..Len(thread') /\ Len(thread) \in Nat
  BY DEF Order
<1>2. \A i \in DOMAIN thread' : i = Len(thread') \/ i \in DOMAIN thread
  BY <1>1
<1>3. \A i \in DOMAIN thread : thread[i].who \in Readers => thread[i].who # p.who
  BY DEF ReaderOps
<1>4. p.who \in Readers => pc'[p.who] = "reading" /\ asked'[p.who] = Len(log)
  BY DEF TypeOK
<1>5. \A r \in Readers : r # p.who => pc'[r] = pc[r] /\ asked'[r] = asked[r]
  BY DEF TypeOK
<1>6. ReaderOps'
  <2>1. ASSUME NEW i \in DOMAIN thread'
        PROVE  /\ thread'[i].op \in {"select", "fetch"} => thread'[i].who \in Readers
               /\ thread'[i].who \in Readers => pc'[thread'[i].who] = "reading"
    BY <1>1, <1>2, <1>3, <1>4, <1>5 DEF ReaderOps
  <2>2. ASSUME NEW i \in DOMAIN thread', NEW j \in DOMAIN thread',
               thread'[i].who \in Readers, thread'[i].who = thread'[j].who
        PROVE  i = j
    BY <1>1, <1>2, <1>3, <2>2 DEF ReaderOps
  <2> QED
    BY <2>1, <2>2 DEF ReaderOps
<1>7. ASSUME NEW i \in DOMAIN thread', NEW r \in Readers, thread'[i].who = r, NEW e \in 1..asked'[r]
      PROVE  /\ thread'[i].op \in {"insert", "commit", "select"} => Ahead(e, i)'
             /\ thread'[i].op = "fetch" => Found(e, r)'
  <2>1. CASE i \in DOMAIN thread
    <3>1. thread[i].who = r /\ thread'[i] = thread[i] /\ e \in 1..asked[r]
      BY <1>1, <1>3, <1>5, <1>7, <2>1
    <3>2. /\ thread[i].op \in {"insert", "commit", "select"} => Ahead(e, i)
          /\ thread[i].op = "fetch" => Found(e, r)
      BY <2>1, <3>1 DEF PastRead
    <3>3. \A j \in 1..i : thread'[j] = thread[j]
      BY <1>1, <2>1
    <3>4. (Ahead(e, i) => Ahead(e, i)') /\ (Found(e, r) => Found(e, r)')
      BY <3>3 DEF Ahead, Found
    <3> QED
      BY <3>1, <3>2, <3>4
  <2>2. CASE i = Len(thread')
    <3>1. thread'[i] = p /\ p.op \in {"insert", "select"} /\ p.who = r /\ e \in 1..Len(log)
      BY <1>1, <1>4, <1>7, <2>2
    <3>2. e \in lost \/ Held(e)
      BY <3>1, LogTyped DEF Order
    <3>3. \A j \in DOMAIN thread : j \in 1..i /\ thread'[j] = thread[j]
      BY <1>1, <2>2
    <3>4. i \in 1..i
      BY <1>1, <2>2
    <3>5. Ahead(e, i)'
      BY <3>1, <3>2, <3>3, <3>4 DEF Ahead, Held
    <3> QED
      BY <3>1, <3>5
  <2> QED
    BY <1>2, <2>1, <2>2
<1>8. PastRead'
  BY <1>7 DEF PastRead
<1> QED
  BY <1>6, <1>8

-------------------------------------------------------------------------------
(* What a select finds                                                      *)

LEMMA SeqsHave ==
  ASSUME NEW S, IsFiniteSet(S), NEW s \in SetToSeqs(S)
  PROVE  s \in Seq(S) /\ ToSet(s) = S
<1> DEFINE n == Cardinality(S)
<1>1. n \in Nat /\ IsFiniteSet(1..n) /\ Cardinality(1..n) = n
  BY FS_CardinalityType, FS_Interval
<1>2. s \in [1..n -> S] /\ \A i, j \in 1..n : i # j => s[i] # s[j]
  BY DEF SetToSeqs
<1>3. s \in Seq(S) /\ DOMAIN s = 1..n
  BY <1>1, <1>2
<1>4. s \in Injection(1..n, S)
  BY <1>2 DEF Injection, IsInjective
<1>5. s \in Surjection(1..n, S)
  BY <1>1, <1>4, FS_Injection
<1>6. ToSet(s) = S
  BY <1>2, <1>3, <1>5 DEF Surjection, ToSet
<1> QED
  BY <1>3, <1>6

Hits(r, found) == {e \in found : Matches(req[r], log[e]) /\ e > req[r].since}

LEMMA ResultHas ==
  ASSUME TypeOK, Order, NEW r \in Readers,
         NEW more \in SUBSET {rows[i] : i \in (seen[r] + 1)..Len(rows)}, NEW s \in Result(r, more)
  PROVE  /\ s \in Seq(DOMAIN log)
         /\ req[r].conv # All =>
              /\ Increasing(s)
              /\ ToSet(s) = Hits(r, {rows[i] : i \in 1..seen[r]} \cup more)
              /\ s \in SetToSeqs(Hits(r, {rows[i] : i \in 1..seen[r]} \cup more))
<1> DEFINE found == {rows[i] : i \in 1..seen[r]} \cup more
           hits == Hits(r, found)
<1>1. seen[r] \in 0..Len(rows) /\ rows \in Seq(DOMAIN log) /\ Len(rows) \in Nat
  BY DEF TypeOK, Order
<1>2. found \subseteq DOMAIN log
  BY <1>1
<1>3. IsFiniteSet(DOMAIN log)
  BY LogTyped, FS_Interval
<1>4. hits \subseteq DOMAIN log
  BY <1>2 DEF Hits
<1>5. \A T \in SUBSET hits : IsFiniteSet(T) /\ T \subseteq DOMAIN log
  BY <1>3, <1>4, FS_Subset
<1>6. IF req[r].conv # All THEN s \in SetToSeqs(hits) /\ Increasing(s)
                           ELSE \E T \in SUBSET hits : s \in SetToSeqs(T)
  BY DEF Result, Hits
<1> HIDE DEF hits, found
<1>7. CASE req[r].conv # All
  <2>1. s \in Seq(hits) /\ ToSet(s) = hits
    BY <1>5, <1>6, <1>7, SeqsHave
  <2> QED
    BY <1>4, <1>6, <1>7, <2>1, SeqWiden DEF hits, found
<1>8. CASE req[r].conv = All
  <2>1. PICK T \in SUBSET hits : s \in SetToSeqs(T)
    BY <1>6, <1>8
  <2>2. s \in Seq(T) /\ T \subseteq DOMAIN log
    BY <1>5, <2>1, SeqsHave
  <2> QED
    BY <1>8, <2>2, SeqWiden
<1> QED
  BY <1>7, <1>8

-------------------------------------------------------------------------------
(* The way of the events through the bus is kept by every step              *)

Core == TypeOK /\ Order /\ ReaderOps /\ PastRead

LEMMA StoreTyped ==
  ASSUME Order', DOMAIN log' \subseteq Ids
  PROVE  /\ rows' \in Seq(Ids) /\ queue' \in Seq(Ids) /\ lost' \in SUBSET (DOMAIN log')
         /\ thread' \in Seq([who : Readers \cup {"writer", "cancelled", "closer"},
                             op : {"insert", "commit", "select", "fetch", "close"}, events : Seq(Ids)])
         /\ Len(rows') \in Nat
<1>1. rows' \in Seq(DOMAIN log') /\ queue' \in Seq(DOMAIN log') /\ thread' \in Seq(Ops)
  BY DEF Order
<1> QED
  BY <1>1, SeqWiden DEF Order, Ops, Who, Work

LEMMA CoreEmits ==
  ASSUME Core, Emit
  PROVE  Core'
<1> USE DEF Core
<1>1. Order'
  BY OrderEmits
<1>2. /\ UNCHANGED <<state, thread, rows, durable, writer, pc, req, asked, joined, seen, backlog,
                     got, lost, errors, closes>>
      /\ Len(log') = Len(log) + 1 /\ Len(log') <= Len(Stream)
      /\ log' = SubSeq(Stream, 1, Len(log')) /\ DOMAIN log' \subseteq Ids /\ Len(log') \in Ids
      /\ Len(log) \in Nat
  BY LogTyped, EmitsLog DEF Emit
<1>3. inbox' \in [Readers -> Seq(Ids)]
  <2>1. inbox' = [r \in Readers |-> IF r \in Audience(Stream[Len(log) + 1])
                                    THEN Append(inbox[r], Len(log')) ELSE inbox[r]]
    BY DEF Emit
  <2>2. \A r \in Readers : inbox[r] \in Seq(Ids) /\ Append(inbox[r], Len(log')) \in Seq(Ids)
    BY <1>2 DEF TypeOK
  <2> QED
    BY <2>1, <2>2
<1>4. asked' \in [Readers -> 0..Len(log')] /\ joined' \in [Readers -> 0..Len(log')]
  <2>1. 0..Len(log) \subseteq 0..Len(log')
    BY <1>2
  <2> QED
    BY <1>2, <2>1 DEF TypeOK
<1>5. TypeOK'
  BY <1>1, <1>2, <1>3, <1>4, StoreTyped DEF TypeOK
<1>6. ReaderOps' /\ PastRead'
  BY <1>2, ReadsStay
<1> QED
  BY <1>1, <1>5, <1>6

LEMMA CoreTakes ==
  ASSUME Core, NEW w \in Who, Insert(w), UNCHANGED <<log, rows, lost, seen>>,
         \/ w \notin Readers /\ UNCHANGED <<pc, asked>>
         \/ /\ w \in Readers /\ pc[w] # "reading" /\ pc' = [pc EXCEPT ![w] = "reading"]
            /\ asked' = [asked EXCEPT ![w] = Len(log)]
  PROVE  Order' /\ ReaderOps' /\ PastRead'
<1> USE DEF Core
<1>1. Order'
  BY OrderTakes, ThreadTyped
<1> DEFINE p == Op(w, "insert", queue)
<1>2. p \in Ops /\ p.who = w /\ p.op = "insert" /\ p.events = queue
  BY OpTyped DEF TypeOK, Work
<1>3. thread' = Append(thread, p)
  BY DEF Insert
<1> HIDE DEF p
<1>4. ReaderOps' /\ PastRead'
  BY <1>2, <1>3, ReadsJoin
<1> QED
  BY <1>1, <1>4

LEMMA CoreWriterTakes ==
  ASSUME Core, WriterTakes
  PROVE  Core'
<1> USE DEF Core
<1>1. "writer" \in Who /\ "writer" \notin Readers
  BY EventBusAssumption DEF Who, Readers
<1>2. Order' /\ ReaderOps' /\ PastRead'
  BY <1>1, CoreTakes DEF WriterTakes, reader
<1>3. TypeOK'
  BY <1>2, StoreTyped, LogTyped DEF TypeOK, WriterTakes, reader
<1> QED
  BY <1>2, <1>3

LEMMA CoreReads ==
  ASSUME Core, NEW r \in Readers, Reads(r)
  PROVE  Core'
<1> USE DEF Core
<1>1. PICK q \in Requests :
        /\ Asks(r, q) /\ Flush(r) /\ pc' = [pc EXCEPT ![r] = "reading"]
        /\ asked' = [asked EXCEPT ![r] = Len(log)] /\ joined' = joined
  BY DEF Reads
<1>2. /\ UNCHANGED <<state, log, rows, durable, writer, seen, backlog, inbox, lost, errors, closes>>
      /\ pc[r] # "reading" /\ r \in Who
      /\ req' = [req EXCEPT ![r] = q] /\ got' = [got EXCEPT ![r] = <<>>]
  BY <1>1 DEF Asks, Who
<1>3. Order' /\ ReaderOps' /\ PastRead'
  <2>1. CASE Insert(r)
    BY <1>1, <1>2, <2>1, CoreTakes
  <2>2. CASE queue = <<>> /\ thread' = Append(thread, Op(r, "select", <<>>)) /\ UNCHANGED queue
    <3> DEFINE p == Op(r, "select", <<>>)
    <3>1. p \in Ops /\ p.who = r /\ p.op = "select" /\ p.events = queue
      BY <1>2, <2>2, EmptyOp DEF Work
    <3>2. thread' = Append(thread, p)
      BY <2>2
    <3> HIDE DEF p
    <3>3. ReaderOps' /\ PastRead'
      BY <1>1, <1>2, <3>1, <3>2, ReadsJoin
    <3>4. Order'
      <4>1. Advances(0, <<>>, <<>>)
        BY <1>2, <2>2, JoinsAdvances
      <4> QED
        BY <4>1, OrderMoves, ThreadTyped
    <3> QED
      BY <3>3, <3>4
  <2> QED
    BY <1>1, <2>1, <2>2 DEF Flush
<1>4. TypeOK'
  <2>1. Len(log) \in 0..Len(log) /\ <<>> \in Seq(Ids)
    BY LogTyped
  <2> QED
    BY <1>1, <1>2, <1>3, <2>1, StoreTyped, LogTyped DEF TypeOK
<1> QED
  BY <1>3, <1>4

(* The steps of a reader that leave the store alone.                        *)
LEMMA CoreStays ==
  ASSUME Core, UNCHANGED <<log, queue, thread, rows, lost, seen>>,
         \A r \in Readers : pc[r] = "reading" => pc'[r] = "reading" /\ asked'[r] = asked[r]
  PROVE  Order' /\ ReaderOps' /\ PastRead'
<1> USE DEF Core
<1>1. ReaderOps' /\ PastRead'
  BY ReadsStay
<1>2. Order'
  BY DEF Order, Held, Below
<1> QED
  BY <1>1, <1>2

LEMMA CoreListens ==
  ASSUME Core, NEW r \in Readers,
         FindsNothing(r) \/ Subscribes(r) \/ Yields(r) \/ GoesLive(r) \/ Receives(r) \/ Leaves(r)
  PROVE  Core'
<1> USE DEF Core
<1>1. UNCHANGED <<log, queue, thread, rows, lost, seen, state, durable, writer, errors, closes>>
  BY DEF FindsNothing, Subscribes, Asks, Yields, GoesLive, Receives, Leaves, store
<1>2. \A x \in Readers : pc[x] = "reading" => pc'[x] = "reading" /\ asked'[x] = asked[x]
  BY DEF FindsNothing, Subscribes, Asks, Yields, GoesLive, Receives, Leaves, TypeOK
<1>3. Order' /\ ReaderOps' /\ PastRead'
  BY <1>1, <1>2, CoreStays
<1>4. Len(log) \in 0..Len(log) /\ 0 \in 0..Len(log) /\ <<>> \in Seq(Ids)
  BY LogTyped
<1>5. \A s \in Seq(Ids) : s # <<>> => Tail(s) \in Seq(Ids) /\ Head(s) \in Ids
  OBVIOUS
<1>6. \A s \in Seq(Ids), e \in Ids : Append(s, e) \in Seq(Ids)
  OBVIOUS
<1>7. backlog[r] \in Seq(Ids) /\ inbox[r] \in Seq(Ids) /\ got[r] \in Seq(Ids)
  BY DEF TypeOK
<1>8. /\ pc' \in [Readers -> {"idle", "reading", "yielding", "live", "answered"}]
      /\ req' \in [Readers -> Requests \cup {NoRequest}]
      /\ asked' \in [Readers -> 0..Len(log)] /\ joined' \in [Readers -> 0..Len(log)]
      /\ backlog' \in [Readers -> Seq(Ids)] /\ inbox' \in [Readers -> Seq(Ids)]
      /\ got' \in [Readers -> Seq(Ids)]
  <2>1. CASE Subscribes(r)
    BY <1>4, <2>1 DEF Subscribes, Asks, TypeOK
  <2>2. CASE Yields(r)
    BY <1>5, <1>6, <1>7, <2>2 DEF Yields, TypeOK
  <2>3. CASE GoesLive(r)
    BY <1>4, <2>3 DEF GoesLive, TypeOK
  <2>4. CASE Receives(r)
    BY <1>5, <1>6, <1>7, <2>4 DEF Receives, TypeOK
  <2>5. CASE Leaves(r)
    BY <1>4, <2>5 DEF Leaves, TypeOK
  <2>6. CASE FindsNothing(r)
    BY <1>4, <2>6 DEF FindsNothing, Asks, TypeOK
  <2> QED
    BY <2>1, <2>2, <2>3, <2>4, <2>5, <2>6
<1>9. TypeOK'
  BY <1>1, <1>8 DEF TypeOK
<1> QED
  BY <1>3, <1>9

LEMMA CoreInserts ==
  ASSUME Core, RunsInsert
  PROVE  Core'
<1> USE DEF Core
<1>1. Advances(1, Head(thread).events, <<>>) /\ Follows(1)
  BY InsertAdvances, InsertFollows
<1>2. UNCHANGED <<state, log, durable, writer, reader, queue, lost, errors, closes>>
  BY DEF RunsInsert, Runs, reader
<1>3. Order'
  BY <1>1, OrderMoves, ThreadTyped
<1>4. ReaderOps' /\ PastRead'
  BY <1>1, <1>2, ReadsMove DEF reader
<1>5. durable' \in 0..Len(rows') /\ seen' \in [Readers -> 0..Len(rows')]
  <2>1. rows' = rows \o Head(thread).events /\ thread # <<>>
    BY DEF RunsInsert, Runs
  <2>2. rows \in Seq(DOMAIN log) /\ Head(thread).events \in Seq(DOMAIN log)
    BY <2>1, ThreadTyped DEF Order
  <2>3. Len(rows') \in Nat /\ Len(rows) \in Nat /\ Len(rows) <= Len(rows')
    BY <2>1, <2>2
  <2>4. 0..Len(rows) \subseteq 0..Len(rows')
    BY <2>3
  <2> QED
    BY <1>2, <2>4 DEF TypeOK, reader
<1>6. TypeOK'
  BY <1>2, <1>3, <1>5, StoreTyped, LogTyped DEF TypeOK, reader
<1> QED
  BY <1>3, <1>4, <1>6

LEMMA CoreFails ==
  ASSUME Core, FailsInsert
  PROVE  Core'
<1> USE DEF Core
<1>1. PICK a, b : Advances(1, a, b)
  BY FailsAdvances
<1>2. /\ UNCHANGED <<log, durable, queue, req, asked, joined, seen, backlog, inbox, got, closes>>
      /\ thread # <<>> /\ thread' = Tail(thread) /\ thread \in Seq(Ops) /\ Task = thread[1].who
      /\ pc' = [r \in Readers |-> IF r = Task THEN "idle" ELSE pc[r]]
  BY ThreadTyped DEF FailsInsert, Runs, Done
<1>3. Follows(1)
  BY <1>2, NoneFollows
<1>4. Order'
  BY <1>1, OrderMoves, ThreadTyped
<1>5. ReaderOps' /\ PastRead'
  BY <1>1, <1>2, <1>3, ReadsMove DEF TypeOK
<1>6. durable' \in 0..Len(rows') /\ seen' \in [Readers -> 0..Len(rows')]
  <2>1. rows' = rows \o a /\ a \in Seq(DOMAIN log) /\ rows \in Seq(DOMAIN log)
    BY <1>1, ThreadTyped DEF Advances
  <2>2. Len(rows') \in Nat /\ Len(rows) \in Nat /\ Len(rows) <= Len(rows')
    BY <2>1
  <2>3. 0..Len(rows) \subseteq 0..Len(rows')
    BY <2>2
  <2> QED
    BY <1>2, <2>3 DEF TypeOK
<1>7. /\ state' \in {"open", "closing", "closed"} /\ writer' \in {"idle", "busy", "off"}
      /\ errors' \in 0..MaxErrors
      /\ pc' \in [Readers -> {"idle", "reading", "yielding", "live", "answered"}]
  <2>1. errors' \in 0..MaxErrors
    BY EventBusAssumption DEF TypeOK, FailsInsert
  <2> QED
    BY <1>2, <2>1 DEF TypeOK, FailsInsert, LoopGoesOn
<1>8. TypeOK'
  BY <1>2, <1>4, <1>6, <1>7, StoreTyped, LogTyped DEF TypeOK
<1> QED
  BY <1>4, <1>5, <1>8

LEMMA CoreCommits ==
  ASSUME Core, RunsCommit
  PROVE  Core'
<1> USE DEF Core
<1>1. Advances(1, <<>>, <<>>) /\ Follows(1)
  BY PlainAdvances, CommitFollows
<1>2. UNCHANGED <<state, log, rows, reader, queue, lost, errors, closes>>
  BY DEF RunsCommit, Runs, reader
<1>3. Order'
  BY <1>1, OrderMoves, ThreadTyped
<1>4. ReaderOps' /\ PastRead'
  BY <1>1, <1>2, ReadsMove DEF reader
<1>5. durable' \in 0..Len(rows') /\ writer' \in {"idle", "busy", "off"}
  BY <1>2 DEF RunsCommit, TypeOK, Closing
<1>6. TypeOK'
  BY <1>2, <1>3, <1>5, StoreTyped, LogTyped DEF TypeOK, reader
<1> QED
  BY <1>3, <1>4, <1>6

LEMMA CoreSelects ==
  ASSUME Core, RunsSelect
  PROVE  Core'
<1> USE DEF Core
<1>1. Advances(1, <<>>, <<>>) /\ Follows(1) /\ Task \in Readers
  BY PlainAdvances, SelectFollows
<1>2. /\ UNCHANGED <<state, log, rows, durable, writer, pc, req, asked, joined, backlog, inbox, got,
                     queue, lost, errors, closes>>
      /\ seen' = [seen EXCEPT ![Task] = Len(rows)] /\ Task = thread[1].who
  BY ThreadTyped DEF RunsSelect, Runs
<1>3. Order'
  BY <1>1, OrderMoves, ThreadTyped
<1>4. ReaderOps' /\ PastRead'
  <2>1. \A r \in Readers : r = thread[1].who \/ (pc'[r] = pc[r] /\ seen'[r] = seen[r])
    BY <1>1, <1>2 DEF TypeOK
  <2>2. UNCHANGED asked
    BY <1>1, <1>2
  <2> QED
    BY ONLY Core, <1>1, <2>1, <2>2, ReadsMove DEF Core
<1>5. seen' \in [Readers -> 0..Len(rows')]
  <2>1. Len(rows) \in 0..Len(rows)
    BY DEF TypeOK
  <2> QED
    BY <1>2, <2>1 DEF TypeOK
<1>6. TypeOK'
  BY <1>2, <1>3, <1>5, StoreTyped, LogTyped DEF TypeOK
<1> QED
  BY <1>3, <1>4, <1>6

(* What a fetch gives the reader.                                           *)
LEMMA Fetches ==
  ASSUME Core, RunsFetch
  PROVE  \E s \in Seq(DOMAIN log) :
           /\ Task \in Readers /\ pc[Task] = "reading" /\ thread' = Tail(thread)
           /\ UNCHANGED <<state, log, rows, durable, writer, req, asked, inbox, queue, lost, errors,
                          closes>>
           /\ seen' = [seen EXCEPT ![Task] = 0]
           /\ IF Task \in Queriers
              THEN /\ got' = [got EXCEPT ![Task] = FirstOf(s)]
                   /\ pc' = [pc EXCEPT ![Task] = "answered"]
                   /\ UNCHANGED <<joined, backlog>>
              ELSE /\ backlog' = [backlog EXCEPT ![Task] = s]
                   /\ pc' = [pc EXCEPT ![Task] = IF s = <<>> THEN "live" ELSE "yielding"]
                   /\ joined' = [joined EXCEPT ![Task] = IF s = <<>> THEN Len(log) ELSE @]
                   /\ UNCHANGED got
           /\ req[Task].conv # All =>
                /\ Increasing(s)
                /\ \A e \in ToSet(s) : /\ e \in DOMAIN log /\ Matches(req[Task], log[e])
                                       /\ e > req[Task].since
                /\ \A e \in DOMAIN log :
                     Matches(req[Task], log[e]) /\ e > req[Task].since /\ e <= asked[Task] =>
                       e \in ToSet(s) \/ e \in lost
                /\ \E T : ToSet(s) = T /\ s \in SetToSeqs(T)
<1> USE DEF Core
<1> DEFINE r == Task
<1>1. /\ thread # <<>> /\ thread[1].op = "fetch" /\ thread[1].who = r /\ 1 \in DOMAIN thread
      /\ UNCHANGED <<state, log, rows, durable, writer, req, asked, inbox, queue, lost, errors, closes>>
      /\ seen' = [seen EXCEPT ![r] = 0] /\ thread' = Tail(thread)
  BY ThreadTyped DEF RunsFetch, Runs, Done
<1>2. r \in Readers /\ pc[r] = "reading"
  BY <1>1 DEF ReaderOps
<1>3. PICK more \in SUBSET {rows[i] : i \in (seen[r] + 1)..Len(rows)} : \E s \in Result(r, more) :
        IF r \in Queriers
        THEN /\ got' = [got EXCEPT ![r] = FirstOf(s)]
             /\ pc' = [pc EXCEPT ![r] = "answered"]
             /\ UNCHANGED <<joined, backlog>>
        ELSE /\ backlog' = [backlog EXCEPT ![r] = s]
             /\ pc' = [pc EXCEPT ![r] = IF s = <<>> THEN "live" ELSE "yielding"]
             /\ joined' = [joined EXCEPT ![r] = IF s = <<>> THEN Len(log) ELSE @]
             /\ UNCHANGED got
  BY DEF RunsFetch
<1>0. PICK s \in Result(r, more) :
        IF r \in Queriers
        THEN /\ got' = [got EXCEPT ![r] = FirstOf(s)]
             /\ pc' = [pc EXCEPT ![r] = "answered"]
             /\ UNCHANGED <<joined, backlog>>
        ELSE /\ backlog' = [backlog EXCEPT ![r] = s]
             /\ pc' = [pc EXCEPT ![r] = IF s = <<>> THEN "live" ELSE "yielding"]
             /\ joined' = [joined EXCEPT ![r] = IF s = <<>> THEN Len(log) ELSE @]
             /\ UNCHANGED got
  BY <1>3
<1> HIDE DEF r
<1> DEFINE found == {rows[i] : i \in 1..seen[r]} \cup more
<1>4. /\ s \in Seq(DOMAIN log)
      /\ req[r].conv # All => /\ Increasing(s) /\ ToSet(s) = Hits(r, found)
                              /\ s \in SetToSeqs(Hits(r, found))
  BY <1>2, <1>3, ResultHas
<1>5. \A e \in 1..asked[r] : e \in lost \/ e \in found
  <2>1. \A e \in 1..asked[r] : Found(e, r)
    BY <1>1, <1>2 DEF PastRead
  <2> QED
    BY <2>1 DEF Found
<1>6. found \subseteq DOMAIN log
  <2>1. rows \in Seq(DOMAIN log) /\ seen[r] \in 0..Len(rows)
    BY <1>2 DEF TypeOK, Order
  <2> QED
    BY <2>1
<1>7. ASSUME req[r].conv # All
      PROVE  /\ \A e \in ToSet(s) : e \in DOMAIN log /\ Matches(req[r], log[e]) /\ e > req[r].since
             /\ \A e \in DOMAIN log :
                  Matches(req[r], log[e]) /\ e > req[r].since /\ e <= asked[r] =>
                    e \in ToSet(s) \/ e \in lost
  <2>1. \A e \in DOMAIN log : e <= asked[r] => e \in 1..asked[r]
    <3>1. asked[r] \in Int /\ DOMAIN log = 1..Len(log) /\ Len(log) \in Nat
      BY <1>2, LogTyped DEF TypeOK
    <3> QED
      BY <3>1
  <2> HIDE DEF found
  <2> QED
    BY <1>4, <1>5, <1>6, <1>7, <2>1 DEF Hits
<1> HIDE DEF found
<1>8. Task = r
  BY DEF r
<1> QED
  BY <1>0, <1>1, <1>2, <1>4, <1>7, <1>8

LEMMA FetchesForOne ==
  ASSUME Core, RunsFetch, NEW r \in Readers, Task # r
  PROVE  /\ pc'[r] = pc[r] /\ joined'[r] = joined[r] /\ backlog'[r] = backlog[r] /\ got'[r] = got[r]
         /\ UNCHANGED <<req, asked, inbox, log, lost>>
<1>1. \E s \in Seq(DOMAIN log) :
        /\ UNCHANGED <<req, asked, inbox, log, lost>>
        /\ IF Task \in Queriers
           THEN /\ got' = [got EXCEPT ![Task] = FirstOf(s)]
                /\ pc' = [pc EXCEPT ![Task] = "answered"]
                /\ UNCHANGED <<joined, backlog>>
           ELSE /\ backlog' = [backlog EXCEPT ![Task] = s]
                /\ pc' = [pc EXCEPT ![Task] = IF s = <<>> THEN "live" ELSE "yielding"]
                /\ joined' = [joined EXCEPT ![Task] = IF s = <<>> THEN Len(log) ELSE @]
                /\ UNCHANGED got
  BY Fetches
<1> QED
  BY <1>1 DEF Core, TypeOK

LEMMA FetchesForQuery ==
  ASSUME Core, RunsFetch, Task \in Queriers
  PROVE  UNCHANGED req /\ pc'[Task] = "answered"
<1>1. /\ Task \in Readers /\ UNCHANGED req
      /\ pc' = [pc EXCEPT ![Task] = "answered"]
  BY Fetches
<1> QED
  BY <1>1 DEF Core, TypeOK

LEMMA CoreFetches ==
  ASSUME Core, RunsFetch
  PROVE  Core'
<1> USE DEF Core
<1>1. PICK s \in Seq(DOMAIN log) :
        /\ Task \in Readers /\ pc[Task] = "reading" /\ thread' = Tail(thread)
        /\ UNCHANGED <<state, log, rows, durable, writer, req, asked, inbox, queue, lost, errors,
                       closes>>
        /\ seen' = [seen EXCEPT ![Task] = 0]
        /\ IF Task \in Queriers
           THEN /\ got' = [got EXCEPT ![Task] = FirstOf(s)]
                /\ pc' = [pc EXCEPT ![Task] = "answered"]
                /\ UNCHANGED <<joined, backlog>>
           ELSE /\ backlog' = [backlog EXCEPT ![Task] = s]
                /\ pc' = [pc EXCEPT ![Task] = IF s = <<>> THEN "live" ELSE "yielding"]
                /\ joined' = [joined EXCEPT ![Task] = IF s = <<>> THEN Len(log) ELSE @]
                /\ UNCHANGED got
  BY Fetches
<1>2. thread # <<>> /\ Task = thread[1].who /\ thread \in Seq(Ops)
  BY ThreadTyped DEF RunsFetch, Runs
<1>3. Follows(1)
  BY <1>1, <1>2, NoneFollows
<1>4. Advances(1, <<>>, <<>>)
  BY PlainAdvances
<1>5. Order'
  BY <1>4, OrderMoves, ThreadTyped
<1>6. ReaderOps' /\ PastRead'
  <2>1. \A r \in Readers : r = thread[1].who \/ (pc'[r] = pc[r] /\ seen'[r] = seen[r])
    BY <1>1, <1>2 DEF TypeOK
  <2>2. UNCHANGED asked
    BY <1>1, <1>2
  <2> QED
    BY ONLY Core, <1>3, <1>4, <2>1, <2>2, ReadsMove DEF Core
<1>7. s \in Seq(Ids) /\ FirstOf(s) \in Seq(Ids) /\ Len(log) \in 0..Len(log)
  <2>1. s \in Seq(Ids) /\ Len(log) \in Nat
    BY <1>1, LogTyped, SeqWiden
  <2>2. FirstOf(s) \in Seq(Ids)
    BY <2>1, EventBusAssumption, SplitAt DEF FirstOf
  <2> QED
    BY <2>1, <2>2
<1>8. /\ pc' \in [Readers -> {"idle", "reading", "yielding", "live", "answered"}]
      /\ joined' \in [Readers -> 0..Len(log)]
      /\ backlog' \in [Readers -> Seq(Ids)] /\ got' \in [Readers -> Seq(Ids)]
  BY <1>1, <1>7 DEF TypeOK
<1>9. seen' \in [Readers -> 0..Len(rows)]
  <2>1. 0 \in 0..Len(rows)
    BY DEF TypeOK
  <2> QED
    BY <1>1, <2>1 DEF TypeOK
<1>10. TypeOK'
  BY <1>1, <1>5, <1>8, <1>9, StoreTyped, LogTyped DEF TypeOK
<1> QED
  BY <1>5, <1>6, <1>10

LEMMA CoreCloses ==
  ASSUME Core, Close
  PROVE  Core'
<1> USE DEF Core
<1>1. /\ UNCHANGED <<log, rows, durable, reader, lost, errors>> /\ state' = "closing"
      /\ closes' = closes + 1 /\ closes < MaxCloses
  BY DEF Close
<1>2. "closer" \in Who /\ "closer" \notin Readers
  BY EventBusAssumption DEF Who, Readers
<1>3. Order' /\ ReaderOps' /\ PastRead' /\ writer' \in {"idle", "busy", "off"}
  <2>1. CASE Insert("closer") /\ UNCHANGED writer
    BY <1>1, <1>2, <2>1, CoreTakes DEF reader, TypeOK
  <2>2. CASE queue = <<>> /\ Closing(thread) /\ UNCHANGED queue
    <3>1. Advances(0, <<>>, <<>>)
      BY <1>1, <2>2, JoinsAdvances
    <3>2. Order'
      BY <3>1, OrderMoves, ThreadTyped
    <3>3. Follows(0)
      BY <2>2, ThreadTyped, ClosingFollows
    <3>4. ReaderOps' /\ PastRead'
      BY <1>1, <3>1, <3>3, ReadsMove DEF reader
    <3> QED
      BY <2>2, <3>2, <3>4 DEF Closing
  <2> QED
    BY <2>1, <2>2 DEF Close
<1>4. closes' \in 0..MaxCloses
  BY <1>1, EventBusAssumption DEF TypeOK
<1>5. TypeOK'
  BY <1>1, <1>3, <1>4, StoreTyped, LogTyped DEF TypeOK, reader
<1> QED
  BY <1>3, <1>5

(* What a connection that ends leaves in the table.                         *)
LEMMA DiskTyped ==
  ASSUME Core, rows' = OnDisk
  PROVE  /\ Len(rows') = durable /\ durable \in 0..Len(rows')
         /\ ToSet(rows') = {rows[i] : i \in 1..durable}
         /\ ToSet(rows) = ToSet(rows') \cup {rows[i] : i \in (durable + 1)..Len(rows)}
         /\ ToSet(rows') \cap {rows[i] : i \in (durable + 1)..Len(rows)} = {}
<1> USE DEF Core
<1> DEFINE after == {rows[i] : i \in (durable + 1)..Len(rows)}
<1>1. rows \in Seq(DOMAIN log) /\ durable \in 0..Len(rows) /\ Increasing(rows)
  BY DEF TypeOK, Order
<1>2. /\ Len(rows') = durable /\ ToSet(rows') = {rows[i] : i \in 1..durable}
      /\ ToSet(rows) = ToSet(rows') \cup after
  <2>1. rows' = SubSeq(rows, 1, durable)
    BY DEF OnDisk
  <2>2. LET a == SubSeq(rows, 1, durable)  b == SubSeq(rows, durable + 1, Len(rows)) IN
        /\ Len(a) = durable /\ ToSet(rows) = ToSet(a) \cup ToSet(b)
        /\ ToSet(a) = {rows[i] : i \in 1..durable} /\ ToSet(b) = after
    BY ONLY <1>1, SplitAt
  <2> QED
    BY ONLY <2>1, <2>2
<1>3. \A i \in 1..durable, j \in (durable + 1)..Len(rows) : rows[i] < rows[j]
  BY <1>1 DEF Increasing
<1>4. \A x \in ToSet(rows'), y \in after : x # y
  <2>1. \A i \in DOMAIN rows : rows[i] \in Int
    BY <1>1, ThreadTyped
  <2>2. \A i \in 1..durable, j \in (durable + 1)..Len(rows) : rows[i] # rows[j]
    BY <1>1, <1>3, <2>1
  <2> QED
    BY <1>2, <2>2
<1> QED
  BY <1>1, <1>2, <1>4

LEMMA CoreRunsClose ==
  ASSUME Core, RunsClose
  PROVE  Core'
<1> USE DEF Core
<1>1. /\ UNCHANGED <<log, queue, durable, writer, req, asked, joined, backlog, inbox, got, errors,
                     closes>>
      /\ state' = "closed" /\ rows' = OnDisk /\ thread' = <<>>
      /\ seen' = [r \in Readers |-> 0]
      /\ pc' = [r \in Readers |-> IF pc[r] = "reading" THEN "idle" ELSE pc[r]]
  BY DEF RunsClose, Runs
<1> DEFINE after == {rows[i] : i \in (durable + 1)..Len(rows)}
           going == UNION {ToSet(thread[i].events) : i \in DOMAIN thread}
<1>2. lost' = lost \cup after \cup going
  BY DEF RunsClose
<1>3. /\ Len(rows') = durable /\ durable \in 0..Len(rows')
      /\ ToSet(rows) = ToSet(rows') \cup after /\ ToSet(rows') \cap after = {}
  BY <1>1, DiskTyped
<1> HIDE DEF after
<1>4. ToSet(rows) \subseteq DOMAIN log /\ going \subseteq DOMAIN log
  BY DEF Order, ToSet
<1>5. \A e : (\E i \in DOMAIN thread : e \in ToSet(thread[i].events)) <=> e \in going
  OBVIOUS
<1>6. ToSet(rows) \cap going = {} /\ ToSet(queue) \cap (going \cup ToSet(rows)) = {}
  <2>1. \A i \in DOMAIN thread : /\ \A x \in ToSet(rows), y \in ToSet(thread[i].events) : x < y
                                 /\ \A x \in ToSet(thread[i].events), y \in ToSet(queue) : x < y
    BY DEF Order, Below
  <2>2. \A x \in ToSet(rows), y \in ToSet(queue) : x < y
    BY DEF Order, Below
  <2>3. ToSet(rows) \subseteq Int /\ going \subseteq Int /\ ToSet(queue) \subseteq Int
    BY <1>4, ThreadTyped DEF Order, ToSet
  <2>4. \A x \in ToSet(rows), y \in going : x # y
    BY <2>1, <2>3
  <2>5. \A x \in going, y \in ToSet(queue) : x # y
    BY <2>1, <2>3
  <2>6. \A x \in ToSet(rows), y \in ToSet(queue) : x # y
    BY <2>2, <2>3
  <2> QED
    BY <2>4, <2>5, <2>6
<1> HIDE DEF going
<1>7. lost' = (DOMAIN log) \ (ToSet(rows') \cup ToSet(queue'))
  <2>1. \A e \in DOMAIN log : e \in lost <=> e \notin ToSet(rows) /\ e \notin ToSet(queue) /\ e \notin going
    BY <1>5 DEF Order, Held
  <2>2. lost \subseteq DOMAIN log
    BY DEF Order
  <2> QED
    BY <1>1, <1>2, <1>3, <1>4, <1>6, <2>1, <2>2
<1>8. Order'
  BY <1>1, <1>7, OrderEnds DEF OnDisk
<1>9. seen' \in [Readers -> 0..Len(rows')]
  BY <1>1, <1>3
<1>10. TypeOK'
  BY <1>1, <1>3, <1>8, <1>9, StoreTyped, LogTyped DEF TypeOK
<1> QED
  BY <1>1, <1>8, <1>10, ReadsEnd

LEMMA CoreCrashes ==
  ASSUME Core, Crash
  PROVE  Core'
<1> USE DEF Core
<1>1. /\ UNCHANGED <<log, durable, req, asked, joined, got, errors>>
      /\ state' = "closed" /\ rows' = OnDisk /\ thread' = <<>> /\ queue' = <<>> /\ writer' = "off"
      /\ seen' = [r \in Readers |-> 0] /\ pc' = [r \in Readers |-> "idle"]
      /\ backlog' = [r \in Readers |-> <<>>] /\ inbox' = [r \in Readers |-> <<>>]
      /\ closes' = closes + 1 /\ closes < MaxCloses
      /\ lost' = (1..Len(log)) \ {rows[i] : i \in 1..durable}
  BY DEF Crash
<1>2. /\ Len(rows') = durable /\ durable \in 0..Len(rows')
      /\ ToSet(rows') = {rows[i] : i \in 1..durable}
  BY <1>1, DiskTyped
<1>3. lost' = (DOMAIN log) \ (ToSet(rows') \cup ToSet(queue'))
  BY <1>1, <1>2, EmptyHas, LogTyped
<1>4. Order'
  BY <1>1, <1>3, OrderEnds DEF OnDisk
<1>5. seen' \in [Readers -> 0..Len(rows')] /\ closes' \in 0..MaxCloses
  BY <1>1, <1>2, EventBusAssumption DEF TypeOK
<1>6. /\ backlog' \in [Readers -> Seq(Ids)] /\ inbox' \in [Readers -> Seq(Ids)]
      /\ pc' \in [Readers -> {"idle", "reading", "yielding", "live", "answered"}]
  BY <1>1
<1>7. TypeOK'
  BY <1>1, <1>2, <1>4, <1>5, <1>6, StoreTyped, LogTyped DEF TypeOK
<1> QED
  BY <1>1, <1>4, <1>7, ReadsEnd

LEMMA CoreInitializes ==
  ASSUME Core, Initialize
  PROVE  Core'
<1> USE DEF Core
<1>1. UNCHANGED <<log, queue, thread, rows, durable, pc, req, asked, joined, seen, backlog, inbox,
                  got, lost, errors, closes>>
      /\ state' = "open" /\ writer' = "idle"
  BY DEF Initialize, reader
<1>2. Order' /\ ReaderOps' /\ PastRead'
  BY <1>1, CoreStays
<1> QED
  BY <1>1, <1>2 DEF TypeOK

LEMMA CoreInitially ==
  ASSUME Init
  PROVE  Core
<1>1. /\ state = "open" /\ log = <<>> /\ queue = <<>> /\ thread = <<>>
      /\ rows = <<>> /\ durable = 0 /\ writer = "idle" /\ lost = {} /\ errors = 0 /\ closes = 0
  BY DEF Init
<1>2. DOMAIN log = {} /\ Len(log) = 0 /\ DOMAIN thread = {} /\ Len(rows) = 0
  BY <1>1
<1>3. log = SubSeq(Stream, 1, Len(log)) /\ Len(log) <= Len(Stream)
  <2>1. Stream \in Seq(ToSet(Stream)) /\ Len(Stream) \in Nat
    BY EventBusAssumption
  <2>2. SubSeq(Stream, 1, 0) = <<>>
    BY <2>1
  <2> QED
    BY <1>1, <1>2, <2>1, <2>2
<1>4. TypeOK
  <2>1. <<>> \in Seq(Ids) /\ 0 \in 0..0 /\ 0 \in 0..MaxErrors /\ 0 \in 0..MaxCloses
    BY EventBusAssumption
  <2>2. thread \in Seq([who : Readers \cup {"writer", "cancelled", "closer"},
                        op : {"insert", "commit", "select", "fetch", "close"}, events : Seq(Ids)])
    BY <1>1
  <2> QED
    BY <1>1, <1>2, <1>3, <2>1, <2>2 DEF TypeOK, Init
<1>5. Order
  <2>1. thread \in Seq(Ops) /\ rows \in Seq(DOMAIN log) /\ queue \in Seq(DOMAIN log)
    BY <1>1
  <2> QED
    BY <1>1, <1>2, <2>1, EmptyHas DEF Order, Below, Held
<1> QED
  BY <1>2, <1>4, <1>5 DEF Core, ReaderOps, PastRead

LEMMA CoreSteps ==
  ASSUME Core, [Next]_vars
  PROVE  Core'
<1>1. CASE UNCHANGED vars
  BY <1>1 DEF Core, TypeOK, Order, Held, Below, ReaderOps, PastRead, Ahead, Found, vars, store, reader
<1>2. CASE Next
  BY <1>2, CoreEmits, CoreWriterTakes, CoreReads, CoreListens, CoreInserts, CoreFails, CoreCommits,
     CoreSelects, CoreFetches, CoreCloses, CoreRunsClose, CoreCrashes, CoreInitializes
     DEF Next, DbStep
<1> QED
  BY <1>1, <1>2

LEMMA CoreWrites ==
  ASSUME Core
  PROVE  WrittenInOrder
<1> USE DEF Core
<1>1. /\ DOMAIN thread = 1..Len(thread) /\ Len(thread) \in Nat
      /\ 0 \notin DOMAIN thread /\ Len(thread) + 1 \notin DOMAIN thread
  BY DEF Order
<1>2. \A i \in Places : \/ i = 0 /\ Place(i) = rows
                        \/ i \in DOMAIN thread /\ Place(i) = thread[i].events
                        \/ i = Len(thread) + 1 /\ Place(i) = queue
  BY <1>1 DEF Places, Place
<1>3. ASSUME NEW i \in Places PROVE Increasing(Place(i))
  BY <1>2 DEF Order
<1>4. ASSUME NEW i \in Places, NEW j \in Places, i < j PROVE Below(Place(i), Place(j))
  <2>1. CASE i = 0
    BY <1>1, <1>2, <1>4, <2>1 DEF Order
  <2>2. CASE i \in DOMAIN thread
    <3>1. Place(i) = thread[i].events
      BY ONLY <1>1, <1>2, <2>2
    <3>2. CASE j \in DOMAIN thread
      <4>1. Place(j) = thread[j].events
        BY ONLY <1>1, <1>2, <3>2
      <4> QED
        BY <1>4, <2>2, <3>1, <3>2, <4>1 DEF Order
    <3>3. CASE j \notin DOMAIN thread
      <4>1. j = Len(thread) + 1
        BY <1>1, <1>4, <2>2, <3>3 DEF Places
      <4>2. Place(j) = queue
        BY ONLY <1>1, <1>2, <4>1
      <4> QED
        BY <2>2, <3>1, <4>2 DEF Order
    <3> QED
      BY <3>2, <3>3
  <2>3. CASE i = Len(thread) + 1
    BY <1>4, <2>3, <1>1 DEF Places
  <2> QED
    BY <1>2, <2>1, <2>2, <2>3
<1>5. ASSUME NEW e PROVE Held(e) <=> \E i \in Places : e \in ToSet(Place(i))
  <2>1. 0 \in Places /\ Place(0) = rows
    BY <1>1 DEF Places, Place
  <2>2. Len(thread) + 1 \in Places /\ Place(Len(thread) + 1) = queue
    <3>1. Len(thread) + 1 \in Places /\ Len(thread) + 1 # 0
      BY <1>1 DEF Places
    <3> QED
      BY <1>1, <3>1 DEF Place
  <2>3. \A i \in DOMAIN thread : i \in Places /\ Place(i) = thread[i].events
    BY <1>1 DEF Places, Place
  <2>4. Held(e) => \E i \in Places : e \in ToSet(Place(i))
    BY <2>1, <2>2, <2>3 DEF Held
  <2>5. (\E i \in Places : e \in ToSet(Place(i))) => Held(e)
    BY <1>2 DEF Held
  <2> QED
    BY <2>4, <2>5
<1>6. lost = (DOMAIN log) \ UNION {ToSet(Place(i)) : i \in Places}
  <2>1. \A e : e \in UNION {ToSet(Place(i)) : i \in Places} <=> \E i \in Places : e \in ToSet(Place(i))
    OBVIOUS
  <2>2. lost \subseteq DOMAIN log /\ \A e \in DOMAIN log : e \in lost <=> ~Held(e)
    BY DEF Order
  <2> QED
    BY <1>5, <2>1, <2>2
<1> QED
  BY <1>3, <1>4, <1>6 DEF WrittenInOrder

(* Every variable has its type, and whoever drains the queue, the events    *)
(* are written once and in the order they were emitted: between _write_loop *)
(* and the flush of emit's readers and of close, nothing is reordered or    *)
(* doubled, and only a failed write, a close or a crash takes any.          *)
THEOREM EventsAreWrittenInOrder == Spec => []WrittenInOrder
<1>1. Spec => []Core
  <2>1. Init => Core
    BY CoreInitially
  <2>2. Core /\ [Next]_vars => Core'
    BY CoreSteps
  <2> QED
    BY <2>1, <2>2, PTL DEF Spec
<1>2. Core => WrittenInOrder
  BY CoreWrites
<1> QED
  BY <1>1, <1>2, PTL

-------------------------------------------------------------------------------
(* Subscribers                                                              *)

Heard(r, e) == \/ e \in ToSet(got[r]) \/ e \in ToSet(backlog[r]) \/ e \in ToSet(inbox[r])
               \/ e \in lost

(* A subscriber to a conversation was given the first of its events, has    *)
(* the next ones of the past in its backlog and those since it is live in   *)
(* its queue.                                                               *)
InOrder(r) ==
  /\ got[r] \in Seq(DOMAIN log) /\ backlog[r] \in Seq(DOMAIN log) /\ inbox[r] \in Seq(DOMAIN log)
  /\ Increasing(got[r]) /\ Increasing(backlog[r]) /\ Increasing(inbox[r])
  /\ Below(got[r], backlog[r]) /\ Below(got[r], inbox[r])
PastHeard(r) == \A e \in OwnConv(r) : e <= asked[r] => Heard(r, e)
AllHeard(r)  == \A e \in OwnConv(r) : Heard(r, e) \/ e \in (asked[r] + 1)..joined[r]

Sub(r) ==
  /\ pc[r] # "answered"
  /\ pc[r] # "live" => inbox[r] = <<>>
  /\ pc[r] # "yielding" => backlog[r] = <<>>
  /\ pc[r] = "reading" => got[r] = <<>>
  /\ req[r].conv # All =>
       /\ InOrder(r)
       /\ pc[r] = "yielding" => PastHeard(r)
       /\ pc[r] = "live" => AllHeard(r)

(* What is heard of stays so, whatever more gets lost.                      *)
LEMMA SubStays ==
  ASSUME NEW r, Sub(r), UNCHANGED log, lost \subseteq lost',
         pc'[r] = pc[r], req'[r] = req[r], asked'[r] = asked[r], joined'[r] = joined[r],
         backlog'[r] = backlog[r], inbox'[r] = inbox[r], got'[r] = got[r]
  PROVE  Sub(r)'
<1>1. InOrder(r) => InOrder(r)'
  BY DEF InOrder, Below
<1>2. OwnConv(r)' = OwnConv(r) /\ \A e : Heard(r, e) => Heard(r, e)'
  BY DEF OwnConv, Heard
<1>3. (PastHeard(r) => PastHeard(r)') /\ (AllHeard(r) => AllHeard(r)')
  BY <1>2 DEF PastHeard, AllHeard
<1> QED
  BY <1>1, <1>3 DEF Sub

LEMMA SubStops ==
  ASSUME NEW r, Sub(r), UNCHANGED log, pc'[r] \in {"idle", "reading"},
         backlog'[r] = <<>>, inbox'[r] = <<>>,
         \/ got'[r] = <<>>
         \/ got'[r] = got[r] /\ req'[r] = req[r] /\ pc'[r] # "reading"
  PROVE  Sub(r)'
<1>1. <<>> \in Seq(DOMAIN log) /\ Increasing(<<>>)
  BY EmptyHas
<1>2. \A s : Below(s, <<>>)
  BY EmptyHas DEF Below
<1>3. InOrder(r)' \/ ~(req'[r].conv # All)
  BY <1>1, <1>2 DEF Sub, InOrder
<1> QED
  BY <1>3 DEF Sub

LEMMA SubEmits ==
  ASSUME TypeOK, Emit, NEW r \in Subscribers, Sub(r)
  PROVE  Sub(r)'
<1> DEFINE n == Len(log')
           new == Stream[Len(log) + 1]
<1>1. /\ UNCHANGED <<pc, req, asked, joined, backlog, got, lost>> /\ log' = Append(log, new)
      /\ Len(log) < Len(Stream) /\ r \in Readers
  BY DEF Emit, Readers
<1>2. /\ n = Len(log) + 1 /\ \A i \in DOMAIN log : log'[i] = log[i]
      /\ DOMAIN log' = DOMAIN log \cup {n} /\ Len(log) \in Nat /\ DOMAIN log = 1..Len(log)
      /\ log'[n] = new
  BY <1>1, LogTyped, EmitsLog
<1>3. inbox'[r] = IF pc[r] = "live" /\ Matches(req[r], new) THEN Append(inbox[r], n) ELSE inbox[r]
  BY <1>1 DEF Emit, Audience
<1>4. DOMAIN log \subseteq DOMAIN log' /\ n \in DOMAIN log' /\ n \in Int /\ DOMAIN log \subseteq Int
      /\ \A x \in DOMAIN log : x < n
  BY <1>2
<1> HIDE DEF n, new
<1>5. ASSUME InOrder(r) PROVE InOrder(r)' /\ ToSet(inbox[r]) \subseteq ToSet(inbox'[r])
                              /\ (pc[r] = "live" /\ Matches(req[r], new) => n \in ToSet(inbox'[r]))
  <2>1. /\ got[r] \in Seq(DOMAIN log') /\ backlog[r] \in Seq(DOMAIN log')
        /\ inbox[r] \in Seq(DOMAIN log') /\ inbox[r] \in Seq(Int)
    BY <1>4, <1>5, SeqWiden DEF InOrder
  <2>2. CASE inbox'[r] = inbox[r] /\ ~(pc[r] = "live" /\ Matches(req[r], new))
    BY <1>1, <1>5, <2>1, <2>2 DEF InOrder, Below
  <2>3. CASE inbox'[r] = Append(inbox[r], n)
    <3>1. inbox'[r] \in Seq(DOMAIN log') /\ ToSet(inbox'[r]) = ToSet(inbox[r]) \cup {n}
      BY <1>4, <2>1, <2>3, AppendHas
    <3>2. \A x \in ToSet(inbox[r]) : x < n
      BY <1>4, <1>5 DEF InOrder, ToSet
    <3>3. \A x \in ToSet(got[r]) : x < n
      BY <1>4, <1>5 DEF InOrder, ToSet
    <3>4. Increasing(inbox'[r])
      BY <1>4, <1>5, <2>1, <2>3, <3>2, AppendIncreases DEF InOrder
    <3> QED
      BY <1>1, <1>5, <2>1, <3>1, <3>3, <3>4 DEF InOrder, Below
  <2> QED
    BY <1>3, <2>2, <2>3
<1>6. \A e : e \in OwnConv(r)' => \/ e \in OwnConv(r)
                                  \/ e = n /\ Matches(req[r], new)
  BY <1>1, <1>2 DEF OwnConv
<1>7. ASSUME InOrder(r), NEW e, Heard(r, e) PROVE Heard(r, e)'
  BY <1>1, <1>5, <1>7 DEF Heard
<1>8. ASSUME InOrder(r), PastHeard(r) PROVE PastHeard(r)'
  <2>1. asked[r] \in 0..Len(log)
    BY <1>1 DEF TypeOK
  <2>2. ~(n <= asked[r])
    BY <1>2, <2>1
  <2> QED
    BY <1>1, <1>6, <1>7, <1>8, <2>2 DEF PastHeard
<1>9. ASSUME InOrder(r), AllHeard(r), pc[r] = "live" PROVE AllHeard(r)'
  <2>1. ASSUME NEW e \in OwnConv(r)' PROVE Heard(r, e)' \/ e \in (asked[r] + 1)..joined[r]
    <3>1. CASE e \in OwnConv(r)
      BY <1>7, <1>9, <3>1 DEF AllHeard
    <3>2. CASE e = n /\ Matches(req[r], new)
      BY <1>5, <1>9, <3>2 DEF Heard
    <3> QED
      BY <1>6, <3>1, <3>2
  <2> QED
    BY <1>1, <2>1 DEF AllHeard
<1> QED
  BY <1>1, <1>3, <1>5, <1>8, <1>9 DEF Sub

LEMMA SubListens ==
  ASSUME TypeOK, NEW r \in Subscribers, Sub(r),
         Subscribes(r) \/ Yields(r) \/ GoesLive(r) \/ Receives(r)
  PROVE  Sub(r)'
<1>1. /\ r \in Readers /\ UNCHANGED <<log, lost>> /\ Len(log) \in Nat /\ DOMAIN log = 1..Len(log)
      /\ DOMAIN log \subseteq Int
  BY LogTyped DEF Readers, Subscribes, Asks, Yields, GoesLive, Receives
<1>2. CASE Subscribes(r)
  <2>1. /\ pc'[r] = "live" /\ asked'[r] = 0 /\ joined'[r] = Len(log) /\ got'[r] = <<>>
        /\ pc[r] \in {"idle", "answered"} /\ UNCHANGED <<backlog, inbox>>
    BY <1>1, <1>2 DEF Subscribes, Asks, TypeOK
  <2>2. backlog[r] = <<>> /\ inbox[r] = <<>>
    BY <2>1 DEF Sub
  <2>3. InOrder(r)'
    BY <2>1, <2>2, EmptyHas DEF InOrder, Below
  <2>4. AllHeard(r)'
    BY <1>1, <2>1 DEF AllHeard, OwnConv
  <2> QED
    BY <2>1, <2>2, <2>3, <2>4 DEF Sub
<1>3. CASE Yields(r)
  <2>1. /\ pc[r] = "yielding" /\ backlog[r] # <<>> /\ got'[r] = Append(got[r], Head(backlog[r]))
        /\ backlog'[r] = Tail(backlog[r]) /\ UNCHANGED <<pc, req, asked, joined, inbox>>
    BY <1>1, <1>3 DEF Yields, TypeOK
  <2>2. ASSUME InOrder(r)
        PROVE  InOrder(r)' /\ \A e : Heard(r, e) => Heard(r, e)'
    <3> DEFINE h == Head(backlog[r])
    <3>1. backlog[r] \in Seq(Int) /\ got[r] \in Seq(Int)
      BY <1>1, <2>2, SeqWiden DEF InOrder
    <3>2. /\ ToSet(backlog[r]) = {h} \cup ToSet(backlog'[r]) /\ Increasing(backlog'[r])
          /\ \A x \in ToSet(backlog'[r]) : h < x
      BY <2>1, <2>2, <3>1, HeadTail DEF InOrder
    <3>3. h \in DOMAIN log /\ backlog'[r] \in Seq(DOMAIN log)
      BY <2>1, <2>2, HeadTyped DEF InOrder
    <3>4. \A x \in ToSet(got[r]) : x < h
      BY <2>2, <3>2 DEF InOrder, Below
    <3> HIDE DEF h
    <3>5. got'[r] = Append(got[r], h)
      BY <2>1 DEF h
    <3>6. got'[r] \in Seq(DOMAIN log) /\ ToSet(got'[r]) = ToSet(got[r]) \cup {h}
      BY <2>2, <3>3, <3>5, AppendHas DEF InOrder
    <3>7. Increasing(got'[r])
      BY <1>1, <2>2, <3>1, <3>3, <3>4, <3>5, AppendIncreases DEF InOrder
    <3>8. inbox[r] = <<>>
      BY <2>1 DEF Sub
    <3>9. InOrder(r)'
      BY <1>1, <2>1, <2>2, <3>2, <3>3, <3>6, <3>7, <3>8, EmptyHas DEF InOrder, Below
    <3> QED
      BY <1>1, <2>1, <3>2, <3>6, <3>9 DEF Heard
  <2>3. OwnConv(r)' = OwnConv(r)
    BY <1>1, <2>1 DEF OwnConv
  <2> QED
    BY <2>1, <2>2, <2>3 DEF Sub, PastHeard, AllHeard
<1>4. CASE GoesLive(r)
  <2>1. /\ pc[r] = "yielding" /\ backlog[r] = <<>> /\ pc'[r] = "live" /\ joined'[r] = Len(log)
        /\ UNCHANGED <<req, asked, backlog, inbox, got>> /\ asked[r] \in 0..Len(log)
    BY <1>1, <1>4 DEF GoesLive, TypeOK
  <2>2. InOrder(r) => InOrder(r)'
    BY <1>1, <2>1 DEF InOrder, Below
  <2>3. OwnConv(r)' = OwnConv(r) /\ \A e : Heard(r, e) => Heard(r, e)'
    BY <1>1, <2>1 DEF OwnConv, Heard
  <2>4. PastHeard(r) => AllHeard(r)'
    <3>1. \A e \in OwnConv(r) : e <= asked[r] \/ e \in (asked[r] + 1)..Len(log)
      BY <1>1, <2>1 DEF OwnConv
    <3> QED
      BY <2>1, <2>3, <3>1 DEF PastHeard, AllHeard
  <2> QED
    BY <2>1, <2>2, <2>4 DEF Sub
<1>5. CASE Receives(r)
  <2>1. /\ pc[r] = "live" /\ inbox[r] # <<>> /\ got'[r] = Append(got[r], Head(inbox[r]))
        /\ inbox'[r] = Tail(inbox[r]) /\ UNCHANGED <<pc, req, asked, joined, backlog>>
    BY <1>1, <1>5 DEF Receives, TypeOK
  <2>2. ASSUME InOrder(r)
        PROVE  InOrder(r)' /\ \A e : Heard(r, e) => Heard(r, e)'
    <3> DEFINE h == Head(inbox[r])
    <3>1. inbox[r] \in Seq(Int) /\ got[r] \in Seq(Int)
      BY <1>1, <2>2, SeqWiden DEF InOrder
    <3>2. /\ ToSet(inbox[r]) = {h} \cup ToSet(inbox'[r]) /\ Increasing(inbox'[r])
          /\ \A x \in ToSet(inbox'[r]) : h < x
      BY <2>1, <2>2, <3>1, HeadTail DEF InOrder
    <3>3. h \in DOMAIN log /\ inbox'[r] \in Seq(DOMAIN log)
      BY <2>1, <2>2, HeadTyped DEF InOrder
    <3>4. \A x \in ToSet(got[r]) : x < h
      BY <2>2, <3>2 DEF InOrder, Below
    <3> HIDE DEF h
    <3>5. got'[r] = Append(got[r], h)
      BY <2>1 DEF h
    <3>6. got'[r] \in Seq(DOMAIN log) /\ ToSet(got'[r]) = ToSet(got[r]) \cup {h}
      BY <2>2, <3>3, <3>5, AppendHas DEF InOrder
    <3>7. Increasing(got'[r])
      BY <1>1, <2>2, <3>1, <3>3, <3>4, <3>5, AppendIncreases DEF InOrder
    <3>8. backlog[r] = <<>>
      BY <2>1 DEF Sub
    <3>9. InOrder(r)'
      BY <1>1, <2>1, <2>2, <3>2, <3>3, <3>6, <3>7, <3>8, EmptyHas DEF InOrder, Below
    <3> QED
      BY <1>1, <2>1, <3>2, <3>6, <3>9 DEF Heard
  <2>3. OwnConv(r)' = OwnConv(r)
    BY <1>1, <2>1 DEF OwnConv
  <2> QED
    BY <2>1, <2>2, <2>3 DEF Sub, PastHeard, AllHeard
<1> QED
  BY <1>2, <1>3, <1>4, <1>5

LEMMA SubFetches ==
  ASSUME Core, NEW r \in Subscribers, RunsFetch, Task = r, Sub(r)
  PROVE  Sub(r)'
<1>1. PICK s \in Seq(DOMAIN log) :
        /\ pc[r] = "reading" /\ UNCHANGED <<log, req, asked, inbox, lost>>
        /\ backlog' = [backlog EXCEPT ![r] = s]
        /\ pc' = [pc EXCEPT ![r] = IF s = <<>> THEN "live" ELSE "yielding"]
        /\ joined' = [joined EXCEPT ![r] = IF s = <<>> THEN Len(log) ELSE @]
        /\ UNCHANGED got
        /\ req[r].conv # All =>
             /\ Increasing(s)
             /\ \A e \in DOMAIN log :
                  Matches(req[r], log[e]) /\ e > req[r].since /\ e <= asked[r] =>
                    e \in ToSet(s) \/ e \in lost
  <2>1. r \notin Queriers
    BY EventBusAssumption
  <2> QED
    BY <2>1, Fetches
<1>2. /\ backlog'[r] = s /\ pc'[r] = IF s = <<>> THEN "live" ELSE "yielding"
      /\ s = <<>> => joined'[r] = Len(log)
      /\ r \in Readers /\ got[r] = <<>> /\ inbox[r] = <<>> /\ asked[r] \in 0..Len(log)
      /\ Len(log) \in Nat /\ DOMAIN log = 1..Len(log)
  BY <1>1, LogTyped DEF Core, TypeOK, Readers, Sub
<1>3. ASSUME req[r].conv # All PROVE InOrder(r)' /\ PastHeard(r)'
  <2>1. InOrder(r)'
    BY <1>1, <1>2, <1>3, EmptyHas DEF InOrder, Below
  <2> QED
    BY <1>1, <1>2, <1>3, <2>1 DEF PastHeard, OwnConv, Heard
<1>4. ASSUME req[r].conv # All, s = <<>> PROVE AllHeard(r)'
  <2>1. \A e \in OwnConv(r)' : e <= asked[r] \/ e \in (asked[r] + 1)..Len(log)
    BY <1>1, <1>2 DEF OwnConv
  <2> QED
    BY <1>1, <1>2, <1>3, <1>4, <2>1 DEF AllHeard, PastHeard
<1> QED
  BY <1>1, <1>2, <1>3, <1>4 DEF Sub

(* What takes an event does not give it back.                               *)
LEMMA LostGrows ==
  ASSUME Core, Next
  PROVE  lost \subseteq lost'
<1>1. CASE Crash
  <2>1. lost \subseteq DOMAIN log /\ \A e \in lost : e \notin ToSet(rows)
    BY DEF Core, Order, Held
  <2>2. {rows[i] : i \in 1..durable} \subseteq ToSet(rows)
    <3>1. 1..durable \subseteq DOMAIN rows
      BY DEF Core, TypeOK
    <3> QED
      BY <3>1 DEF ToSet
  <2>3. DOMAIN log = 1..Len(log)
    BY LogTyped DEF Core
  <2> QED
    BY <1>1, <2>1, <2>2, <2>3 DEF Crash
<1>2. CASE ~Crash
  BY <1>2 DEF Next, Emit, WriterTakes, DbStep, RunsInsert, RunsCommit, RunsSelect, RunsFetch, RunsClose,
     FailsInsert, Reads, FindsNothing, Asks, Subscribes, Yields, GoesLive, Receives, Leaves, Close, Initialize
<1> QED
  BY <1>1, <1>2

LEMMA SubSteps ==
  ASSUME Core, [Next]_vars, NEW r \in Subscribers, Sub(r)
  PROVE  Sub(r)'
<1> USE DEF Core
<1>1. r \in Readers
  BY DEF Readers
<1>2. CASE UNCHANGED vars
  BY <1>2, SubStays DEF vars, reader
<1>3. CASE Emit
  BY <1>3, SubEmits
<1>4. CASE WriterTakes \/ Close \/ Initialize
  BY <1>4, SubStays DEF WriterTakes, Close, Initialize, reader
<1>5. ASSUME NEW x \in Readers,
             \/ Reads(x) \/ FindsNothing(x) \/ Subscribes(x)
             \/ Yields(x) \/ GoesLive(x) \/ Receives(x) \/ Leaves(x)
      PROVE  Sub(r)'
  <2>1. CASE x # r
    <3>1. /\ pc'[r] = pc[r] /\ req'[r] = req[r] /\ asked'[r] = asked[r] /\ joined'[r] = joined[r]
          /\ backlog'[r] = backlog[r] /\ inbox'[r] = inbox[r] /\ got'[r] = got[r]
      BY <1>1, <1>5, <2>1
         DEF TypeOK, Reads, FindsNothing, Asks, Subscribes, Yields, GoesLive, Receives, Leaves
    <3>2. UNCHANGED <<log, lost>>
      BY <1>5 DEF Reads, FindsNothing, OfQuery, Asks, Subscribes, Yields, GoesLive, Receives, Leaves
    <3> QED
      BY <3>1, <3>2, SubStays
  <2>2. CASE x = r /\ ~Reads(r) /\ ~Leaves(r)
    <3>1. ~FindsNothing(r)
      BY EventBusAssumption DEF FindsNothing
    <3> QED
      BY <1>5, <2>2, <3>1, SubListens
  <2>3. CASE x = r /\ Reads(r)
    <3>1. /\ UNCHANGED <<log, backlog, inbox>> /\ pc'[r] = "reading" /\ got'[r] = <<>>
          /\ pc[r] \in {"idle", "answered"}
      BY <1>1, <2>3 DEF Reads, Asks, TypeOK
    <3>2. backlog[r] = <<>> /\ inbox[r] = <<>>
      BY <3>1 DEF Sub
    <3> QED
      BY <3>1, <3>2, SubStops
  <2>4. CASE x = r /\ Leaves(r)
    <3>1. /\ UNCHANGED log /\ pc'[r] = "idle" /\ backlog'[r] = <<>> /\ inbox'[r] = <<>>
          /\ got'[r] = <<>>
      BY <1>1, <2>4 DEF Leaves, TypeOK
    <3> QED
      BY <3>1, SubStops
  <2> QED
    BY <2>1, <2>2, <2>3, <2>4
<1>6. CASE RunsInsert \/ RunsCommit \/ RunsSelect
  BY <1>6, SubStays DEF RunsInsert, RunsCommit, RunsSelect, Runs
<1>7. CASE RunsFetch
  <2>1. CASE Task = r
    BY <1>7, <2>1, SubFetches
  <2>2. CASE Task # r
    <3>1. /\ pc'[r] = pc[r] /\ joined'[r] = joined[r] /\ backlog'[r] = backlog[r] /\ got'[r] = got[r]
          /\ UNCHANGED <<req, asked, inbox, log, lost>>
      BY <1>1, <1>7, <2>2, FetchesForOne
    <3> QED
      BY <3>1, SubStays
  <2> QED
    BY <2>1, <2>2
<1>8. CASE FailsInsert
  <2>1. /\ UNCHANGED <<log, req, asked, joined, backlog, inbox, got>> /\ lost \subseteq lost'
        /\ pc'[r] = IF r = Task THEN "idle" ELSE pc[r]
        /\ thread # <<>>
    BY <1>1, <1>8 DEF FailsInsert, Runs
  <2>2. CASE r # Task
    BY <2>1, <2>2, SubStays
  <2>3. CASE r = Task
    <3>1. pc[r] = "reading"
      BY <1>1, <2>1, <2>3, ThreadTyped DEF ReaderOps
    <3>2. backlog[r] = <<>> /\ inbox[r] = <<>>
      BY <3>1 DEF Sub
    <3> QED
      BY <2>1, <2>3, <3>2, SubStops
  <2> QED
    BY <2>2, <2>3
<1>9. CASE RunsClose
  <2>1. /\ UNCHANGED <<log, req, asked, joined, backlog, inbox, got>> /\ lost \subseteq lost'
        /\ pc'[r] = IF pc[r] = "reading" THEN "idle" ELSE pc[r]
    BY <1>1, <1>9 DEF RunsClose, Runs
  <2>2. CASE pc[r] # "reading"
    BY <2>1, <2>2, SubStays
  <2>3. CASE pc[r] = "reading"
    <3>1. backlog[r] = <<>> /\ inbox[r] = <<>>
      BY <2>3 DEF Sub
    <3> QED
      BY <2>1, <2>3, <3>1, SubStops
  <2> QED
    BY <2>2, <2>3
<1>10. CASE Crash
  <2>1. /\ UNCHANGED <<log, req, got>> /\ pc'[r] = "idle" /\ backlog'[r] = <<>> /\ inbox'[r] = <<>>
    BY <1>1, <1>10 DEF Crash
  <2> QED
    BY <2>1, SubStops
<1> QED
  BY <1>2, <1>3, <1>4, <1>5, <1>6, <1>7, <1>8, <1>9, <1>10 DEF Next, DbStep

LEMMA SubInitially ==
  ASSUME Init, NEW r \in Subscribers
  PROVE  Sub(r)
<1>1. /\ pc[r] = "idle" /\ got[r] = <<>> /\ backlog[r] = <<>> /\ inbox[r] = <<>>
  BY DEF Init, Readers
<1> QED
  BY <1>1, EmptyHas DEF Sub, InOrder, Below

LEMMA SubMisses ==
  ASSUME NEW r \in Subscribers, Sub(r), req[r].conv # All, DOMAIN log \subseteq Int
  PROVE  LET given == got[r] \o backlog[r] \o inbox[r] IN
         /\ Increasing(given)
         /\ pc[r] = "live" =>
              OwnConv(r) \subseteq ToSet(given) \cup lost \cup (asked[r] + 1)..joined[r]
<1> DEFINE given == got[r] \o backlog[r] \o inbox[r]
<1>1. InOrder(r)
  BY DEF Sub
<1>2. /\ got[r] \in Seq(Int) /\ backlog[r] \in Seq(Int) /\ inbox[r] \in Seq(Int)
      /\ Increasing(got[r]) /\ Increasing(backlog[r]) /\ Increasing(inbox[r])
      /\ Below(got[r], backlog[r]) /\ Below(got[r], inbox[r])
  BY <1>1, SeqWiden DEF InOrder
<1>3. backlog[r] = <<>> \/ inbox[r] = <<>>
  BY DEF Sub
<1>4. Increasing(given) /\ ToSet(given) = ToSet(got[r]) \cup ToSet(backlog[r]) \cup ToSet(inbox[r])
  <2> DEFINE front == got[r] \o backlog[r]
  <2>1. /\ front \in Seq(Int) /\ Increasing(front)
        /\ ToSet(front) = ToSet(got[r]) \cup ToSet(backlog[r])
    BY <1>2, ConcatHas, ConcatIncreases
  <2>2. Below(front, inbox[r])
    BY <1>2, <1>3, <2>1, EmptyHas DEF Below
  <2>3. given = front \o inbox[r]
    OBVIOUS
  <2> HIDE DEF front, given
  <2> QED
    BY <1>2, <2>1, <2>2, <2>3, ConcatHas, ConcatIncreases
<1> HIDE DEF given
<1>5. ASSUME pc[r] = "live"
      PROVE  OwnConv(r) \subseteq ToSet(given) \cup lost \cup (asked[r] + 1)..joined[r]
  BY <1>4, <1>5 DEF Sub, AllHeard, Heard
<1> QED
  BY <1>4, <1>5 DEF given

(* A subscriber to a conversation is given its events in order and none     *)
(* twice, and once it is live it misses only those emitted between its      *)
(* reading of the past and its joining the live subscribers, and those the  *)
(* store lost (subscribe registers after the replay).                       *)
THEOREM SubscribersMissTheWindowOnly == Spec => []SubscriberMissesTheWindowOnly
<1> DEFINE Inv == Core /\ \A r \in Subscribers : Sub(r)
<1>1. Init => Inv
  BY CoreInitially, SubInitially
<1>2. Inv /\ [Next]_vars => Inv'
  BY CoreSteps, SubSteps
<1>3. Inv => SubscriberMissesTheWindowOnly
  BY SubMisses, LogTyped DEF SubscriberMissesTheWindowOnly, Core
<1> HIDE DEF Inv
<1> QED
  BY <1>1, <1>2, <1>3, PTL DEF Spec

-------------------------------------------------------------------------------
(* Queries                                                                  *)

(* Only query_events is a querier's, and it asks about one conversation.    *)
Query(r) ==
  /\ pc[r] \in {"idle", "reading", "answered"}
  /\ \/ req[r] = NoRequest
     \/ /\ req[r] \in Requests /\ req[r].conv # All /\ req[r].role # "customer"
        /\ req[r].since # NoSince

LEMMA QuerySteps ==
  ASSUME Core, [Next]_vars, NEW r \in Queriers, Query(r)
  PROVE  Query(r)'
<1> USE DEF Core
<1>1. r \in Readers /\ r \notin Subscribers
  BY EventBusAssumption DEF Readers
<1>2. CASE UNCHANGED vars
  BY <1>2 DEF Query, vars, reader
<1>3. CASE Emit \/ WriterTakes \/ Close \/ Initialize \/ RunsInsert \/ RunsCommit \/ RunsSelect
  BY <1>3 DEF Query, Emit, WriterTakes, Close, Initialize, RunsInsert, RunsCommit, RunsSelect, Runs,
     reader
<1>4. ASSUME NEW x \in Readers,
             \/ Reads(x) \/ FindsNothing(x) \/ Subscribes(x)
             \/ Yields(x) \/ GoesLive(x) \/ Receives(x) \/ Leaves(x)
      PROVE  Query(r)'
  <2>1. CASE x # r
    <3>1. pc'[r] = pc[r] /\ req'[r] = req[r]
      BY <1>1, <1>4, <2>1
         DEF TypeOK, Reads, FindsNothing, Asks, Subscribes, Yields, GoesLive, Receives, Leaves
    <3> QED
      BY <3>1 DEF Query
  <2>2. CASE x = r
    <3>1. Reads(r) \/ FindsNothing(r)
      BY <1>1, <1>4, <2>2 DEF Query, Subscribes, Yields, GoesLive, Receives, Leaves
    <3>2. \E q \in Requests : /\ OfQuery(q) /\ req' = [req EXCEPT ![r] = q]
                               /\ \/ pc' = [pc EXCEPT ![r] = "reading"]
                                  \/ pc' = [pc EXCEPT ![r] = "answered"]
      BY <3>1 DEF Reads, FindsNothing, Asks
    <3> QED
      BY <1>1, <3>2 DEF OfQuery, TypeOK, Query
  <2> QED
    BY <2>1, <2>2
<1>5. CASE RunsFetch
  <2>1. CASE Task = r
    BY <1>1, <1>5, <2>1, FetchesForQuery DEF Query
  <2>2. CASE Task # r
    BY <1>1, <1>5, <2>2, FetchesForOne DEF Query
  <2> QED
    BY <2>1, <2>2
<1>6. CASE FailsInsert \/ RunsClose \/ Crash
  <2>1. UNCHANGED req /\ pc'[r] \in {"idle", pc[r]}
    BY <1>1, <1>6 DEF FailsInsert, RunsClose, Crash, Runs
  <2> QED
    BY <2>1 DEF Query
<1> QED
  BY <1>2, <1>3, <1>4, <1>5, <1>6 DEF Next, DbStep

(* The steps of the bus as EventHistory has them. A query is pending while   *)
(* it reads, and the store is open while the bus has a connection.          *)
ForQueries == \A r \in Queriers : req'[r] = req[r] /\ asked'[r] = asked[r] /\ got'[r] = got[r]
SameReading == \A r \in Queriers : pc'[r] = "reading" <=> pc[r] = "reading"

LEMMA HistoryStays ==
  ASSUME ForQueries
  PROVE  /\ [r \in Queriers |-> [conv |-> req'[r].conv, since |-> req'[r].since]]
              = [r \in Queriers |-> [conv |-> req[r].conv, since |-> req[r].since]]
         /\ [r \in Queriers |-> asked'[r]] = [r \in Queriers |-> asked[r]]
         /\ [r \in Queriers |-> got'[r]] = [r \in Queriers |-> got[r]]
  BY DEF ForQueries

LEMMA PendingStays ==
  ASSUME SameReading
  PROVE  {r \in Queriers : pc'[r] = "reading"} = {r \in Queriers : pc[r] = "reading"}
  BY DEF SameReading

LEMMA OpenStays ==
  ASSUME state' = "closed" <=> state = "closed"
  PROVE  (state' # "closed") = (state # "closed")
  OBVIOUS

LEMMA HistoryEmits ==
  ASSUME TypeOK, Emit
  PROVE  History!Emit
<1> DEFINE new == Stream[Len(log) + 1]
           past == [i \in DOMAIN log |-> log[i].conv]
           next == [i \in DOMAIN log' |-> log'[i].conv]
           Convs == {q.conv : q \in Requests} \cup {e.conv : e \in ToSet(Stream)}
<1>1. /\ ForQueries /\ log' = Append(log, new) /\ Len(log) < Len(Stream)
      /\ UNCHANGED <<lost, pc, state>>
  BY DEF Emit, ForQueries
<1>2. /\ \A i \in DOMAIN log : log'[i] = log[i]
      /\ DOMAIN log' = DOMAIN log \cup {Len(log) + 1} /\ Len(log) \in Nat /\ DOMAIN log = 1..Len(log)
      /\ log'[Len(log) + 1] = new /\ Len(log) + 1 \in DOMAIN Stream
  BY <1>1, LogTyped, EmitsLog DEF Ids
<1>3. new.conv \in Convs
  <2>1. new \in ToSet(Stream)
    BY <1>2 DEF ToSet
  <2> QED
    BY <2>1
<1> HIDE DEF new
<1>4. next = Append(past, new.conv)
  <2>1. DOMAIN past = 1..Len(log) /\ Len(past) = Len(log)
    BY <1>2
  <2>2. Append(past, new.conv) = [i \in 1..(Len(past) + 1) |-> IF i \in 1..Len(past) THEN past[i] ELSE new.conv]
    OBVIOUS
  <2>3. DOMAIN next = 1..(Len(log) + 1)
    BY <1>2
  <2>4. \A i \in 1..(Len(log) + 1) : next[i] = IF i \in 1..Len(log) THEN past[i] ELSE new.conv
    BY <1>2
  <2> HIDE DEF past
  <2>5. next = [i \in 1..(Len(log) + 1) |-> IF i \in 1..Len(log) THEN past[i] ELSE new.conv]
    BY <2>3, <2>4
  <2> QED
    BY <2>1, <2>2, <2>5
<1>5. \E c \in Convs : next = Append(past, c)
  BY <1>3, <1>4
<1> QED
  BY <1>1, <1>5, HistoryStays DEF History!Emit

LEMMA HistoryDisturbed ==
  ASSUME UNCHANGED log, lost \subseteq lost', lost' \subseteq DOMAIN log, ForQueries,
         \A r \in Queriers : pc'[r] = "reading" => pc[r] = "reading"
  PROVE  History!Disturb
<1>1. DOMAIN [i \in DOMAIN log |-> log[i].conv] = DOMAIN log
  OBVIOUS
<1>2. {r \in Queriers : pc'[r] = "reading"} \in SUBSET {r \in Queriers : pc[r] = "reading"}
  OBVIOUS
<1>3. (state' # "closed") \in BOOLEAN
  OBVIOUS
<1> QED
  BY <1>1, <1>2, <1>3, HistoryStays DEF History!Disturb

LEMMA HistoryStutters ==
  ASSUME UNCHANGED <<log, lost>>, ForQueries, SameReading, state' = "closed" <=> state = "closed"
  PROVE  UNCHANGED History!vars
  BY HistoryStays, PendingStays, OpenStays DEF History!vars

LEMMA HistoryAsks ==
  ASSUME Core, NEW r \in Queriers, Reads(r) \/ FindsNothing(r)
  PROVE  History!Ask(r) \/ History!AskInVain(r)
<1> DEFINE query == [x \in Queriers |-> [conv |-> req[x].conv, since |-> req[x].since]]
           nextQuery == [x \in Queriers |-> [conv |-> req'[x].conv, since |-> req'[x].since]]
           Convs == {q.conv : q \in Requests} \cup {e.conv : e \in ToSet(Stream)}
<1>1. PICK q \in Requests :
        /\ req' = [req EXCEPT ![r] = q] /\ got' = [got EXCEPT ![r] = <<>>]
        /\ asked' = [asked EXCEPT ![r] = Len(log)] /\ q.since # NoSince /\ UNCHANGED <<log, lost, state>>
        /\ pc[r] # "reading"
  BY DEF Reads, FindsNothing, OfQuery, Asks
<1>2. /\ \A x \in Queriers : /\ req'[x] = IF x = r THEN q ELSE req[x]
                             /\ got'[x] = IF x = r THEN <<>> ELSE got[x]
                             /\ asked'[x] = IF x = r THEN Len(log) ELSE asked[x]
  BY <1>1 DEF Core, TypeOK, Readers
<1>3. nextQuery = [query EXCEPT ![r] = [conv |-> q.conv, since |-> q.since]]
  BY <1>2
<1>4. [x \in Queriers |-> asked'[x]] = [[x \in Queriers |-> asked[x]] EXCEPT ![r] = Len(log)]
  BY <1>2
<1>5. [x \in Queriers |-> got'[x]] = [[x \in Queriers |-> got[x]] EXCEPT ![r] = <<>>]
  BY <1>2
<1>6. q.conv \in Convs /\ q.since \in 0..Len(Stream)
  BY <1>1, EventBusAssumption DEF NoSince
<1>7. Len([i \in DOMAIN log |-> log[i].conv]) = Len(log)
  <2>1. Len(log) \in Nat /\ DOMAIN log = 1..Len(log)
    BY LogTyped DEF Core
  <2> QED
    BY <2>1
<1> HIDE DEF query, nextQuery, Convs
<1>8. \E c \in Convs, k \in 0..Len(Stream) : nextQuery = [query EXCEPT ![r] = [conv |-> c, since |-> k]]
  BY <1>3, <1>6
<1>9. r \notin {x \in Queriers : pc[x] = "reading"}
  BY <1>1
<1>10. History!Question(r)
  BY <1>1, <1>4, <1>5, <1>7, <1>8, <1>9 DEF History!Question, query, nextQuery, Convs
<1>11. CASE Reads(r)
  <2>1. state # "closed" /\ pc' = [pc EXCEPT ![r] = "reading"]
    BY <1>11 DEF Reads
  <2>2. {x \in Queriers : pc'[x] = "reading"} = {x \in Queriers : pc[x] = "reading"} \cup {r}
    BY <2>1 DEF Core, TypeOK, Readers
  <2> QED
    BY <1>10, <2>1, <2>2 DEF History!Ask
<1>12. CASE FindsNothing(r)
  <2>1. state = "closed" /\ pc' = [pc EXCEPT ![r] = "answered"]
    BY <1>12 DEF FindsNothing
  <2>2. {x \in Queriers : pc'[x] = "reading"} = {x \in Queriers : pc[x] = "reading"}
    BY <1>1, <2>1 DEF Core, TypeOK, Readers
  <2> QED
    BY <1>10, <2>1, <2>2 DEF History!AskInVain
<1> QED
  BY <1>11, <1>12

LEMMA HistoryAnswers ==
  ASSUME Core, RunsFetch, NEW r \in Queriers, r = Task, Query(r)
  PROVE  History!Answer(r)
<1> DEFINE query == [x \in Queriers |-> [conv |-> req[x].conv, since |-> req[x].since]]
           bar == [i \in DOMAIN log |-> log[i].conv]
           wanted == {i \in DOMAIN bar : bar[i] = query[r].conv /\ i > query[r].since}
<1>1. req[r].conv # All /\ req[r].role # "customer"
  BY DEF Query, NoRequest, All
<1>2. PICK s \in Seq(DOMAIN log) :
        /\ UNCHANGED <<state, log, req, asked, lost>>
        /\ pc[r] = "reading" /\ pc' = [pc EXCEPT ![r] = "answered"]
        /\ got' = [got EXCEPT ![r] = FirstOf(s)]
        /\ Increasing(s)
        /\ \A e \in ToSet(s) : e \in DOMAIN log /\ Matches(req[r], log[e]) /\ e > req[r].since
        /\ \A e \in DOMAIN log :
             Matches(req[r], log[e]) /\ e > req[r].since /\ e <= asked[r] => e \in ToSet(s) \/ e \in lost
        /\ \E T : ToSet(s) = T /\ s \in SetToSeqs(T)
  BY <1>1, Fetches
<1>3. \A e : Matches(req[r], e) <=> e.conv = req[r].conv
  BY <1>1 DEF Matches
<1>5. \A i : i \in wanted <=> i \in DOMAIN log /\ log[i].conv = req[r].conv /\ i > req[r].since
  OBVIOUS
<1>6. ToSet(s) \in SUBSET wanted
  BY <1>2, <1>3, <1>5
<1>7. wanted \cap 1..asked[r] \subseteq ToSet(s) \cup lost
  <2>1. \A i \in 1..asked[r] : i <= asked[r]
    <3>1. asked[r] \in Int
      BY DEF Core, TypeOK, Readers
    <3> QED
      BY <3>1
  <2> QED
    BY <1>2, <1>3, <1>5, <2>1
<1>8. s \in History!SetToSeqs(ToSet(s)) /\ History!Increasing(s) /\ History!FirstOf(s) = FirstOf(s)
  <2>1. s \in SetToSeqs(ToSet(s))
    BY <1>2
  <2>2. Cardinality(ToSet(s)) = History!Cardinality(ToSet(s))
    BY DEF Cardinality, History!Cardinality
  <2>3. s \in History!SetToSeqs(ToSet(s))
    BY <2>1, <2>2 DEF SetToSeqs, History!SetToSeqs
  <2>4. History!Increasing(s) /\ History!FirstOf(s) = FirstOf(s)
    BY <1>2 DEF Increasing, History!Increasing, FirstOf, History!FirstOf
  <2> QED
    BY <2>3, <2>4
<1>9. [x \in Queriers |-> got'[x]] = [[x \in Queriers |-> got[x]] EXCEPT ![r] = FirstOf(s)]
  <2>1. \A x \in Queriers : got'[x] = IF x = r THEN FirstOf(s) ELSE got[x]
    BY <1>2 DEF Core, TypeOK, Readers
  <2> QED
    BY <2>1
<1>10. History!Wanted(r) = wanted
  BY DEF History!Wanted
<1>11. [x \in Queriers |-> asked[x]][r] = asked[r]
  OBVIOUS
<1>12. r \in {x \in Queriers : pc[x] = "reading"}
  BY <1>2
<1>13. {x \in Queriers : pc'[x] = "reading"} = {x \in Queriers : pc[x] = "reading"} \ {r}
  BY <1>2 DEF Core, TypeOK, Readers
<1> HIDE DEF wanted
<1> QED
  BY <1>2, <1>6, <1>7, <1>8, <1>9, <1>10, <1>11, <1>12, <1>13 DEF History!Answer

LEMMA HistorySteps ==
  ASSUME Core, Core', \A r \in Queriers : Query(r), [Next]_vars
  PROVE  [History!Next]_(History!vars)
<1>1. /\ lost' \subseteq DOMAIN log'
  BY DEF Core, Order
<1>2. CASE UNCHANGED vars
  BY <1>2, HistoryStutters DEF vars, reader, ForQueries, SameReading
<1>3. CASE Emit
  BY <1>3, HistoryEmits DEF History!Next, Core
<1>4. CASE WriterTakes \/ Close \/ RunsInsert \/ RunsCommit \/ RunsSelect
  <2>1. UNCHANGED <<log, lost>> /\ ForQueries /\ SameReading /\ (state' = "closed" <=> state = "closed")
    BY <1>4 DEF WriterTakes, Close, RunsInsert, RunsCommit, RunsSelect, Runs, reader,
       ForQueries, SameReading
  <2> QED
    BY <2>1, HistoryStutters
<1>5. ASSUME NEW x \in Readers,
             \/ Reads(x) \/ FindsNothing(x) \/ Subscribes(x)
             \/ Yields(x) \/ GoesLive(x) \/ Receives(x) \/ Leaves(x)
      PROVE  [History!Next]_(History!vars)
  <2>1. CASE x \in Queriers
    <3>1. Reads(x) \/ FindsNothing(x)
      BY <1>5, <2>1, EventBusAssumption DEF Query, Subscribes, Yields, GoesLive, Receives, Leaves
    <3> QED
      BY <2>1, <3>1, HistoryAsks DEF History!Next
  <2>2. CASE x \notin Queriers
    <3>1. UNCHANGED <<log, lost, state>>
      BY <1>5 DEF Reads, FindsNothing, OfQuery, Asks, Subscribes, Yields, GoesLive, Receives, Leaves
    <3>2. ASSUME NEW r \in Queriers
          PROVE  req'[r] = req[r] /\ asked'[r] = asked[r] /\ got'[r] = got[r] /\ pc'[r] = pc[r]
      BY <1>5, <2>2 DEF Core, TypeOK, Readers, Reads, FindsNothing, Asks, Subscribes, Yields,
         GoesLive, Receives, Leaves
    <3>3. ForQueries /\ SameReading
      BY <3>2 DEF ForQueries, SameReading
    <3> QED
      BY <3>1, <3>3, HistoryStutters
  <2> QED
    BY <2>1, <2>2
<1>6. CASE RunsFetch
  <2>1. CASE Task \in Queriers
    <3>1. PICK r \in Queriers : r = Task
      BY <2>1
    <3>2. History!Answer(r)
      BY <1>6, <3>1, HistoryAnswers
    <3>3. \E x \in Queriers : History!Ask(x) \/ History!AskInVain(x) \/ History!Answer(x)
      BY <3>2
    <3>4. History!Next
      BY <3>3 DEF History!Next
    <3> QED
      BY <3>4
  <2>2. CASE Task \notin Queriers
    <3>1. ASSUME NEW r \in Queriers
          PROVE  req'[r] = req[r] /\ asked'[r] = asked[r] /\ got'[r] = got[r] /\ pc'[r] = pc[r]
      <4>1. r \in Readers /\ Task # r
        BY <2>2 DEF Readers
      <4> QED
        BY <1>6, <4>1, FetchesForOne
    <3>2. UNCHANGED <<log, lost, state>>
      BY <1>6 DEF RunsFetch, Runs
    <3>3. ForQueries /\ SameReading
      BY <3>1 DEF ForQueries, SameReading
    <3> QED
      BY <3>2, <3>3, HistoryStutters
  <2> QED
    BY <2>1, <2>2
<1>7. CASE FailsInsert \/ RunsClose \/ Crash \/ Initialize
  <2>1. /\ UNCHANGED log /\ ForQueries
        /\ \A r \in Queriers : pc'[r] = "reading" => pc[r] = "reading"
    BY <1>7 DEF FailsInsert, RunsClose, Crash, Runs, Initialize, reader, ForQueries, Core, TypeOK, Readers
  <2>2. lost \subseteq lost'
    BY <1>7, LostGrows DEF Next, DbStep
  <2> QED
    BY <1>1, <2>1, <2>2, HistoryDisturbed DEF History!Next
<1> QED
  BY <1>2, <1>3, <1>4, <1>5, <1>6, <1>7 DEF Next, DbStep

LEMMA HistoryInitially ==
  ASSUME Init
  PROVE  History!Init /\ \A r \in Queriers : Query(r)
<1>1. /\ log = <<>> /\ lost = {}
      /\ \A r \in Queriers : pc[r] = "idle" /\ req[r] = NoRequest /\ asked[r] = 0 /\ got[r] = <<>>
      /\ state = "open"
  BY DEF Init, Readers
<1>2. [i \in DOMAIN log |-> log[i].conv] = <<>>
  BY <1>1
<1> QED
  BY <1>1, <1>2 DEF History!Init, History!NoQuery, NoRequest, Query

(* query_events answers as EventHistory has it: while the bus has its        *)
(* connection with the first events of its conversation after the cursor,    *)
(* among them each that was emitted before the call and not lost, although   *)
(* the write loop may hold a batch that neither the queue nor the table has; *)
(* without a connection with nothing.                                        *)
THEOREM QueriesReadTheHistory == Spec => HistorySpec
<1> DEFINE Inv == Core /\ \A r \in Queriers : Query(r)
<1>1. Init => Inv
  BY CoreInitially, HistoryInitially
<1>2. Inv /\ [Next]_vars => Inv'
  BY CoreSteps, QuerySteps
<1>3. Init => History!Init
  BY HistoryInitially
<1>4. Inv /\ Inv' /\ [Next]_vars => [History!Next]_(History!vars)
  BY HistorySteps
<1> HIDE DEF Inv
<1> QED
  BY <1>1, <1>2, <1>3, <1>4, PTL DEF Spec, HistorySpec, History!Spec
=============================================================================
