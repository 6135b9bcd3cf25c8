------------------------------ MODULE AsyncPool ------------------------------
(***************************************************************************)
(* The pool of Claude Code instances: AsyncPool of socialware/pool.py, as  *)
(* CCPool (autoservice/cc_pool.py) uses it.                                *)
(*                                                                         *)
(* A call runs without interruption until it awaits one of: the factory,   *)
(* the disconnect of a client, the queue of available instances, or one of *)
(* the two locks.  Users are the calls in flight; beside them run the task *)
(* that starts and stops the pool, the health loop, and the refill tasks   *)
(* that checkin spawns.                                                    *)
(***************************************************************************)
EXTENDS Integers, Sequences, FiniteSets

CONSTANTS
  Users,       \* calls that can be in flight together
  Keys,        \* sticky keys (chat ids)
  KeysOf,      \* [Users -> SUBSET Keys]: the keys each call may be made for
  MinSize,     \* min_size
  MaxSize,     \* max_size
  WarmupCount, \* warmup_count
  MaxSticky,   \* max_sticky_bindings, 0 for no limit
  Decline,     \* how clients decline: subset of {"worn", "dead"}
  MaxIds,      \* bound: instance ids in use at one time
  MaxRefills   \* bound: refill tasks waiting at one time

NoKey      == "no_key"
NoInstance == 0
Instances  == 1..MaxIds
Phases     == {"new", "warming", "serving", "cancelling", "destroying", "stopped"}
UserPCs    == {"idle", "discarding", "want_create", "creating", "waiting",
               "discarding_late", "want_replace", "using", "recycling",
               "disconnecting", "want_sticky", "replacing", "want_bind",
               "using_bound", "want_release"}
HealthPCs  == {"off", "sleep", "recycling", "want_lock", "creating",
               "want_sticky", "cleaning"}
Nobody     == "nobody"
Health     == "health"
Refill     == "refill"
Main       == "main"

ASSUME PoolAssumption ==
  /\ MinSize \in Nat /\ MaxSize \in Nat /\ WarmupCount \in Nat
  /\ MaxSticky \in Nat /\ MaxIds \in Nat /\ MaxRefills \in Nat
  /\ KeysOf \in [Users -> SUBSET Keys]
  /\ Decline \subseteq {"worn", "dead"}
  /\ NoKey \notin Keys
  /\ {Nobody, Health, Refill} \cap Users = {}

VARIABLES
  phase,      \* _started and _shutdown_flag, and where start/shutdown are
  warm,       \* instances start() has yet to create
  tracked,    \* _all_instances
  avail,      \* _available
  client,     \* the client of each instance: none, fresh, worn or dead
  sticky,     \* _sticky_bindings
  lock,       \* holder of _lock
  stickyLock, \* holder of _sticky_lock across an await
  pc,         \* where each user's call is suspended
  key,        \* the sticky key it is for, NoKey in checkout and checkin
  held,       \* the instance it has in hand
  hpc,        \* where the health loop is suspended
  refills,    \* _ensure_min_size tasks spawned and not finished
  todo,       \* what the health loop and shutdown have yet to destroy
  current     \* the instance each of them is disconnecting

vars == <<phase, warm, tracked, avail, client, sticky, lock, stickyLock, pc, key,
          held, hpc, refills, todo, current>>
userVars == <<pc, key, held>>
sweepVars == <<todo, current>>
mainVars == <<phase, warm>>
bgVars == <<phase, warm, hpc, refills, todo, current>>
poolVars == <<tracked, avail, client>>
lockVars == <<lock, stickyLock>>

-----------------------------------------------------------------------------
Running  == phase \in {"warming", "serving"}
Stopping == phase \in {"cancelling", "destroying", "stopped"}
Size     == Cardinality(tracked)
Bound    == {k \in Keys : sticky[k] # NoInstance}

(* A client is worn when needs_recycling, and dead when not is_healthy.    *)
IsHealthy(i) == client[i] \in {"fresh", "worn"}
Usable(i)    == client[i] = "fresh"

(* An id names a new instance when nothing refers to an old one of that id.*)
Free == {i \in Instances :
           /\ client[i] = "none"
           /\ i \notin tracked
           /\ \A u \in Users : held[u] # i
           /\ \A k \in Keys : sticky[k] # i
           /\ \A n \in DOMAIN avail : avail[n] # i
           /\ \A r \in {Health, Main} : i \notin todo[r] \union {current[r]}}
NewInstance == CHOOSE i \in Free : \A j \in Free : i <= j

(* _create_instance, once the factory has returned.                        *)
Create == /\ Free # {}
          /\ tracked' = tracked \union {NewInstance}
          /\ client' = [client EXCEPT ![NewInstance] = "fresh"]

Disconnect(i) == client' = [client EXCEPT ![i] = "none"]

At(u, point, k, i) == /\ pc' = [pc EXCEPT ![u] = point]
                      /\ key' = [key EXCEPT ![u] = k]
                      /\ held' = [held EXCEPT ![u] = i]
Return(u) == At(u, "idle", NoKey, NoInstance)

(* asyncio.Lock hands a released lock to its waiters first: a task takes   *)
(* it without suspending only if nobody waits.  Which waiter goes first is *)
(* left open.                                                              *)
LockFree(u) ==
  /\ lock = Nobody
  /\ \A v \in Users \ {u} : pc[v] \notin {"want_create", "want_replace"}
  /\ hpc # "want_lock"
StickyLockFree(u) ==
  /\ stickyLock \in {Nobody, u}
  /\ \A v \in Users \ {u} : pc[v] \notin {"want_sticky", "want_bind", "want_release"}
  /\ hpc # "want_sticky"

(* Destroying the instances S one after the other, r's turn: the next is   *)
(* dropped from the pool and its disconnect awaited.                       *)
SweepNext(r, S) ==
  \/ /\ S = {}
     /\ todo' = [todo EXCEPT ![r] = {}]
     /\ current' = [current EXCEPT ![r] = NoInstance]
     /\ UNCHANGED tracked
  \/ \E i \in S : /\ todo' = [todo EXCEPT ![r] = S \ {i}]
                  /\ current' = [current EXCEPT ![r] = i]
                  /\ tracked' = tracked \ {i}

Init ==
  /\ phase = "new"
  /\ warm = 0
  /\ tracked = {}
  /\ avail = <<>>
  /\ client = [i \in Instances |-> "none"]
  /\ sticky = [k \in Keys |-> NoInstance]
  /\ lock = Nobody
  /\ stickyLock = Nobody
  /\ pc = [u \in Users |-> "idle"]
  /\ key = [u \in Users |-> NoKey]
  /\ held = [u \in Users |-> NoInstance]
  /\ hpc = "off"
  /\ refills = 0
  /\ todo = [r \in {Health, Main} |-> {}]
  /\ current = [r \in {Health, Main} |-> NoInstance]

-----------------------------------------------------------------------------
(* start: the pool counts as started before its instances are there.       *)
Start ==
  /\ phase = "new"
  /\ phase' = IF WarmupCount = 0 THEN "serving" ELSE "warming"
  /\ warm' = WarmupCount
  /\ hpc' = IF WarmupCount = 0 THEN "sleep" ELSE "off"
  /\ UNCHANGED <<sweepVars, userVars, poolVars, lockVars, sticky, refills>>

(* One instance warmed, or its factory failed; the last starts the loop,   *)
(* which ends at once after a shutdown: start() itself does not look at it.*)
Warmed ==
  /\ phase # "new" /\ warm > 0
  /\ \/ Create /\ avail' = Append(avail, NewInstance)
     \/ UNCHANGED <<poolVars>>
  /\ warm' = warm - 1
  /\ IF phase = "warming" /\ warm = 1 THEN phase' = "serving" /\ hpc' = "sleep"
                                      ELSE UNCHANGED <<phase, hpc>>
  /\ UNCHANGED <<sweepVars, userVars, lockVars, sticky, refills>>

(* Queries and time wear a client until needs_recycling; a process dies.   *)
Declines(i) ==
  /\ \E condition \in Decline :
       /\ \/ client[i] = "fresh"
          \/ client[i] = "worn" /\ condition = "dead"
       /\ client' = [client EXCEPT ![i] = condition]
  /\ UNCHANGED <<bgVars, userVars, lockVars, tracked, avail, sticky>>

-----------------------------------------------------------------------------
(* checkout, for a sticky key or for NoKey.  bindings is _sticky_bindings  *)
(* as the step leaves it, but for what it binds itself.  An instance in    *)
(* hand is the caller's at once, or is bound first.                        *)
Obtained(u, k, i, bindings) ==
  \/ /\ k = NoKey
     /\ At(u, "using", k, i)
     /\ sticky' = bindings
  \/ /\ k # NoKey
     /\ ~ StickyLockFree(u)
     /\ At(u, "want_bind", k, i)
     /\ sticky' = bindings
  \/ /\ k # NoKey
     /\ StickyLockFree(u)
     /\ sticky' = [bindings EXCEPT ![k] = i]
     /\ At(u, "using_bound", k, i)

(* With _lock in hand: create below max_size, else wait for a return.      *)
CreateBelowMax(u, k) ==
  IF Size < MaxSize THEN lock' = u /\ At(u, "creating", k, NoInstance)
                    ELSE UNCHANGED lock /\ At(u, "waiting", k, NoInstance)

TryCreate(u, k) ==
  \/ LockFree(u) /\ CreateBelowMax(u, k)
  \/ ~ LockFree(u) /\ UNCHANGED lock /\ At(u, "want_create", k, NoInstance)

(* An instance off the queue is handed out only if it is usable; else it   *)
(* is destroyed first, at point.                                           *)
TakeHead(u, k, point, bindings) ==
  /\ avail # <<>>
  /\ avail' = Tail(avail)
  /\ \/ /\ Usable(Head(avail))
        /\ Obtained(u, k, Head(avail), bindings)
        /\ UNCHANGED tracked
     \/ /\ ~ Usable(Head(avail))
        /\ tracked' = tracked \ {Head(avail)}
        /\ At(u, point, k, Head(avail))
        /\ sticky' = bindings
  /\ UNCHANGED lock

Checkout(u, k, bindings) ==
  \/ /\ ~ Running
     /\ Return(u)
     /\ sticky' = bindings
     /\ UNCHANGED <<tracked, avail, lock>>
  \/ /\ Running
     /\ TakeHead(u, k, "discarding", bindings)
  \/ /\ Running
     /\ avail = <<>>
     /\ TryCreate(u, k)
     /\ sticky' = bindings
     /\ UNCHANGED <<tracked, avail>>

Acquire(u) ==
  /\ pc[u] = "idle"
  /\ Running
  /\ Checkout(u, NoKey, sticky)
  /\ UNCHANGED <<bgVars, client, stickyLock>>

DiscardDone(u) ==
  /\ pc[u] = "discarding"
  /\ Disconnect(held[u])
  /\ TryCreate(u, key[u])
  /\ UNCHANGED <<bgVars, tracked, avail, sticky, stickyLock>>

CreateGranted(u) ==
  /\ pc[u] = "want_create"
  /\ lock = Nobody
  /\ CreateBelowMax(u, key[u])
  /\ UNCHANGED <<bgVars, poolVars, sticky, stickyLock>>

Created(u) ==
  /\ pc[u] = "creating"
  /\ Create
  /\ lock' = Nobody
  /\ Obtained(u, key[u], NewInstance, sticky)
  /\ UNCHANGED <<bgVars, avail, stickyLock>>

(* Defect: a factory that raises leaves the lock taken.                    *)
CreateFailsKeepsLock(u) ==
  /\ pc[u] = "creating"
  /\ Return(u)
  /\ UNCHANGED <<bgVars, poolVars, lockVars, sticky>>

CreateFails(u) ==
  /\ pc[u] = "creating"
  /\ lock' = Nobody
  /\ Return(u)
  /\ UNCHANGED <<bgVars, poolVars, sticky, stickyLock>>

TakeReturned(u) ==
  /\ pc[u] = "waiting"
  /\ TakeHead(u, key[u], "discarding_late", sticky)
  /\ UNCHANGED <<bgVars, client, stickyLock>>

WaitTimesOut(u) ==
  /\ pc[u] = "waiting"
  /\ Return(u)
  /\ UNCHANGED <<bgVars, poolVars, lockVars, sticky>>

(* After a wait, a replacement is created without another look at Size.    *)
LateDiscardDone(u) ==
  /\ pc[u] = "discarding_late"
  /\ Disconnect(held[u])
  /\ \/ LockFree(u) /\ lock' = u /\ At(u, "creating", key[u], NoInstance)
     \/ ~ LockFree(u) /\ UNCHANGED lock /\ At(u, "want_replace", key[u], NoInstance)
  /\ UNCHANGED <<bgVars, tracked, avail, sticky, stickyLock>>

ReplaceGranted(u) ==
  /\ pc[u] = "want_replace"
  /\ lock = Nobody
  /\ lock' = u
  /\ At(u, "creating", key[u], NoInstance)
  /\ UNCHANGED <<bgVars, poolVars, sticky, stickyLock>>

(* checkin of instance i.                                                  *)
CheckIn(u, i) ==
  \/ /\ Stopping \/ ~ Usable(i)
     /\ tracked' = tracked \ {i}
     /\ At(u, IF Stopping THEN "disconnecting" ELSE "recycling", NoKey, i)
     /\ UNCHANGED avail
  \/ /\ ~ Stopping
     /\ Usable(i)
     /\ avail' = Append(avail, i)
     /\ Return(u)
     /\ UNCHANGED tracked

GiveBack(u) ==
  /\ pc[u] = "using"
  /\ CheckIn(u, held[u])
  /\ UNCHANGED <<bgVars, lockVars, client, sticky>>

(* Disconnected; a checkin that recycled its instance spawns a refill.     *)
CheckInDone(u) ==
  /\ \/ pc[u] = "disconnecting" /\ UNCHANGED refills
     \/ pc[u] = "recycling" /\ refills < MaxRefills /\ refills' = refills + 1
  /\ Disconnect(held[u])
  /\ Return(u)
  /\ UNCHANGED <<mainVars, sweepVars, lockVars, tracked, avail, sticky, hpc>>

-----------------------------------------------------------------------------
(* acquire_sticky.  An unbound key is checked against the limit, and then  *)
(* checked out for with _sticky_lock released.                             *)
CheckoutFor(u, k, bindings) ==
  LET full == /\ MaxSticky > 0
              /\ Cardinality({b \in Keys : bindings[b] # NoInstance}) >= MaxSticky
  IN  \/ /\ full
         /\ Return(u)
         /\ sticky' = bindings
         /\ UNCHANGED <<tracked, avail, lock>>
      \/ /\ ~ full
         /\ Checkout(u, k, bindings)

(* Defect: an unhealthy binding is forgotten instead of destroyed.         *)
LookUpForgets(u, k) ==
  \/ /\ sticky[k] # NoInstance
     /\ IsHealthy(sticky[k])
     /\ At(u, "using_bound", k, sticky[k])
     /\ UNCHANGED <<lockVars, tracked, avail, sticky>>
  \/ /\ sticky[k] # NoInstance => ~ IsHealthy(sticky[k])
     /\ CheckoutFor(u, k, [sticky EXCEPT ![k] = NoInstance])
     /\ UNCHANGED stickyLock

(* With _sticky_lock in hand: a healthy binding is a hit, an unhealthy one *)
(* is destroyed with the lock held.                                        *)
LookUp(u, k) ==
  \/ /\ sticky[k] # NoInstance
     /\ IsHealthy(sticky[k])
     /\ At(u, "using_bound", k, sticky[k])
     /\ UNCHANGED <<lockVars, tracked, avail, sticky>>
  \/ /\ sticky[k] # NoInstance
     /\ ~ IsHealthy(sticky[k])
     /\ tracked' = tracked \ {sticky[k]}
     /\ stickyLock' = u
     /\ At(u, "replacing", k, sticky[k])
     /\ UNCHANGED <<avail, sticky, lock>>
  \/ /\ sticky[k] = NoInstance
     /\ CheckoutFor(u, k, sticky)
     /\ UNCHANGED stickyLock

AcquireSticky(u, k) ==
  /\ pc[u] = "idle"
  /\ Running
  /\ \/ /\ StickyLockFree(u)
        /\ LookUp(u, k)
     \/ /\ ~ StickyLockFree(u)
        /\ At(u, "want_sticky", k, NoInstance)
        /\ UNCHANGED <<lockVars, tracked, avail, sticky>>
  /\ UNCHANGED <<bgVars, client>>

StickyGranted(u) ==
  /\ pc[u] = "want_sticky"
  /\ stickyLock = Nobody
  /\ LookUp(u, key[u])
  /\ UNCHANGED <<bgVars, client>>

(* The unhealthy instance is gone: the key is unbound and checked out for. *)
(* If a shutdown has dropped the binding meanwhile, the del raises.        *)
ReplaceSticky(u) ==
  /\ pc[u] = "replacing"
  /\ Disconnect(held[u])
  /\ stickyLock' = Nobody
  /\ \/ /\ sticky[key[u]] = NoInstance
        /\ Return(u)
        /\ UNCHANGED <<tracked, avail, sticky, lock>>
     \/ /\ sticky[key[u]] # NoInstance
        /\ CheckoutFor(u, key[u], [sticky EXCEPT ![key[u]] = NoInstance])
  /\ UNCHANGED <<bgVars>>

BindGranted(u) ==
  /\ pc[u] = "want_bind"
  /\ stickyLock = Nobody
  /\ sticky' = [sticky EXCEPT ![key[u]] = held[u]]
  /\ At(u, "using_bound", key[u], held[u])
  /\ UNCHANGED <<bgVars, poolVars, lockVars>>

(* session_query is over: the instance stays bound.                        *)
SessionDone(u) ==
  /\ pc[u] = "using_bound"
  /\ Return(u)
  /\ UNCHANGED <<bgVars, poolVars, lockVars, sticky>>

(* Defect: the binding outlives the checkin of its instance.               *)
UnbindKeepsBinding(u, k) ==
  \/ /\ sticky[k] = NoInstance
     /\ Return(u)
     /\ UNCHANGED <<tracked, avail, sticky>>
  \/ /\ sticky[k] # NoInstance
     /\ CheckIn(u, sticky[k])
     /\ UNCHANGED sticky

(* release_sticky.                                                         *)
Unbind(u, k) ==
  \/ /\ sticky[k] = NoInstance
     /\ Return(u)
     /\ UNCHANGED <<tracked, avail, sticky>>
  \/ /\ sticky[k] # NoInstance
     /\ sticky' = [sticky EXCEPT ![k] = NoInstance]
     /\ CheckIn(u, sticky[k])

ReleaseSticky(u, k) ==
  /\ pc[u] = "idle"
  /\ \/ /\ StickyLockFree(u)
        /\ Unbind(u, k)
     \/ /\ ~ StickyLockFree(u)
        /\ At(u, "want_release", k, NoInstance)
        /\ UNCHANGED <<tracked, avail, sticky>>
  /\ UNCHANGED <<bgVars, lockVars, client>>

ReleaseGranted(u) ==
  /\ pc[u] = "want_release"
  /\ stickyLock = Nobody
  /\ Unbind(u, key[u])
  /\ UNCHANGED <<bgVars, lockVars, client>>

-----------------------------------------------------------------------------
(* _ensure_min_size and _health_check_loop.  A stage of the loop is a step *)
(* of its own.                                                             *)
(* Defect: a pool one instance short is not refilled.                      *)
BelowMinByTwo(S) == Cardinality(S) + 1 < MinSize /\ ~ Stopping

BelowMin(S) == Cardinality(S) < MinSize /\ ~ Stopping

(* The queue keeps its usable instances, in their order.                   *)
KeepsUsable ==
  \E kept \in UNION {[1..n -> DOMAIN avail] : n \in 0..Len(avail)} :
    /\ \A l, m \in DOMAIN kept : l < m => kept[l] < kept[m]
    /\ {kept[m] : m \in DOMAIN kept} = {n \in DOMAIN avail : Usable(avail[n])}
    /\ avail' = [m \in DOMAIN kept |-> avail[kept[m]]]

(* Defect: the check takes every instance it knows, not the queued ones.   *)
HealthWakesOnAll ==
  LET unfit == {i \in tracked : ~ Usable(i)}
  IN  /\ hpc = "sleep"
      /\ ~ Stopping
      /\ KeepsUsable
      /\ SweepNext(Health, unfit)
      /\ hpc' = IF unfit = {} THEN "want_lock" ELSE "recycling"
      /\ UNCHANGED <<mainVars, userVars, lockVars, client, sticky, refills>>

HealthWakes ==
  LET unfit == {i \in Instances : ~ Usable(i) /\ \E n \in DOMAIN avail : avail[n] = i}
  IN  /\ hpc = "sleep"
      /\ ~ Stopping
      /\ KeepsUsable
      /\ SweepNext(Health, unfit)
      /\ hpc' = IF unfit = {} THEN "want_lock" ELSE "recycling"
      /\ UNCHANGED <<mainVars, userVars, lockVars, client, sticky, refills>>

(* Defect: dead instances are dropped without a disconnect.                *)
HealthRecycledUntracksOnly ==
  /\ hpc = "recycling"
  /\ SweepNext(Health, todo[Health])
  /\ hpc' = IF todo[Health] = {} THEN "want_lock" ELSE "recycling"
  /\ UNCHANGED <<mainVars, userVars, lockVars, avail, client, sticky, refills>>

HealthRecycled ==
  /\ hpc = "recycling"
  /\ Disconnect(current[Health])
  /\ SweepNext(Health, todo[Health])
  /\ hpc' = IF todo[Health] = {} THEN "want_lock" ELSE "recycling"
  /\ UNCHANGED <<mainVars, userVars, lockVars, avail, sticky, refills>>

HealthEnsures ==
  /\ hpc = "want_lock"
  /\ lock = Nobody
  /\ IF BelowMin(tracked) THEN lock' = Health /\ hpc' = "creating"
                          ELSE UNCHANGED lock /\ hpc' = "want_sticky"
  /\ UNCHANGED <<mainVars, sweepVars, userVars, poolVars, sticky, stickyLock, refills>>

HealthCreated ==
  /\ hpc = "creating"
  /\ Create
  /\ avail' = Append(avail, NewInstance)
  /\ IF BelowMin(tracked') THEN UNCHANGED <<lock, hpc>>
                           ELSE lock' = Nobody /\ hpc' = "want_sticky"
  /\ UNCHANGED <<mainVars, sweepVars, userVars, sticky, stickyLock, refills>>

HealthCreateFails ==
  /\ hpc = "creating"
  /\ lock' = Nobody
  /\ hpc' = "want_sticky"
  /\ UNCHANGED <<mainVars, sweepVars, userVars, poolVars, sticky, stickyLock, refills>>

(* _cleanup_sticky drops the bindings that are idle too long (any set of   *)
(* them) or unhealthy, then destroys their instances, in use or not.       *)
HealthUnbinds ==
  /\ hpc = "want_sticky"
  /\ stickyLock = Nobody
  /\ \E expired \in SUBSET Bound :
       /\ {k \in Bound : ~ IsHealthy(sticky[k])} \subseteq expired
       /\ sticky' = [k \in Keys |-> IF k \in expired THEN NoInstance ELSE sticky[k]]
       /\ SweepNext(Health, {sticky[k] : k \in expired})
       /\ hpc' = IF expired = {} THEN "sleep" ELSE "cleaning"
  /\ UNCHANGED <<mainVars, userVars, lockVars, avail, client, refills>>

HealthCleaned ==
  /\ hpc = "cleaning"
  /\ Disconnect(current[Health])
  /\ SweepNext(Health, todo[Health])
  /\ hpc' = IF todo[Health] = {} THEN "sleep" ELSE "cleaning"
  /\ UNCHANGED <<mainVars, userVars, lockVars, avail, sticky, refills>>

RefillStarts ==
  /\ refills > 0
  /\ lock = Nobody
  /\ IF BelowMin(tracked) THEN lock' = Refill /\ UNCHANGED refills
                          ELSE UNCHANGED lock /\ refills' = refills - 1
  /\ UNCHANGED <<mainVars, sweepVars, userVars, poolVars, sticky, stickyLock, hpc>>

RefillCreated ==
  /\ lock = Refill
  /\ Create
  /\ avail' = Append(avail, NewInstance)
  /\ IF BelowMin(tracked') THEN UNCHANGED <<lock, refills>>
                           ELSE lock' = Nobody /\ refills' = refills - 1
  /\ UNCHANGED <<mainVars, sweepVars, userVars, sticky, stickyLock, hpc>>

RefillFails ==
  /\ lock = Refill
  /\ lock' = Nobody
  /\ refills' = refills - 1
  /\ UNCHANGED <<mainVars, sweepVars, userVars, poolVars, sticky, stickyLock, hpc>>

-----------------------------------------------------------------------------
(* shutdown, also while start() still awaits a factory.                    *)
BeginShutdown ==
  /\ Running
  /\ phase' = "cancelling"
  /\ UNCHANGED <<sweepVars, userVars, poolVars, lockVars, warm, sticky, hpc, refills>>

(* The cancelled loop stops where it is; a disconnect it was awaiting may  *)
(* or may not have taken place.                                            *)
HealthCancelled ==
  /\ phase = "cancelling"
  /\ hpc # "off"
  /\ hpc' = "off"
  /\ lock' = IF lock = Health THEN Nobody ELSE lock
  /\ \/ current[Health] # NoInstance /\ Disconnect(current[Health])
     \/ UNCHANGED client
  /\ todo' = [todo EXCEPT ![Health] = {}]
  /\ current' = [current EXCEPT ![Health] = NoInstance]
  /\ UNCHANGED <<mainVars, userVars, tracked, avail, sticky, stickyLock, refills>>

DestroyAll ==
  /\ phase = "cancelling"
  /\ hpc = "off"
  /\ sticky' = [k \in Keys |-> NoInstance]
  /\ avail' = <<>>
  /\ SweepNext(Main, tracked)
  /\ phase' = IF tracked = {} THEN "stopped" ELSE "destroying"
  /\ UNCHANGED <<userVars, lockVars, warm, client, hpc, refills>>

Destroyed ==
  /\ phase = "destroying"
  /\ Disconnect(current[Main])
  /\ SweepNext(Main, todo[Main])
  /\ phase' = IF todo[Main] = {} THEN "stopped" ELSE "destroying"
  /\ UNCHANGED <<userVars, lockVars, warm, avail, sticky, hpc, refills>>

-----------------------------------------------------------------------------
Call(u) == \/ Acquire(u)
           \/ \E k \in KeysOf[u] : AcquireSticky(u, k) \/ ReleaseSticky(u, k)

(* What the event loop owes a call: its locks, clients and timeouts.       *)
Resume(u) == \/ DiscardDone(u) \/ CreateGranted(u) \/ Created(u) \/ CreateFails(u)
             \/ TakeReturned(u) \/ WaitTimesOut(u)
             \/ LateDiscardDone(u) \/ ReplaceGranted(u)
             \/ GiveBack(u) \/ CheckInDone(u)
             \/ StickyGranted(u) \/ ReplaceSticky(u) \/ BindGranted(u)
             \/ SessionDone(u) \/ ReleaseGranted(u)

HealthLoop == \/ HealthWakes \/ HealthRecycled \/ HealthEnsures \/ HealthCreated
              \/ HealthUnbinds \/ HealthCleaned
Refilling == RefillStarts \/ RefillCreated \/ RefillFails
Shutdown  == HealthCancelled \/ DestroyAll \/ Destroyed

Next == \/ \E u \in Users : Call(u) \/ Resume(u)
        \/ HealthLoop \/ HealthCreateFails \/ Refilling
        \/ Start \/ Warmed \/ BeginShutdown \/ Shutdown
        \/ \E i \in Instances : Declines(i)

(* Calls resume and the loop wakes.  Strong fairness is the FIFO of        *)
(* asyncio.Lock, and for a factory: it works again if it is tried for ever.*)
Fairness == /\ \A u \in Users : SF_vars(Resume(u))
            /\ SF_vars(HealthLoop)
            /\ SF_vars(HealthCreated)
            /\ SF_vars(Refilling)
            /\ WF_vars(Warmed) /\ WF_vars(Shutdown)

Spec == Init /\ [][Next]_vars /\ Fairness
-----------------------------------------------------------------------------
(* Properties.                                                             *)

(* The type of every variable.                                             *)
TypeOK ==
  /\ phase \in Phases
  /\ warm \in 0..WarmupCount
  /\ tracked \subseteq Instances
  /\ avail \in Seq(Instances)
  /\ client \in [Instances -> {"none", "fresh", "worn", "dead"}]
  /\ sticky \in [Keys -> Instances \union {NoInstance}]
  /\ lock \in Users \union {Nobody, Health, Refill}
  /\ stickyLock \in Users \union {Nobody}
  /\ pc \in [Users -> UserPCs]
  /\ key \in [Users -> Keys \union {NoKey}]
  /\ held \in [Users -> Instances \union {NoInstance}]
  /\ hpc \in HealthPCs
  /\ refills \in 0..MaxRefills
  /\ todo \in [{Health, Main} -> SUBSET Instances]
  /\ current \in [{Health, Main} -> Instances \union {NoInstance}]

(* An instance in the hands of one call only, so long as it keeps it.      *)
Owned == {u \in Users : pc[u] \in {"using", "discarding", "discarding_late",
                                   "recycling", "disconnecting", "want_bind"}}
InQueue(i) == \E n \in DOMAIN avail : avail[n] = i

(* No instance is in two places: once in the queue, or with one caller, or *)
(* under one key.  Two conversations never talk to one Claude process      *)
(* because the pool handed it out twice.                                   *)
Exclusive ==
  /\ \A m, n \in DOMAIN avail : avail[m] = avail[n] => m = n
  /\ \A k, l \in Bound : sticky[k] = sticky[l] => k = l
  /\ \A u, v \in Owned : held[u] = held[v] => u = v
  /\ \A k \in Bound : ~ InQueue(sticky[k])
  /\ \A u \in Owned : ~ InQueue(held[u]) /\ \A k \in Bound : sticky[k] # held[u]

(* While the pool runs, the instance a plain caller works with is not      *)
(* destroyed under it, by the health loop or by another call.              *)
HeldIsLive ==
  Running => \A u \in Users : pc[u] = "using" =>
                held[u] \in tracked /\ client[held[u]] # "none"

(* What a caller works with is a live instance, in well-typed books.       *)
PoolSound == TypeOK /\ HeldIsLive

(* Every instance the pool counts can still be reached: it is queued,      *)
(* bound, in a call's hands, or about to be destroyed.  Otherwise it takes *)
(* up max_size for ever.  Stated for calls that do not share a sticky key  *)
(* (KeysOf disjoint), and until shutdown.                                  *)
NoLeak ==
  Running => \A i \in tracked : \/ InQueue(i)
                                \/ \E k \in Keys : sticky[k] = i
                                \/ \E u \in Users : held[u] = i
                                \/ i \in todo[Health]

(* Every client that is connected is tracked, or is being disconnected:    *)
(* no error path of the running pool forgets a process.                    *)
NoOrphan ==
  Running => \A i \in Instances : client[i] # "none" =>
    \/ i \in tracked
    \/ current[Health] = i
    \/ \E u \in Users : held[u] = i

(* A pool that fell below min_size gets back to it, or is shut down.       *)
MinSizeRestored ==
  phase = "serving" /\ Size < MinSize ~> Size >= MinSize \/ ~ Running

(* Every call ends, by an instance, a timeout or an error: the two locks   *)
(* are always freed.                                                       *)
CallsEnd == \A u \in Users : pc[u] # "idle" ~> pc[u] = "idle"
=============================================================================
