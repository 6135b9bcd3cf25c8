------------------------------- MODULE EventBus -------------------------------
(* The event bus: emit hands an event to the live subscribers and to a      *)
(* queue, a background task writes the queue to SQLite in batches, and      *)
(* query_events and subscribe first write what is queued and then read.     *)
(* The connection runs the operations of all tasks on one thread, in the    *)
(* order they were handed over; a task is resumed when its operation is     *)
(* done and hands over its next one.                                        *)
(* An event is its place in the order of emission, which is also the order  *)
(* of the sequence numbers the caller passes.                               *)
EXTENDS Integers, Sequences, FiniteSets, SequencesExt

CONSTANTS Queriers,         \* tasks that call query_events
          Subscribers,      \* tasks that subscribe
          Requests,         \* what they ask for: [conv, since, role]
          Limit,            \* limit of query_events
          Stream,           \* the events callers emit, in order: [conv, side]
          MaxErrors,        \* bound on the writes that fail
          MaxCloses         \* bound on the ends of the bus

All       == "all"      \* the scope of a subscription to every conversation
NoSince   == -1

ASSUME EventBusAssumption ==
  /\ Queriers \cap Subscribers = {}
  /\ (Queriers \cup Subscribers) \cap {"writer", "cancelled", "closer"} = {}
  /\ Stream \in Seq(ToSet(Stream))
  /\ \A e \in ToSet(Stream) : e.conv # All
  /\ \A q \in Requests : q.since \in NoSince..Len(Stream)
  /\ Limit \in Nat /\ MaxErrors \in Nat /\ MaxCloses \in Nat

VARIABLES
  state,    \* "open", "closing", "closed": whether the connection is there
  log,      \* history: [conv, side] of each event emitted
  queue,    \* _write_queue
  thread,   \* operations handed to the connection: [who, op, events]
  rows,     \* the events in the table, as the connection sees them
  durable,  \* how many of them are committed
  writer,   \* "idle", "busy", "off": the task of _write_loop
  pc,       \* per reader: "idle", "reading", "yielding", "live", "answered"
  req,      \* per reader: its request
  asked,    \* per reader, history: the events emitted when it read the past
  joined,   \* per reader, history: the events emitted when it went live
  seen,     \* per reader: the rows its select found when it started
  backlog,  \* per reader: rows it has still to yield
  inbox,    \* per reader: the queue of its _Subscriber
  got,      \* per reader: what it was given
  lost,     \* history: events that a failed write, a close or a crash took
  errors, closes

store  == <<queue, thread, rows, durable, writer>>
reader == <<pc, req, asked, joined, seen, backlog, inbox, got>>
vars   == <<state, log, store, reader, lost, errors, closes>>

Readers   == Queriers \cup Subscribers
NoRequest == [conv |-> "none", since |-> 0, role |-> "operator"]

Op(w, o, es) == [who |-> w, op |-> o, events |-> es]

Init ==
  /\ state = "open" /\ log = <<>> /\ queue = <<>> /\ thread = <<>>
  /\ rows = <<>> /\ durable = 0 /\ writer = "idle"
  /\ pc = [r \in Readers |-> "idle"]
  /\ req = [r \in Readers |-> NoRequest]
  /\ asked = [r \in Readers |-> 0] /\ joined = [r \in Readers |-> 0]
  /\ seen = [r \in Readers |-> 0]
  /\ backlog = [r \in Readers |-> <<>>]
  /\ inbox = [r \in Readers |-> <<>>]
  /\ got = [r \in Readers |-> <<>>]
  /\ lost = {} /\ errors = 0 /\ closes = 0

Matches(q, e) == /\ q.conv \in {e.conv, All}
                 /\ ~(q.role = "customer" /\ e.side)

-------------------------------------------------------------------------------
(* Emitting                                                                 *)

(* A defect: a subscriber is registered before it reads the past.           *)
AudienceWhileReading(e) ==
  {r \in Subscribers : pc[r] \in {"reading", "live"} /\ Matches(req[r], e)}

Audience(e) == {r \in Readers : pc[r] = "live" /\ Matches(req[r], e)}

Emit ==
  LET e == Stream[Len(log) + 1] IN
  /\ Len(log) < Len(Stream)
  /\ log' = Append(log, e)
  /\ queue' = Append(queue, Len(log'))
  /\ inbox' = [r \in Readers |-> IF r \in Audience(e) THEN Append(inbox[r], Len(log'))
                                                      ELSE inbox[r]]
  /\ UNCHANGED <<state, thread, rows, durable, writer, pc, req, asked, joined, seen,
                 backlog, got, lost, errors, closes>>

-------------------------------------------------------------------------------
(* Writing                                                                  *)

(* A defect: each task hands over what it drained newest first.             *)
InsertNewestFirst(w) == /\ queue # <<>>
                        /\ thread' = Append(thread, Op(w, "insert", Reverse(queue)))
                        /\ queue' = <<>>

(* All that is queued goes to the table in one batch.                       *)
Insert(w) == /\ queue # <<>>
             /\ thread' = Append(thread, Op(w, "insert", queue))
             /\ queue' = <<>>

WriterTakes ==
  /\ writer = "idle"
  /\ Insert("writer")
  /\ writer' = "busy"
  /\ UNCHANGED <<state, log, rows, durable, reader, lost, errors, closes>>

(* A defect: nothing is written before a read.                              *)
FlushNothing(r) == thread' = Append(thread, Op(r, "select", <<>>)) /\ UNCHANGED queue

(* flush: a task that reads first writes what is queued, if anything is.     *)
Flush(r) == \/ Insert(r)
            \/ /\ queue = <<>>
               /\ thread' = Append(thread, Op(r, "select", <<>>))
               /\ UNCHANGED queue

-------------------------------------------------------------------------------
(* Readers                                                                  *)

Asks(r, q) ==
  /\ pc[r] \in {"idle", "answered"}
  /\ req' = [req EXCEPT ![r] = q]
  /\ got' = [got EXCEPT ![r] = <<>>]
  /\ UNCHANGED <<state, log, rows, durable, writer, seen, backlog, inbox, lost, errors, closes>>

(* What query_events can be asked: one conversation, as an operator sees it. *)
OfQuery(q) == q.conv # All /\ q.role # "customer" /\ q.since # NoSince

Reads(r) == \E q \in Requests :
  /\ Asks(r, q)
  /\ state # "closed"
  /\ q.since # NoSince
  /\ r \in Queriers => OfQuery(q)
  /\ Flush(r)
  /\ pc' = [pc EXCEPT ![r] = "reading"]
  /\ asked' = [asked EXCEPT ![r] = Len(log)]
  /\ UNCHANGED joined

(* Without a connection nothing is flushed and a query answers nothing at   *)
(* once, whatever was emitted.                                              *)
FindsNothing(r) == \E q \in Requests :
  /\ Asks(r, q)
  /\ state = "closed"
  /\ r \in Queriers
  /\ OfQuery(q)
  /\ pc' = [pc EXCEPT ![r] = "answered"]
  /\ asked' = [asked EXCEPT ![r] = Len(log)]
  /\ UNCHANGED <<queue, thread, joined>>

(* Without a cursor, or without a connection, a subscription is live at     *)
(* once.                                                                    *)
Subscribes(r) == \E q \in Requests :
  /\ Asks(r, q)
  /\ r \in Subscribers
  /\ q.since = NoSince \/ state = "closed"
  /\ pc' = [pc EXCEPT ![r] = "live"]
  /\ asked' = [asked EXCEPT ![r] = 0]
  /\ joined' = [joined EXCEPT ![r] = Len(log)]
  /\ UNCHANGED <<queue, thread>>

Yields(r) ==
  /\ pc[r] = "yielding"
  /\ backlog[r] # <<>>
  /\ got' = [got EXCEPT ![r] = Append(@, Head(backlog[r]))]
  /\ backlog' = [backlog EXCEPT ![r] = Tail(@)]
  /\ UNCHANGED <<state, log, store, pc, req, asked, joined, seen, inbox, lost, errors, closes>>

GoesLive(r) ==
  /\ pc[r] = "yielding"
  /\ backlog[r] = <<>>
  /\ pc' = [pc EXCEPT ![r] = "live"]
  /\ joined' = [joined EXCEPT ![r] = Len(log)]
  /\ UNCHANGED <<state, log, store, req, asked, seen, backlog, inbox, got, lost, errors, closes>>

Receives(r) ==
  /\ pc[r] = "live"
  /\ inbox[r] # <<>>
  /\ got' = [got EXCEPT ![r] = Append(@, Head(inbox[r]))]
  /\ inbox' = [inbox EXCEPT ![r] = Tail(@)]
  /\ UNCHANGED <<state, log, store, pc, req, asked, joined, seen, backlog, lost, errors, closes>>

(* The caller closes the iterator.                                          *)
Leaves(r) ==
  /\ pc[r] \in {"yielding", "live"}
  /\ pc' = [pc EXCEPT ![r] = "idle"]
  /\ backlog' = [backlog EXCEPT ![r] = <<>>]
  /\ inbox' = [inbox EXCEPT ![r] = <<>>]
  /\ got' = [got EXCEPT ![r] = <<>>]
  /\ req' = [req EXCEPT ![r] = NoRequest]
  /\ asked' = [asked EXCEPT ![r] = 0]
  /\ joined' = [joined EXCEPT ![r] = 0]
  /\ UNCHANGED <<state, log, store, seen, lost, errors, closes>>

-------------------------------------------------------------------------------
(* The connection's thread                                                  *)

Runs(o) == /\ thread # <<>>
           /\ Head(thread).op = o
           /\ UNCHANGED <<log, queue, req, asked, inbox, closes>>
Task == Head(thread).who
Then(o) == thread' = Append(Tail(thread), Op(Task, o, <<>>))
Done    == thread' = Tail(thread)

RunsInsert ==
  /\ Runs("insert")
  /\ rows' = rows \o Head(thread).events
  /\ IF Task = "cancelled" THEN Done ELSE Then("commit")
  /\ UNCHANGED <<state, durable, writer, pc, joined, seen, backlog, got, lost, errors>>

(* The loop goes on after an error; with the defect it ends.                *)
LoopEnds      == "off"
LoopGoesOn    == "idle"

(* A write may fail at any row, and those before it stay. The error is      *)
(* raised in its task: the loop drops the rest of the batch and goes on, a  *)
(* reader's call fails, and so does close.                                  *)
FailsInsert ==
  /\ Runs("insert")
  /\ errors < MaxErrors
  /\ errors' = errors + 1
  /\ \E k \in 0..(Len(Head(thread).events) - 1) :
       /\ rows' = rows \o SubSeq(Head(thread).events, 1, k)
       /\ lost' = lost \cup ToSet(SubSeq(Head(thread).events, k + 1, Len(Head(thread).events)))
  /\ Done
  /\ writer' = IF Task = "writer" THEN LoopGoesOn ELSE writer
  /\ pc' = [r \in Readers |-> IF r = Task THEN "idle" ELSE pc[r]]
  /\ state' = IF Task = "closer" THEN "open" ELSE state
  /\ UNCHANGED <<durable, joined, seen, backlog, got>>

(* The write loop is cancelled: its operation still runs, and nothing       *)
(* follows it.                                                              *)
Cancelled(ops) == [i \in DOMAIN ops |-> IF ops[i].who = "writer"
                                        THEN [ops[i] EXCEPT !.who = "cancelled"] ELSE ops[i]]
Closing(ops) == /\ thread' = Append(Cancelled(ops), Op("closer", "close", <<>>))
                /\ writer' = "off"

(* A commit is of all the rows of the connection.                           *)
RunsCommit ==
  /\ Runs("commit")
  /\ durable' = Len(rows)
  /\ \/ Task = "writer" /\ Done /\ writer' = "idle"
     \/ Task = "cancelled" /\ Done /\ UNCHANGED writer
     \/ Task \in Readers /\ Then("select") /\ UNCHANGED writer
     \/ Task = "closer" /\ Closing(Tail(thread))
  /\ UNCHANGED <<state, rows, pc, joined, seen, backlog, got, lost, errors>>

RunsSelect ==
  /\ Runs("select")
  /\ seen' = [seen EXCEPT ![Task] = Len(rows)]
  /\ Then("fetch")
  /\ UNCHANGED <<state, rows, durable, writer, pc, joined, backlog, got, lost, errors>>

Increasing(s) == \A i, j \in DOMAIN s : i < j => s[i] < s[j]

(* The rows that match, those inserted since the select ran perhaps. A      *)
(* cursor that is not of one conversation is compared with random ids:      *)
(* rows come in any order, and any of them may be left out.                 *)
Result(r, more) ==
  LET found == {rows[i] : i \in 1..seen[r]} \cup more
      hits  == {e \in found : Matches(req[r], log[e]) /\ e > req[r].since}
  IN IF req[r].conv # All THEN {s \in SetToSeqs(hits) : Increasing(s)}
     ELSE UNION {SetToSeqs(s) : s \in SUBSET hits}

FirstOf(s) == SubSeq(s, 1, IF Len(s) < Limit THEN Len(s) ELSE Limit)

RunsFetch ==
  /\ Runs("fetch")
  /\ \E more \in SUBSET {rows[i] : i \in (seen[Task] + 1)..Len(rows)} :
     \E found \in Result(Task, more) :
       IF Task \in Queriers
       THEN /\ got' = [got EXCEPT ![Task] = FirstOf(found)]
            /\ pc' = [pc EXCEPT ![Task] = "answered"]
            /\ UNCHANGED <<joined, backlog>>
       ELSE /\ backlog' = [backlog EXCEPT ![Task] = found]
            /\ pc' = [pc EXCEPT ![Task] = IF found = <<>> THEN "live" ELSE "yielding"]
            /\ joined' = [joined EXCEPT ![Task] = IF found = <<>> THEN Len(log) ELSE @]
            /\ UNCHANGED got
  /\ Done
  /\ seen' = [seen EXCEPT ![Task] = 0]
  /\ UNCHANGED <<state, rows, durable, writer, lost, errors>>

-------------------------------------------------------------------------------
(* The end of the bus                                                       *)

(* close: flush, with an empty queue straight on to the cancellation.       *)
Close ==
  /\ state = "open"
  /\ closes < MaxCloses
  /\ closes' = closes + 1
  /\ state' = "closing"
  /\ \/ Insert("closer") /\ UNCHANGED writer
     \/ queue = <<>> /\ Closing(thread) /\ UNCHANGED queue
  /\ UNCHANGED <<log, rows, durable, reader, lost, errors>>

(* What the next connection finds in the table.                             *)
OnDisk == SubSeq(rows, 1, durable)

(* The connection closes: what is not committed is rolled back, and an      *)
(* operation behind it raises in its task.                                  *)
RunsClose ==
  /\ Runs("close")
  /\ state' = "closed"
  /\ lost' = lost \cup {rows[i] : i \in (durable + 1)..Len(rows)}
                  \cup UNION {ToSet(thread[i].events) : i \in DOMAIN thread}
  /\ rows' = OnDisk
  /\ thread' = <<>>
  /\ seen' = [r \in Readers |-> 0]
  /\ pc' = [r \in Readers |-> IF pc[r] = "reading" THEN "idle" ELSE pc[r]]
  /\ UNCHANGED <<durable, writer, joined, backlog, got, errors>>

(* The process dies.                                                        *)
Crash ==
  /\ closes < MaxCloses
  /\ closes' = closes + 1
  /\ state' = "closed"
  /\ lost' = (1..Len(log)) \ {rows[i] : i \in 1..durable}
  /\ queue' = <<>> /\ thread' = <<>> /\ writer' = "off"
  /\ rows' = OnDisk
  /\ pc' = [r \in Readers |-> "idle"]
  /\ backlog' = [r \in Readers |-> <<>>]
  /\ inbox' = [r \in Readers |-> <<>>]
  /\ seen' = [r \in Readers |-> 0]
  /\ UNCHANGED <<log, durable, req, asked, joined, got, errors>>

Initialize ==
  /\ state = "closed"
  /\ state' = "open"
  /\ writer' = "idle"
  /\ UNCHANGED <<log, queue, thread, rows, durable, reader, lost, errors, closes>>

-------------------------------------------------------------------------------
DbStep == RunsInsert \/ RunsCommit \/ RunsSelect \/ RunsFetch \/ RunsClose

Next == \/ Emit
        \/ WriterTakes \/ DbStep \/ FailsInsert
        \/ \E r \in Readers : \/ Reads(r) \/ FindsNothing(r) \/ Subscribes(r)
                              \/ Yields(r) \/ GoesLive(r) \/ Receives(r) \/ Leaves(r)
        \/ Close \/ Crash \/ Initialize

Fairness == WF_vars(WriterTakes) /\ WF_vars(DbStep)
Spec == Init /\ [][Next]_vars /\ Fairness

-------------------------------------------------------------------------------
(* Properties                                                               *)

Ids == DOMAIN Stream

(* Every variable has its type.                                             *)
TypeOK ==
  /\ state \in {"open", "closing", "closed"}
  /\ Len(log) <= Len(Stream) /\ log = SubSeq(Stream, 1, Len(log))
  /\ queue \in Seq(Ids) /\ rows \in Seq(Ids)
  /\ thread \in Seq([who : Readers \cup {"writer", "cancelled", "closer"},
                     op : {"insert", "commit", "select", "fetch", "close"}, events : Seq(Ids)])
  /\ durable \in 0..Len(rows)
  /\ writer \in {"idle", "busy", "off"}
  /\ pc \in [Readers -> {"idle", "reading", "yielding", "live", "answered"}]
  /\ req \in [Readers -> Requests \cup {NoRequest}]
  /\ asked \in [Readers -> 0..Len(log)] /\ joined \in [Readers -> 0..Len(log)]
  /\ seen \in [Readers -> 0..Len(rows)]
  /\ backlog \in [Readers -> Seq(Ids)] /\ inbox \in [Readers -> Seq(Ids)]
  /\ got \in [Readers -> Seq(Ids)]
  /\ lost \in SUBSET (DOMAIN log)
  /\ errors \in 0..MaxErrors /\ closes \in 0..MaxCloses

(* Where the events are that no failure took: in the table, in operations   *)
(* handed to the connection, and in the queue.                              *)
Places   == 0..(Len(thread) + 1)
Place(i) == IF i = 0 THEN rows ELSE IF i \in DOMAIN thread THEN thread[i].events ELSE queue
Below(s, t) == \A x \in ToSet(s), y \in ToSet(t) : x < y

(* Whoever drains the queue, the events are written once and in the order   *)
(* they were emitted, and only a failed write, a close or a crash takes     *)
(* any (_write_loop and flush of three kinds of task share the queue).      *)
WrittenInOrder ==
  /\ TypeOK
  /\ \A i \in Places : Increasing(Place(i))
  /\ \A i, j \in Places : i < j => Below(Place(i), Place(j))
  /\ lost = (DOMAIN log) \ UNION {ToSet(Place(i)) : i \in Places}

(* A subscriber to a conversation is given its events in order, none twice, *)
(* and once live it has all of them but those emitted after it began to     *)
(* read the past and before it joined the live subscribers (subscribe).     *)
OwnConv(r) == {i \in DOMAIN log : Matches(req[r], log[i]) /\ i > req[r].since}
SubscriberMissesTheWindowOnly == \A r \in Subscribers : req[r].conv # All =>
  LET given == got[r] \o backlog[r] \o inbox[r] IN
  /\ Increasing(given)
  /\ pc[r] = "live" =>
       OwnConv(r) \subseteq ToSet(given) \cup lost \cup (asked[r] + 1)..joined[r]

(* A query made while the bus has its connection answers with all that was  *)
(* emitted before it, although the write loop may hold a batch that neither *)
(* the queue nor the table has (query_events flushes the queue only); one   *)
(* made without a connection answers nothing.                               *)
History == INSTANCE EventHistory WITH
  Readers <- Queriers,
  Convs <- {q.conv : q \in Requests} \cup {e.conv : e \in ToSet(Stream)},
  MaxEvents <- Len(Stream),
  log <- [i \in DOMAIN log |-> log[i].conv],
  open <- state # "closed",
  pending <- {r \in Queriers : pc[r] = "reading"},
  query <- [r \in Queriers |-> [conv |-> req[r].conv, since |-> req[r].since]],
  asked <- [r \in Queriers |-> asked[r]],
  answer <- [r \in Queriers |-> got[r]]
HistorySpec == History!Spec

(* While the bus is open each event is committed; after a failed write it   *)
(* may stay in the table without a commit, but no error stops the loop.     *)
Stored(i) == \E k \in 1..(IF errors = 0 THEN durable ELSE Len(rows)) : rows[k] = i
EventuallyStored == \A i \in Ids :
  (i \in DOMAIN log /\ state = "open") ~> (Stored(i) \/ i \in lost \/ state # "open")

=============================================================================
