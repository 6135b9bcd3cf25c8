---------------------------- MODULE EventHistory ----------------------------
(* What the event bus promises the callers of query_events: events happen   *)
(* in one order, and a query answers with the first Limit events of its     *)
(* conversation after a given one, among them each that had happened when   *)
(* the query was made unless the store lost it. A store that is not open    *)
(* answers nothing, and a question may fail.                                *)
EXTENDS Integers, Sequences, FiniteSets, SequencesExt

CONSTANTS Convs, Readers, Limit, MaxEvents

VARIABLES log,     \* the conversation of each event, in the order of emission
          lost,    \* the events that a failure of the store took
          open,    \* whether the store can be read
          query,   \* per reader, what it asks for
          asked,   \* per reader, how many events there were when it asked
          pending, \* the readers whose question is not answered yet
          answer   \* per reader, the events it was given
vars == <<log, lost, open, query, asked, pending, answer>>

NoQuery == [conv |-> "none", since |-> 0]

Init == /\ log = <<>>
        /\ lost = {}
        /\ open = TRUE
        /\ query = [r \in Readers |-> NoQuery]
        /\ asked = [r \in Readers |-> 0]
        /\ pending = {}
        /\ answer = [r \in Readers |-> <<>>]

Emit == \E c \in Convs :
  /\ log' = Append(log, c)
  /\ UNCHANGED <<lost, open, query, asked, pending, answer>>

(* The store fails, is shut, or is opened again.                            *)
Disturb == /\ lost' \in SUBSET (DOMAIN log)
           /\ lost \subseteq lost'
           /\ open' \in BOOLEAN
           /\ pending' \in SUBSET pending
           /\ UNCHANGED <<log, query, asked, answer>>

Question(r) == \E c \in Convs, k \in 0..MaxEvents :
  /\ r \notin pending
  /\ query' = [query EXCEPT ![r] = [conv |-> c, since |-> k]]
  /\ asked' = [asked EXCEPT ![r] = Len(log)]
  /\ answer' = [answer EXCEPT ![r] = <<>>]
  /\ UNCHANGED <<log, lost, open>>

Ask(r)       == open /\ Question(r) /\ pending' = pending \cup {r}
AskInVain(r) == ~open /\ Question(r) /\ UNCHANGED pending

Wanted(r) == {i \in DOMAIN log : log[i] = query[r].conv /\ i > query[r].since}
FirstOf(s) == SubSeq(s, 1, IF Len(s) < Limit THEN Len(s) ELSE Limit)

Increasing(s) == \A i, j \in DOMAIN s : i < j => s[i] < s[j]

Answer(r) == \E given \in SUBSET Wanted(r) : \E s \in SetToSeqs(given) :
  /\ r \in pending
  /\ Wanted(r) \cap 1..asked[r] \subseteq given \cup lost
  /\ Increasing(s)
  /\ answer' = [answer EXCEPT ![r] = FirstOf(s)]
  /\ pending' = pending \ {r}
  /\ UNCHANGED <<log, lost, open, query, asked>>

Next == Emit \/ Disturb \/ \E r \in Readers : Ask(r) \/ AskInVain(r) \/ Answer(r)

Spec == Init /\ [][Next]_vars
=============================================================================
