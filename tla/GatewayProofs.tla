---------------------------- MODULE GatewayProofs ----------------------------
(***************************************************************************)
(* Machine-checked theorems about Gateway, for any operators, squads,      *)
(* frames and bounds.                                                      *)
(***************************************************************************)
EXTENDS Gateway, TLAPS

-----------------------------------------------------------------------------
(* Type correctness, part by part.  Helpers first.                         *)

LEMMA ScopesTyped == "conv" \in Scopes /\ Squads \subseteq Scopes
  BY DEF Scopes

LEMMA NothingTyped ==
  /\ NoSub \in Subscriptions
  /\ NoSub.inc = 0 /\ NoSub.stage = "none" /\ NoSub.at = 0
  /\ NoWork \in Work
  /\ NoWork.replay = {} /\ NoWork.n = 0 /\ NoWork.to = {}
  /\ NoReply.stage = "none"
  /\ NoReply \in Replies
  /\ NoCsat \in CsatTasks
<1>1. 0 \in 0..MaxSessions
  BY GatewayAssumption
<1>2. QED
  BY <1>1 DEF NoSub, NoWork, NoReply, NoCsat, NoSince, Subscriptions, Work, Replies, CsatTasks

LEMMA VisTyped == ASSUME NEW role PROVE Vis(role) \in {"public", "side"}
  BY DEF Vis

LEMMA MessageTyped ==
  ASSUME seq \in Nat, NEW src \in Clients \union {Agent},
         NEW vis \in {"public", "side"}, NEW open \in BOOLEAN
  PROVE  /\ Message(src, vis, open) \in Messages
         /\ Message(src, vis, open).n = seq + 1
         /\ Message(src, vis, open).src = src
         /\ Message(src, vis, open).open = open
  BY DEF Message, Messages

(* Publishing adds to the queues of subscribers, and changes nothing else  *)
(* of a subscription.                                                      *)
LEMMA EnqueuedTyped ==
  ASSUME eseq \in Nat, NEW sub \in Subscriptions, NEW k \in Nat
  PROVE  /\ Enqueued(sub, k) \in Subscriptions
         /\ Enqueued(sub, k).inc = sub.inc
         /\ Enqueued(sub, k).stage = sub.stage
         /\ Enqueued(sub, k).at = sub.at
<1> DEFINE new == [i \in 1..k |-> eseq + i]
<1>1. new \in Seq(Nat)
  OBVIOUS
<1>2. sub.queue \o new \in Seq(Nat)
  <2> HIDE DEF new
  <2> QED
    BY <1>1 DEF Subscriptions
<1>3. Enqueued(sub, k) = IF sub.stage = "live"
                         THEN [sub EXCEPT !.queue = sub.queue \o new] ELSE sub
  BY DEF Enqueued
<1>4. QED
  <2> HIDE DEF new
  <2> QED
    BY <1>2, <1>3 DEF Subscriptions

LEMMA PublishTyped ==
  ASSUME eseq \in Nat, subs \in [Sessions -> [Scopes -> Subscriptions]],
         NEW k \in Nat, Publish(k)
  PROVE  /\ eseq' \in Nat
         /\ subs' \in [Sessions -> [Scopes -> Subscriptions]]
         /\ \A s \in Sessions, c \in Scopes : /\ subs'[s][c].inc = subs[s][c].inc
                                              /\ subs'[s][c].stage = subs[s][c].stage
                                              /\ subs'[s][c].at = subs[s][c].at
<1>1. eseq' \in Nat
  BY DEF Publish
<1>2. subs' = [s \in Sessions |-> [subs[s] EXCEPT !["conv"] = Enqueued(subs[s]["conv"], k)]]
  BY DEF Publish
<1>3. QED
  BY <1>1, <1>2, EnqueuedTyped, ScopesTyped

LEMMA SquadNowTyped ==
  ASSUME squad \in {Nobody, "web-support", "general"}, NEW creates \in BOOLEAN
  PROVE  SquadNow(creates) \in {"web-support", "general"}
  BY DEF SquadNow, Nobody

LEMMA WorkTyped ==
  ASSUME NEW work \in Work, NEW n \in Nat, NEW messages \in SUBSET Messages,
         NEW sessions \in SUBSET Sessions
  PROVE  /\ [work EXCEPT !.replay = messages] \in Work
         /\ [work EXCEPT !.to = sessions] \in Work
         /\ [work EXCEPT !.n = n, !.to = sessions] \in Work
  BY DEF Work

LEMMA AudienceTyped ==
  ASSUME NEW sq, NEW from
  PROVE  Audience(sq, from) \subseteq Sessions
  BY DEF Audience

LEMMA HearTyped ==
  ASSUME seq \in Nat, heard \in [Sessions -> SUBSET (1..seq)],
         NEW s \in Sessions, NEW n \in 1..seq, Hear(s, n)
  PROVE  heard' \in [Sessions -> SUBSET (1..seq)]
  BY DEF Hear

LEMMA ShowTyped ==
  ASSUME TabTyped, seq \in Nat, NEW m, m.n \in 1..seq, m.vis \in {"public", "side"},
         Show(m), UNCHANGED <<seq, hello>>
  PROVE  TabTyped'
<1>1. knows' \in BOOLEAN
  BY DEF Show
<1>2. cursor' \in 0..seq' /\ hello' \in 0..cursor'
  BY DEF TabTyped, Show
<1>3. seen' \subseteq [n : 1..seq', vis : {"public", "side"}]
  BY DEF TabTyped, Show
<1>4. QED
  BY <1>1, <1>2, <1>3 DEF TabTyped

(* What an action that leaves a part alone does to it.                     *)
LEMMA Untouched ==
  ASSUME TypeOK
  PROVE  /\ UNCHANGED engineVars => ConversationTyped'
         /\ UNCHANGED <<reply, csat>> /\ seq' \in {seq, seq + 1} => TasksTyped'
         /\ UNCHANGED tabVars /\ seq' \in {seq, seq + 1} => TabTyped'
         /\ UNCHANGED <<wireVars, phase, registered, busy, subs, heard, seq, starts>>
              => SessionsTyped'
<1>1. seq \in Nat
  BY DEF TypeOK, ConversationTyped
<1>2. UNCHANGED engineVars => ConversationTyped'
  BY DEF TypeOK, ConversationTyped, engineVars
<1>3. UNCHANGED <<reply, csat>> /\ seq' \in {seq, seq + 1} => TasksTyped'
  BY <1>1 DEF TypeOK, TasksTyped
<1>4. UNCHANGED tabVars /\ seq' \in {seq, seq + 1} => TabTyped'
  <2>1. SUFFICES ASSUME UNCHANGED tabVars, seq' \in {seq, seq + 1} PROVE TabTyped'
    OBVIOUS
  <2>2. 1..seq \subseteq 1..seq' /\ 0..seq \subseteq 0..seq'
    BY <1>1, <2>1
  <2>3. knows' \in BOOLEAN
    BY <2>1 DEF TypeOK, TabTyped, tabVars
  <2>4. cursor' \in 0..seq' /\ hello' \in 0..cursor'
    BY <2>1, <2>2 DEF TypeOK, TabTyped, tabVars
  <2>5. seen' \subseteq [n : 1..seq', vis : {"public", "side"}]
    BY <2>1, <2>2 DEF TypeOK, TabTyped, tabVars
  <2>6. QED
    BY <2>3, <2>4, <2>5 DEF TabTyped
<1>5. UNCHANGED <<wireVars, phase, registered, busy, subs, heard, seq, starts>>
        => SessionsTyped'
  BY DEF TypeOK, SessionsTyped, wireVars
<1>6. QED
  BY <1>2, <1>3, <1>4, <1>5

LEMMA InitTyped == ASSUME Init PROVE TypeOK
<1>1. ConversationTyped
  BY GatewayAssumption DEF Init, ConversationTyped, Nobody
<1>2. SessionsTyped
  <2>1. \A s \in Sessions, c \in Scopes : subs[s][c] = NoSub
    BY DEF Init
  <2>2. Len(starts) = 0
    BY DEF Init
  <2>3. QED
    BY <2>1, <2>2, NothingTyped DEF Init, SessionsTyped
<1>3. TasksTyped
  BY NothingTyped, GatewayAssumption DEF Init, TasksTyped
<1>4. TabTyped
  <2>1. knows \in BOOLEAN
    BY DEF Init
  <2>2. cursor \in 0..seq /\ hello \in 0..cursor
    BY DEF Init
  <2>3. QED
    BY <2>1, <2>2 DEF Init, TabTyped
<1>5. QED
  BY <1>1, <1>2, <1>3, <1>4 DEF TypeOK

-----------------------------------------------------------------------------
(* Connections.                                                            *)
LEMMA ConnectTyped == ASSUME TypeOK, NEW c \in Clients, Connect(c) PROVE TypeOK'
<1>1. ConversationTyped' /\ TasksTyped' /\ TabTyped'
  BY Untouched DEF Connect, engineVars, tabVars
<1>2. PICK s \in Unused : /\ owner' = [owner EXCEPT ![s] = c]
                          /\ registered' = registered \union {s}
                          /\ HelloFails(s) \/ ReplayBegins(s, c) \/ ServingBegins(s, c)
  BY DEF Connect
<1>3. s \in Sessions
  BY DEF Unused
<1>4. /\ owner' \in [Sessions -> Clients \union {Nobody}]
      /\ registered' \subseteq Sessions
      /\ UNCHANGED <<subs, heard, seq, starts>>
  BY <1>2, <1>3 DEF Connect, TypeOK, SessionsTyped, engineVars
<1>5. /\ phase' \in [Sessions -> {"off", "replaying", "serving", "handling", "lost"}]
      /\ wire' \in [Sessions -> BOOLEAN]
      /\ busy' \in [Sessions -> Work]
      /\ \A r \in Sessions : /\ \A m \in busy'[r].replay : m.n \in 1..seq
                             /\ phase'[r] = "handling" => busy'[r].n \in 1..seq
  <2>1. CASE HelloFails(s)
    BY <2>1, <1>3 DEF HelloFails, TypeOK, SessionsTyped
  <2>2. CASE ReplayBegins(s, c)
    <3>1. {m \in msgs : m.n > hello} \in SUBSET Messages
      BY DEF TypeOK, ConversationTyped
    <3>2. [busy[s] EXCEPT !.replay = {m \in msgs : m.n > hello}] \in Work
      BY <3>1, <1>3, WorkTyped DEF TypeOK, SessionsTyped
    <3>3. busy' = [busy EXCEPT ![s] = [busy[s] EXCEPT !.replay = {m \in msgs : m.n > hello}]]
      BY <2>2 DEF ReplayBegins
    <3>4. \A r \in Sessions : \A m \in busy'[r].replay : m.n \in 1..seq
      BY <3>3, <1>3 DEF TypeOK, SessionsTyped, ConversationTyped, Work
    <3>5. QED
      BY <2>2, <3>2, <3>3, <3>4, <1>3 DEF ReplayBegins, TypeOK, SessionsTyped
  <2>3. CASE ServingBegins(s, c)
    BY <2>3, <1>3 DEF ServingBegins, TypeOK, SessionsTyped
  <2>4. QED
    BY <1>2, <2>1, <2>2, <2>3
<1>6. SessionsTyped'
  BY <1>4, <1>5 DEF TypeOK, SessionsTyped
<1>7. QED
  BY <1>1, <1>6 DEF TypeOK

LEMMA DropTyped == ASSUME TypeOK, NEW s \in Sessions, Drop(s) PROVE TypeOK'
<1>1. ConversationTyped' /\ TasksTyped' /\ TabTyped'
  BY Untouched DEF Drop, engineVars, tabVars
<1>2. SessionsTyped'
  BY DEF Drop, TypeOK, SessionsTyped, engineVars
<1>3. QED
  BY <1>1, <1>2 DEF TypeOK

LEMMA ReloadTyped == ASSUME TypeOK, Reload PROVE TypeOK'
<1>1. ConversationTyped' /\ TasksTyped'
  BY Untouched DEF Reload, engineVars
<1>2. SessionsTyped'
  BY DEF Reload, TypeOK, SessionsTyped, engineVars
<1>3. TabTyped'
  <2>1. knows' \in BOOLEAN
    BY DEF Reload
  <2>2. cursor' \in 0..seq' /\ hello' \in 0..cursor'
    BY DEF Reload, TypeOK, TabTyped, ConversationTyped, engineVars
  <2>3. QED
    BY <2>1, <2>2 DEF Reload, TypeOK, TabTyped, engineVars
<1>4. QED
  BY <1>1, <1>2, <1>3 DEF TypeOK

LEMMA ReplayTyped == ASSUME TypeOK, NEW s \in Sessions, Replay(s) PROVE TypeOK'
<1>1. ConversationTyped' /\ TasksTyped'
  BY Untouched DEF Replay, engineVars
<1>2. busy[s].replay \in SUBSET Messages /\ busy[s] \in Work
  BY DEF TypeOK, SessionsTyped, Work
<1>3. UNCHANGED <<owner, wire, registered, subs, heard, seq, starts, hello>>
  BY DEF Replay, engineVars, wireVars
<1>4. CASE \E m \in busy[s].replay :
             /\ IF wire[s] THEN Show(m) ELSE UNCHANGED <<seen, cursor, knows>>
             /\ busy' = [busy EXCEPT ![s].replay = @ \ {m}]
             /\ UNCHANGED phase
  <2>1. PICK m \in busy[s].replay :
             /\ IF wire[s] THEN Show(m) ELSE UNCHANGED <<seen, cursor, knows>>
             /\ busy' = [busy EXCEPT ![s].replay = @ \ {m}]
             /\ UNCHANGED phase
    BY <1>4
  <2>2. [busy[s] EXCEPT !.replay = busy[s].replay \ {m}] \in Work
    BY <1>2, WorkTyped
  <2>3. /\ busy' \in [Sessions -> Work]
        /\ \A r \in Sessions : busy'[r].replay \subseteq busy[r].replay /\ busy'[r].n = busy[r].n
    BY <2>1, <2>2 DEF TypeOK, SessionsTyped, Work
  <2>4. SessionsTyped'
    BY <1>3, <2>1, <2>3 DEF TypeOK, SessionsTyped
  <2>5. TabTyped'
    <3>1. m.n \in 1..seq /\ m.vis \in {"public", "side"} /\ seq \in Nat
      BY <1>2, <2>1 DEF TypeOK, SessionsTyped, ConversationTyped, Messages
    <3>2. CASE wire[s]
      BY <3>1, <3>2, <2>1, <1>3, ShowTyped DEF TypeOK
    <3>3. CASE ~ wire[s]
      BY <3>3, <2>1, <1>3, Untouched DEF tabVars
    <3>4. QED
      BY <3>2, <3>3
  <2>6. QED
    BY <1>1, <2>4, <2>5 DEF TypeOK
<1>5. CASE /\ phase' = [phase EXCEPT ![s] = "serving"]
           /\ busy' = [busy EXCEPT ![s] = NoWork]
           /\ UNCHANGED <<seen, cursor, knows>>
  <2>1. SessionsTyped'
    BY <1>3, <1>5, NothingTyped DEF TypeOK, SessionsTyped
  <2>2. TabTyped'
    BY <1>3, <1>5, Untouched DEF tabVars
  <2>3. QED
    BY <1>1, <2>1, <2>2 DEF TypeOK
<1>6. QED
  BY <1>4, <1>5 DEF Replay

LEMMA EndTyped ==
  ASSUME TypeOK, NEW s \in Sessions, End(s), UNCHANGED <<wire, seq, starts>>
  PROVE  SessionsTyped'
<1>1. [c \in Scopes |-> NoSub] \in [Scopes -> Subscriptions]
  BY NothingTyped
<1>2. \A r \in Sessions, c \in Scopes : subs'[r][c].inc <= Len(starts')
  BY NothingTyped DEF End, TypeOK, SessionsTyped, ConversationTyped
<1>3. QED
  BY <1>1, <1>2, NothingTyped DEF End, TypeOK, SessionsTyped

LEMMA DisconnectedTyped == ASSUME TypeOK, NEW s \in Sessions, Disconnected(s) PROVE TypeOK'
<1>1. ConversationTyped' /\ TasksTyped' /\ TabTyped'
  BY Untouched DEF Disconnected, engineVars, tabVars
<1>2. SessionsTyped'
  BY EndTyped DEF Disconnected, engineVars
<1>3. QED
  BY <1>1, <1>2 DEF TypeOK

-----------------------------------------------------------------------------
(* Frames.                                                                 *)

(* An engine call that a handler makes without changing its session.       *)
LEMMA CallTyped ==
  ASSUME TypeOK, NEW k \in Nat, Publish(k) \/ UNCHANGED <<eseq, subs>>,
         seq' \in {seq, seq + 1}, UNCHANGED <<starts, wireVars, phase, registered, busy, heard>>
  PROVE  /\ SessionsTyped'
         /\ eseq' \in Nat
         /\ seq \in Nat /\ seq' \in Nat /\ 1..seq \subseteq 1..seq'
<1>1. seq \in Nat /\ seq' \in Nat /\ 1..seq \subseteq 1..seq'
  BY DEF TypeOK, ConversationTyped
<1>2. /\ eseq' \in Nat
      /\ subs' \in [Sessions -> [Scopes -> Subscriptions]]
      /\ \A s \in Sessions, c \in Scopes : subs'[s][c].inc = subs[s][c].inc
  BY PublishTyped DEF TypeOK, ConversationTyped, SessionsTyped
<1>3. SessionsTyped'
  BY <1>1, <1>2 DEF TypeOK, SessionsTyped, wireVars
<1>4. QED
  BY <1>1, <1>2, <1>3

LEMMA CustomerMessageTyped ==
  ASSUME TypeOK, NEW s \in Sessions, CustomerMessage(s)
  PROVE  TypeOK'
<1> DEFINE found == knows /\ convState # "none"
           fresh == ~ found /\ convState # "active"
           m == Message(Customer, "public", fresh \/ convState = "active")
<1>1. /\ seq < MaxMessages /\ seq' = seq + 1
      /\ Publish(IF fresh THEN 5 ELSE 1)
      /\ convState' = IF fresh THEN "active" ELSE convState
      /\ mode' = IF fresh THEN "auto" ELSE mode
      /\ joined' = IF fresh THEN {} ELSE joined
      /\ starts' = IF fresh THEN Append(starts, eseq) ELSE starts
      /\ msgs' = (IF fresh THEN {} ELSE msgs) \union {m}
      /\ squad' = SquadNow(~ found)
      /\ phase' = [phase EXCEPT ![s] = "handling"]
      /\ busy' = [busy EXCEPT ![s].n = seq + 1, ![s].to = Audience(squad', s)]
      /\ UNCHANGED <<wireVars, registered, reply, csat, heard, tabVars>>
  BY DEF CustomerMessage
<1> HIDE DEF m
<1>2. /\ seq \in Nat /\ seq' \in Nat /\ seq' \in 0..MaxMessages
      /\ 1..seq \subseteq 1..seq' /\ seq' \in 1..seq'
      /\ eseq \in Nat
  BY <1>1, GatewayAssumption DEF TypeOK, ConversationTyped
<1>3. m \in Messages /\ m.n = seq'
  BY <1>1, <1>2, MessageTyped DEF m, Clients
<1>4. /\ eseq' \in Nat
      /\ subs' \in [Sessions -> [Scopes -> Subscriptions]]
      /\ \A r \in Sessions, c \in Scopes : subs'[r][c].inc = subs[r][c].inc
  BY <1>1, <1>2, PublishTyped DEF TypeOK, SessionsTyped
<1>5. starts' \in Seq(Nat) /\ Len(starts) <= Len(starts')
  BY <1>1, <1>2 DEF TypeOK, ConversationTyped
<1>6. ConversationTyped'
  <2>1. squad' \in {Nobody, "web-support", "general"}
    BY <1>1, SquadNowTyped DEF TypeOK, ConversationTyped
  <2>2. msgs' \subseteq Messages /\ \A l \in msgs' : l.n \in 1..seq'
    BY <1>1, <1>2, <1>3 DEF TypeOK, ConversationTyped
  <2>3. QED
    BY <1>1, <1>2, <1>4, <1>5, <2>1, <2>2 DEF TypeOK, ConversationTyped
<1>7. SessionsTyped'
  <2>1. Audience(squad', s) \in SUBSET Sessions
    BY AudienceTyped
  <2>2. /\ busy[s] \in Work
        /\ [busy[s] EXCEPT !.n = seq + 1, !.to = Audience(squad', s)] \in Work
    <3>1. busy[s] \in Work /\ seq + 1 \in Nat
      BY <1>2 DEF TypeOK, SessionsTyped
    <3>2. \A a \in SUBSET Sessions, n \in Nat : [busy[s] EXCEPT !.n = n, !.to = a] \in Work
      BY <3>1, WorkTyped
    <3>3. QED
      BY <2>1, <3>1, <3>2
  <2>3. busy' = [busy EXCEPT ![s] = [busy[s] EXCEPT !.n = seq + 1, !.to = Audience(squad', s)]]
    BY <1>1
  <2>4. /\ busy' \in [Sessions -> Work]
        /\ \A r \in Sessions : /\ busy'[r].replay = busy[r].replay
                               /\ busy'[r].n = IF r = s THEN seq' ELSE busy[r].n
    BY <2>2, <2>3, <1>1 DEF TypeOK, SessionsTyped, Work
  <2>5. \A r \in Sessions : /\ \A l \in busy'[r].replay : l.n \in 1..seq'
                           /\ phase'[r] = "handling" => busy'[r].n \in 1..seq'
    BY <1>1, <1>2, <2>4 DEF TypeOK, SessionsTyped
  <2>6. \A r \in Sessions, c \in Scopes : subs'[r][c].inc <= Len(starts')
    <3>1. Len(starts) \in Nat /\ Len(starts') \in Nat
      BY <1>5 DEF TypeOK, ConversationTyped
    <3>2. \A r \in Sessions, c \in Scopes : subs[r][c].inc \in Nat /\ subs[r][c].inc <= Len(starts)
      BY DEF TypeOK, SessionsTyped, Subscriptions
    <3>3. QED
      BY <1>4, <1>5, <3>1, <3>2
  <2>7. QED
    BY <1>1, <1>2, <1>4, <2>4, <2>5, <2>6 DEF TypeOK, SessionsTyped, wireVars
<1>8. TasksTyped' /\ TabTyped'
  BY <1>1, Untouched DEF TypeOK
<1>9. QED
  BY <1>6, <1>7, <1>8 DEF TypeOK

LEMMA BroadcastTyped == ASSUME TypeOK, NEW s \in Sessions, Broadcast(s) PROVE TypeOK'
<1>1. ConversationTyped' /\ TasksTyped' /\ TabTyped'
  BY Untouched DEF Broadcast, engineVars
<1>2. PICK t \in busy[s].to : /\ Hear(t, busy[s].n)
                             /\ busy' = [busy EXCEPT ![s].to = @ \ {t}]
  BY DEF Broadcast
<1>3. busy[s] \in Work /\ busy[s].to \in SUBSET Sessions /\ t \in Sessions
  BY DEF TypeOK, SessionsTyped, Work
<1>4. [busy[s] EXCEPT !.to = busy[s].to \ {t}] \in Work
  BY <1>3, WorkTyped
<1>5. /\ busy' \in [Sessions -> Work]
      /\ \A r \in Sessions : busy'[r].replay = busy[r].replay /\ busy'[r].n = busy[r].n
  BY <1>2, <1>4 DEF TypeOK, SessionsTyped, Work
<1>6. heard' \in [Sessions -> SUBSET (1..seq)]
  BY <1>2, <1>3, HearTyped DEF Broadcast, TypeOK, SessionsTyped, ConversationTyped
<1>7. SessionsTyped'
  BY <1>5, <1>6 DEF Broadcast, TypeOK, SessionsTyped, engineVars, wireVars
<1>8. QED
  BY <1>1, <1>7 DEF TypeOK

LEMMA AnsweredTyped == ASSUME TypeOK, NEW s \in Sessions, Answered(s) PROVE TypeOK'
<1>1. ConversationTyped'
  BY Untouched DEF Answered
<1>2. UNCHANGED <<wire, csat, seen, cursor, hello, seq, starts, eseq>>
  BY DEF Answered, engineVars
<1>3. TasksTyped'
  <2>1. [NoReply EXCEPT !.stage = "thinking", !.ws = s] \in Replies
    <3>1. s \in 0..MaxSessions
      BY GatewayAssumption DEF Sessions
    <3>2. \A r \in Replies : [r EXCEPT !.stage = "thinking", !.ws = s] \in Replies
      BY <3>1 DEF Replies
    <3>3. QED
      BY <3>2, NothingTyped
  <2>2. QED
    BY <1>2, <2>1 DEF Answered, TypeOK, TasksTyped, Replies
<1>4. SessionsTyped'
  <2>1. CASE /\ phase' = [phase EXCEPT ![s] = "serving"]
             /\ busy' = [busy EXCEPT ![s] = NoWork]
             /\ UNCHANGED <<owner, registered, subs, heard>>
    BY <1>2, <2>1, NothingTyped DEF TypeOK, SessionsTyped
  <2>2. CASE End(s)
    BY <1>2, <2>2, EndTyped
  <2>3. QED
    BY <2>1, <2>2 DEF Answered
<1>5. TabTyped'
  <2>1. knows' \in BOOLEAN
    BY DEF Answered, TypeOK, TabTyped, SessionsTyped
  <2>2. QED
    BY <1>2, <2>1 DEF TypeOK, TabTyped
<1>6. QED
  BY <1>1, <1>3, <1>4, <1>5 DEF TypeOK

(* The operators' frames.                                                  *)
LEMMA OperatorJoinTyped == ASSUME TypeOK, NEW s \in Sessions, OperatorJoin(s) PROVE TypeOK'
<1> DEFINE switches == mode = "auto" /\ convState # "closed"
<1>1. /\ UNCHANGED <<starts, wireVars, phase, registered, busy, reply, heard, tabVars>>
      /\ UNCHANGED <<convState, msgs, seq, squad, csat>>
      /\ owner[s] \in Operators
      /\ joined' = joined \union {owner[s]}
      /\ mode' = IF switches THEN "copilot" ELSE mode
      /\ Publish(IF switches THEN 2 ELSE 1)
  BY DEF OperatorJoin, OperatorFrame
<1>2. SessionsTyped' /\ eseq' \in Nat
  BY <1>1, CallTyped
<1>3. ConversationTyped'
  BY <1>1, <1>2 DEF TypeOK, ConversationTyped
<1>4. TasksTyped' /\ TabTyped'
  BY <1>1, Untouched
<1>5. QED
  BY <1>2, <1>3, <1>4 DEF TypeOK

LEMMA OperatorLeaveTyped == ASSUME TypeOK, NEW s \in Sessions, OperatorLeave(s) PROVE TypeOK'
<1> DEFINE switches == mode = "copilot" /\ joined = {owner[s]} /\ convState # "closed"
<1>1. /\ UNCHANGED <<starts, wireVars, phase, registered, busy, reply, heard, tabVars>>
      /\ UNCHANGED <<convState, msgs, seq, squad, csat>>
      /\ joined' = joined \ {owner[s]}
      /\ mode' = IF switches THEN "auto" ELSE mode
      /\ Publish(IF switches THEN 2 ELSE 1)
  BY DEF OperatorLeave, OperatorFrame
<1>2. SessionsTyped' /\ eseq' \in Nat
  BY <1>1, CallTyped
<1>3. ConversationTyped'
  BY <1>1, <1>2 DEF TypeOK, ConversationTyped
<1>4. TasksTyped' /\ TabTyped'
  BY <1>1, Untouched
<1>5. QED
  BY <1>2, <1>3, <1>4 DEF TypeOK

LEMMA OperatorMessageTyped ==
  ASSUME TypeOK, NEW s \in Sessions, OperatorMessage(s)
  PROVE  TypeOK'
<1> DEFINE m == Message(owner[s], Vis("operator"), convState = "active")
<1>1. /\ UNCHANGED <<starts, wireVars, phase, registered, busy, reply, heard, tabVars>>
      /\ UNCHANGED <<convState, mode, joined, squad, csat>>
      /\ owner[s] \in Operators
      /\ seq < MaxMessages /\ seq' = seq + 1
      /\ msgs' = msgs \union {m}
      /\ Publish(IF Vis("operator") = "side" THEN 2 ELSE 1)
  BY DEF OperatorMessage, OperatorFrame
<1>2. /\ SessionsTyped' /\ eseq' \in Nat
      /\ seq \in Nat /\ seq' \in Nat /\ 1..seq \subseteq 1..seq'
  BY <1>1, CallTyped
<1>3. m \in Messages /\ m.n = seq' /\ seq' \in 1..seq' /\ seq' \in 0..MaxMessages
  <2>1. Vis("operator") \in {"public", "side"} /\ owner[s] \in Clients \union {Agent}
    BY <1>1, VisTyped DEF Clients
  <2>2. m \in Messages /\ m.n = seq + 1
    BY <1>2, <2>1, MessageTyped
  <2>3. QED
    BY <1>1, <1>2, <2>2, GatewayAssumption
<1> HIDE DEF m
<1>4. ConversationTyped'
  <2>1. msgs' \subseteq Messages /\ \A l \in msgs' : l.n \in 1..seq'
    BY <1>1, <1>2, <1>3 DEF TypeOK, ConversationTyped
  <2>2. QED
    BY <1>1, <1>2, <1>3, <2>1 DEF TypeOK, ConversationTyped
<1>5. TasksTyped' /\ TabTyped'
  BY <1>1, Untouched
<1>6. QED
  BY <1>2, <1>4, <1>5 DEF TypeOK

LEMMA EditMessageTyped == ASSUME TypeOK, NEW s \in Sessions, EditMessage(s) PROVE TypeOK'
<1>1. /\ UNCHANGED <<starts, wireVars, phase, registered, busy, reply, heard, tabVars>>
      /\ UNCHANGED <<convState, mode, joined, msgs, seq, squad, csat>>
      /\ Publish(1)
  BY DEF EditMessage, OperatorFrame
<1>2. SessionsTyped' /\ eseq' \in Nat
  BY <1>1, CallTyped
<1>3. ConversationTyped'
  BY <1>1, <1>2 DEF TypeOK, ConversationTyped
<1>4. TasksTyped' /\ TabTyped'
  BY <1>1, Untouched
<1>5. QED
  BY <1>2, <1>3, <1>4 DEF TypeOK

LEMMA DeleteMessageTyped == ASSUME TypeOK, NEW s \in Sessions, DeleteMessage(s) PROVE TypeOK'
<1>1. /\ UNCHANGED <<starts, wireVars, phase, registered, busy, reply, heard, tabVars>>
      /\ UNCHANGED <<convState, mode, joined, seq, squad, csat>>
      /\ msgs' \subseteq msgs
      /\ Publish(1)
  BY DEF DeleteMessage, OperatorFrame
<1>2. SessionsTyped' /\ eseq' \in Nat
  BY <1>1, CallTyped
<1>3. ConversationTyped'
  BY <1>1, <1>2 DEF TypeOK, ConversationTyped
<1>4. TasksTyped' /\ TabTyped'
  BY <1>1, Untouched
<1>5. QED
  BY <1>2, <1>3, <1>4 DEF TypeOK

LEMMA OperatorCommandTyped ==
  ASSUME TypeOK, NEW s \in Sessions, NEW c \in Commands, OperatorCommand(s, c)
  PROVE  TypeOK'
<1>1. /\ UNCHANGED <<starts, wireVars, phase, registered, busy, reply, heard, tabVars>>
      /\ UNCHANGED <<convState, joined, msgs, seq, squad, csat>>
      /\ mode' = CommandTarget[c]
      /\ Publish(1)
  BY DEF OperatorCommand, OperatorFrame
<1>2. SessionsTyped' /\ eseq' \in Nat
  BY <1>1, CallTyped
<1>3. mode' \in {"auto", "copilot", "takeover"}
  BY <1>1, GatewayAssumption DEF CommandTarget
<1>4. ConversationTyped'
  BY <1>1, <1>2, <1>3 DEF TypeOK, ConversationTyped
<1>5. TasksTyped' /\ TabTyped'
  BY <1>1, Untouched
<1>6. QED
  BY <1>2, <1>4, <1>5 DEF TypeOK

LEMMA ResolveTyped == ASSUME TypeOK, NEW s \in Sessions, Resolve(s) PROVE TypeOK'
<1>1. /\ UNCHANGED <<starts, wireVars, phase, registered, busy, reply, heard, tabVars>>
      /\ UNCHANGED <<mode, joined, msgs, seq>>
      /\ csat' = [NoCsat EXCEPT !.stage = "starting"]
      /\ convState' \in {"none", "active", "closed"}
      /\ squad' \in {Nobody, "web-support", "general"}
      /\ Publish(2) \/ UNCHANGED <<eseq, subs>>
  BY DEF Resolve, OperatorFrame, TypeOK, ConversationTyped
<1>2. SessionsTyped' /\ eseq' \in Nat
  BY <1>1, CallTyped
<1>3. ConversationTyped'
  BY <1>1, <1>2 DEF TypeOK, ConversationTyped
<1>4. TasksTyped'
  <2>1. csat' \in CsatTasks
    <3>1. \A task \in CsatTasks : [task EXCEPT !.stage = "starting"] \in CsatTasks
      BY DEF CsatTasks
    <3>2. QED
      BY <1>1, <3>1, NothingTyped
  <2>2. QED
    BY <1>1, <2>1 DEF TypeOK, TasksTyped
<1>5. TabTyped'
  BY <1>1, Untouched
<1>6. QED
  BY <1>2, <1>3, <1>4, <1>5 DEF TypeOK

-----------------------------------------------------------------------------
(* Subscriptions and their fan-out.                                        *)

(* A step that changes one subscription only.                              *)
LEMMA OneSubscriptionTyped ==
  ASSUME TypeOK, NEW s \in Sessions, NEW c \in Scopes, NEW sub \in Subscriptions,
         sub.inc <= Len(starts), subs' = [subs EXCEPT ![s][c] = sub],
         UNCHANGED <<engineVars, wireVars, phase, registered, busy, reply, csat, heard, tabVars>>
  PROVE  TypeOK'
<1>1. ConversationTyped' /\ TasksTyped' /\ TabTyped'
  BY Untouched DEF engineVars
<1>2. /\ subs' \in [Sessions -> [Scopes -> Subscriptions]]
      /\ \A r \in Sessions, d \in Scopes : subs'[r][d] \in {subs[r][d], sub}
  BY DEF TypeOK, SessionsTyped
<1>3. SessionsTyped'
  BY <1>2 DEF TypeOK, SessionsTyped, engineVars, wireVars
<1>4. QED
  BY <1>1, <1>3 DEF TypeOK

LEMMA SubscribeTyped ==
  ASSUME TypeOK, NEW s \in Sessions, NEW c \in Scopes, NEW since \in Int,
         Subscribe(s, c, since)
  PROVE  TypeOK'
<1> DEFINE sub == [NoSub EXCEPT !.stage = IF c = "conv" THEN "starting" ELSE "live",
                                !.since = since, !.at = IF c = "conv" THEN 0 ELSE seq]
<1>1. seq \in Nat /\ Len(starts) \in Nat
  BY DEF TypeOK, ConversationTyped
<1>3. sub \in Subscriptions /\ sub.inc <= Len(starts)
  <2>1. \A old \in Subscriptions, stage \in {"starting", "live"} :
           \A at \in Nat :
             /\ [old EXCEPT !.stage = stage, !.since = since, !.at = at] \in Subscriptions
             /\ [old EXCEPT !.stage = stage, !.since = since, !.at = at].inc = old.inc
    BY <1>1 DEF Subscriptions
  <2>2. /\ (IF c = "conv" THEN "starting" ELSE "live") \in {"starting", "live"}
        /\ (IF c = "conv" THEN 0 ELSE seq) \in Nat
    BY <1>1
  <2>3. sub \in Subscriptions /\ sub.inc = NoSub.inc
    BY <2>1, <2>2, NothingTyped
  <2> HIDE DEF sub
  <2>4. QED
    BY <1>1, <2>3, NothingTyped
<1>2. subs' = [subs EXCEPT ![s][c] = sub]
  BY DEF Subscribe
<1> HIDE DEF sub
<1>4. QED
  BY <1>2, <1>3, OneSubscriptionTyped DEF Subscribe

LEMMA UnsubscribeTyped ==
  ASSUME TypeOK, NEW s \in Sessions, NEW c \in Scopes, Unsubscribe(s, c)
  PROVE  TypeOK'
<1>1. NoSub.inc <= Len(starts)
  BY NothingTyped DEF TypeOK, ConversationTyped
<1>2. QED
  BY <1>1, NothingTyped, OneSubscriptionTyped DEF Unsubscribe

LEMMA SentTyped ==
  ASSUME TypeOK, NEW s \in Sessions, NEW sub \in Subscriptions, sub.inc <= Len(starts),
         Sent(s, sub)
  PROVE  TypeOK'
<1>1. /\ [NoSub EXCEPT !.stage = "ended"] \in Subscriptions
      /\ [NoSub EXCEPT !.stage = "ended"].inc <= Len(starts)
  <2>1. \A old \in Subscriptions : /\ [old EXCEPT !.stage = "ended"] \in Subscriptions
                                  /\ [old EXCEPT !.stage = "ended"].inc = old.inc
    BY DEF Subscriptions
  <2>2. Len(starts) \in Nat
    BY DEF TypeOK, ConversationTyped
  <2>3. QED
    BY <2>1, <2>2, NothingTyped
<1>2. PICK new \in {sub, [NoSub EXCEPT !.stage = "ended"]} :
           \E stage : FanoutStep(s, stage, new)
  BY DEF Sent
<1>3. new \in Subscriptions /\ new.inc <= Len(starts)
  BY <1>1, <1>2
<1>4. QED
  BY <1>2, <1>3, ScopesTyped, OneSubscriptionTyped DEF FanoutStep

LEMMA LiveTyped ==
  ASSUME NEW sub \in Subscriptions, eseq \in Nat
  PROVE  Live(sub) \in Subscriptions /\ Live(sub).inc = sub.inc
  BY DEF Live, Subscriptions

LEMMA BacklogTyped ==
  ASSUME TypeOK, NEW sub \in Subscriptions, sub.inc <= Len(starts)
  PROVE  Backlog(sub) \subseteq Nat
<1>1. CASE sub.inc = 0
  BY <1>1 DEF Backlog
<1>2. CASE sub.inc # 0
  <2>1. /\ starts \in Seq(Nat) /\ eseq \in Nat /\ Len(starts) \in Nat
        /\ sub.inc \in Nat \ {0}
    BY <1>2 DEF TypeOK, ConversationTyped, Subscriptions
  <2>2. sub.inc \in 1..Len(starts)
    BY <2>1
  <2>3. starts[sub.inc] \in Nat /\ (sub.inc < Len(starts) => starts[sub.inc + 1] \in Nat)
    BY <2>1, <2>2
  <2> DEFINE end == IF sub.inc < Len(starts) THEN starts[sub.inc + 1] ELSE eseq
  <2>4. end \in Nat
    BY <2>1, <2>3
  <2>5. Backlog(sub) = {n \in starts[sub.inc]+1..end : n > sub.last}
    BY <1>2 DEF Backlog
  <2> HIDE DEF end
  <2>6. QED
    BY <2>3, <2>4, <2>5
<1>3. QED
  BY <1>1, <1>2

LEMMA FanoutTyped == ASSUME TypeOK, NEW s \in Sessions, Fanout(s) PROVE TypeOK'
<1> DEFINE sub == subs[s]["conv"]
<1>1. /\ sub \in Subscriptions /\ sub.inc <= Len(starts)
      /\ eseq \in Nat /\ Len(starts) \in Nat
  BY ScopesTyped DEF TypeOK, SessionsTyped, ConversationTyped
<1>2. \A n \in Nat : /\ [sub EXCEPT !.last = n] \in Subscriptions
                    /\ [sub EXCEPT !.last = n].inc = sub.inc
  <2> SUFFICES ASSUME NEW n \in Nat
               PROVE  /\ [sub EXCEPT !.last = n] \in Subscriptions
                      /\ [sub EXCEPT !.last = n].inc = sub.inc
    OBVIOUS
  <2> HIDE DEF sub
  <2>1. n \in Int
    OBVIOUS
  <2>2. [sub EXCEPT !.last = n] \in Subscriptions
    BY <1>1, <2>1 DEF Subscriptions
  <2>3. [sub EXCEPT !.last = n].inc = sub.inc
    BY <1>1 DEF Subscriptions
  <2>4. QED
    BY <2>2, <2>3
<1>3. CASE FanoutStarts(s)
  <2> DEFINE begun == [sub EXCEPT !.inc = Len(starts),
                                  !.last = IF sub.since \in 0..eseq THEN sub.since ELSE eseq]
             next == IF Backlog(begun) = {} THEN Live(begun)
                     ELSE [begun EXCEPT !.stage = "backlog"]
  <2>1. FanoutStep(s, "starting", next)
    BY <1>3 DEF FanoutStarts
  <2>2. begun \in Subscriptions /\ begun.inc = Len(starts)
    <3>1. \A old \in Subscriptions, n \in Int :
             /\ [old EXCEPT !.inc = Len(starts), !.last = n] \in Subscriptions
             /\ [old EXCEPT !.inc = Len(starts), !.last = n].inc = Len(starts)
      BY <1>1 DEF Subscriptions
    <3>2. (IF sub.since \in 0..eseq THEN sub.since ELSE eseq) \in Int
      BY <1>1 DEF Subscriptions
    <3>3. QED
      BY <1>1, <3>1, <3>2
  <2> HIDE DEF begun
  <2>3. /\ [begun EXCEPT !.stage = "backlog"] \in Subscriptions
        /\ [begun EXCEPT !.stage = "backlog"].inc = begun.inc
    BY <2>2 DEF Subscriptions
  <2>4. next \in Subscriptions /\ next.inc <= Len(starts)
    BY <1>1, <2>2, <2>3, LiveTyped
  <2> HIDE DEF next
  <2>5. QED
    BY <2>1, <2>4, ScopesTyped, OneSubscriptionTyped DEF FanoutStep
<1>4. CASE FanoutBacklog(s)
  <2>1. CASE FanoutStep(s, "backlog", Live(sub))
    BY <2>1, <1>1, LiveTyped, ScopesTyped, OneSubscriptionTyped DEF FanoutStep
  <2>2. CASE \E n \in Backlog(sub) : Sent(s, [sub EXCEPT !.last = n])
    <3>1. PICK n \in Nat : Sent(s, [sub EXCEPT !.last = n])
      BY <2>2, <1>1, BacklogTyped
    <3>2. QED
      BY <3>1, <1>1, <1>2, SentTyped
  <2>3. QED
    BY <1>4, <2>1, <2>2 DEF FanoutBacklog
<1>5. CASE FanoutLive(s)
  <2>1. sub.queue # <<>> /\ Sent(s, [sub EXCEPT !.last = Head(sub.queue), !.queue = Tail(sub.queue)])
    BY <1>5 DEF FanoutLive
  <2>2. Head(sub.queue) \in Nat /\ Tail(sub.queue) \in Seq(Nat)
    <3> HIDE DEF sub
    <3>1. sub.queue \in Seq(Nat)
      BY <1>1 DEF Subscriptions
    <3>2. QED
      BY <2>1, <3>1
  <2>3. ASSUME NEW n \in Int, NEW q \in Seq(Nat)
        PROVE  /\ [sub EXCEPT !.last = n, !.queue = q] \in Subscriptions
               /\ [sub EXCEPT !.last = n, !.queue = q].inc = sub.inc
    <3> HIDE DEF sub
    <3>1. [sub EXCEPT !.last = n, !.queue = q] \in Subscriptions
      BY <1>1 DEF Subscriptions
    <3>2. [sub EXCEPT !.last = n, !.queue = q].inc = sub.inc
      BY <1>1 DEF Subscriptions
    <3>3. QED
      BY <3>1, <3>2
  <2> DEFINE new == [sub EXCEPT !.last = Head(sub.queue), !.queue = Tail(sub.queue)]
  <2>4. new \in Subscriptions /\ new.inc = sub.inc
    <3>1. Head(sub.queue) \in Int
      BY <2>2
    <3> HIDE DEF sub
    <3>2. QED
      BY <2>2, <2>3, <3>1
  <2> HIDE DEF new
  <2>5. QED
    BY <1>1, <2>1, <2>4, SentTyped DEF new
<1>6. QED
  BY <1>3, <1>4, <1>5 DEF Fanout

-----------------------------------------------------------------------------
(* The agent's reply and the request for a rating.                         *)
LEMMA RepliesTyped ==
  ASSUME NEW r \in Replies, NEW n \in Nat, NEW vis \in {"public", "side"},
         NEW sessions \in SUBSET Sessions
  PROVE  /\ [r EXCEPT !.stage = "stored", !.n = n, !.vis = vis] \in Replies
         /\ [r EXCEPT !.stage = "telling", !.to = sessions] \in Replies
         /\ [r EXCEPT !.stage = "telling", !.to = sessions].n = r.n
         /\ [r EXCEPT !.to = sessions] \in Replies
         /\ [r EXCEPT !.to = sessions].n = r.n
  BY DEF Replies

(* A step that changes one reply.                                          *)
LEMMA OneReplyTyped ==
  ASSUME TypeOK, NEW n \in 1..MaxMessages, NEW r \in Replies, seq' \in {seq, seq + 1},
         r.stage \in {"stored", "telling"} => r.n \in 1..seq',
         reply' = [reply EXCEPT ![n] = r], UNCHANGED csat
  PROVE  TasksTyped'
<1>1. reply' \in [1..MaxMessages -> Replies] /\ 1..seq \subseteq 1..seq'
  BY DEF TypeOK, TasksTyped, ConversationTyped
<1>2. \A k \in 1..MaxMessages : reply'[k] = IF k = n THEN r ELSE reply[k]
  BY DEF TypeOK, TasksTyped
<1>3. QED
  BY <1>1, <1>2 DEF TypeOK, TasksTyped

LEMMA ReplyStoredTyped ==
  ASSUME TypeOK, NEW n \in 1..MaxMessages, ReplyStored(n)
  PROVE  TypeOK'
<1> DEFINE m == Message(Agent, Vis("agent"), convState = "active")
<1>1. /\ UNCHANGED <<convState, mode, joined, starts, squad, wireVars, phase, registered, busy,
                      csat, heard, tabVars>>
      /\ seq < MaxMessages /\ seq' = seq + 1
      /\ msgs' = msgs \union {m}
      /\ Publish(IF Vis("agent") = "side" THEN 2 ELSE 1)
      /\ reply' = [reply EXCEPT ![n] = [reply[n] EXCEPT !.stage = "stored", !.n = seq + 1,
                                                       !.vis = Vis("agent")]]
  BY DEF ReplyStored
<1>2. /\ SessionsTyped' /\ eseq' \in Nat
      /\ seq \in Nat /\ seq' \in Nat /\ 1..seq \subseteq 1..seq'
  BY <1>1, CallTyped
<1>3. m \in Messages /\ m.n = seq' /\ seq' \in 1..seq' /\ seq' \in 0..MaxMessages
  <2>1. Vis("agent") \in {"public", "side"}
    BY VisTyped
  <2>2. m \in Messages /\ m.n = seq + 1
    BY <1>2, <2>1, MessageTyped
  <2>3. QED
    BY <1>1, <1>2, <2>2, GatewayAssumption
<1> HIDE DEF m
<1>4. ConversationTyped'
  <2>1. msgs' \subseteq Messages /\ \A l \in msgs' : l.n \in 1..seq'
    BY <1>1, <1>2, <1>3 DEF TypeOK, ConversationTyped
  <2>2. QED
    BY <1>1, <1>2, <1>3, <2>1 DEF TypeOK, ConversationTyped
<1>5. TasksTyped'
  <2> DEFINE r == [reply[n] EXCEPT !.stage = "stored", !.n = seq + 1, !.vis = Vis("agent")]
  <2>1. reply[n] \in Replies /\ seq + 1 \in Nat /\ Vis("agent") \in {"public", "side"}
    BY <1>2, VisTyped DEF TypeOK, TasksTyped
  <2>2. r \in Replies /\ r.n = seq'
    BY <2>1, <1>1, RepliesTyped DEF Replies
  <2>3. reply' = [reply EXCEPT ![n] = r] /\ UNCHANGED csat
    BY <1>1
  <2> HIDE DEF r
  <2>4. QED
    BY <1>1, <1>3, <2>2, <2>3, OneReplyTyped
<1>6. TabTyped'
  BY <1>1, Untouched
<1>7. QED
  BY <1>2, <1>4, <1>5, <1>6 DEF TypeOK

LEMMA ReplyPushedTyped ==
  ASSUME TypeOK, NEW n \in 1..MaxMessages, ReplyPushed(n)
  PROVE  TypeOK'
<1>1. /\ UNCHANGED <<convState, mode, joined, msgs, seq, eseq, starts, wireVars, phase,
                      registered, busy, subs, csat, heard, hello>>
      /\ reply[n].stage = "stored"
  BY DEF ReplyPushed
<1>2. /\ reply[n] \in Replies /\ reply[n].n \in 1..seq /\ reply[n].vis \in {"public", "side"}
      /\ seq \in Nat
  BY <1>1 DEF TypeOK, TasksTyped, ConversationTyped, Replies
<1>3. SessionsTyped'
  BY <1>1, Untouched
<1>4. TabTyped'
  <2>1. CASE Show(reply[n])
    BY <2>1, <1>1, <1>2, ShowTyped DEF TypeOK
  <2>2. CASE UNCHANGED <<seen, cursor, knows>>
    BY <2>2, <1>1, Untouched DEF tabVars
  <2>3. QED
    BY <2>1, <2>2 DEF ReplyPushed
<1>5. squad' \in {Nobody, "web-support", "general"}
  BY SquadNowTyped DEF ReplyPushed, TypeOK, ConversationTyped
<1>6. ConversationTyped'
  BY <1>1, <1>5 DEF TypeOK, ConversationTyped
<1>7. TasksTyped'
  <2>1. CASE reply' = [reply EXCEPT ![n].stage = "telling",
                                    ![n].to = Audience(squad', reply[n].ws)]
    <3> DEFINE r == [reply[n] EXCEPT !.stage = "telling", !.to = Audience(squad', reply[n].ws)]
    <3>1. Audience(squad', reply[n].ws) \in SUBSET Sessions
      BY AudienceTyped
    <3>2. r \in Replies /\ r.n = reply[n].n
      BY <1>2, <3>1, RepliesTyped
    <3>3. reply' = [reply EXCEPT ![n] = r]
      BY <2>1
    <3> HIDE DEF r
    <3>4. QED
      BY <1>1, <1>2, <3>2, <3>3, OneReplyTyped
  <2>2. CASE reply' = [reply EXCEPT ![n] = NoReply]
    BY <2>2, <1>1, NothingTyped, OneReplyTyped
  <2>3. QED
    BY <2>1, <2>2 DEF ReplyPushed
<1>8. QED
  BY <1>3, <1>4, <1>6, <1>7 DEF TypeOK

LEMMA ReplyToldTyped ==
  ASSUME TypeOK, NEW n \in 1..MaxMessages, ReplyTold(n)
  PROVE  TypeOK'
<1>1. /\ UNCHANGED <<engineVars, wireVars, phase, registered, busy, subs, csat, tabVars>>
      /\ UNCHANGED <<seq, starts>>
      /\ reply[n].stage = "telling"
  BY DEF ReplyTold, engineVars
<1>2. /\ reply[n] \in Replies /\ reply[n].n \in 1..seq /\ reply[n].to \in SUBSET Sessions
      /\ seq \in Nat /\ heard \in [Sessions -> SUBSET (1..seq)]
  BY <1>1 DEF TypeOK, TasksTyped, ConversationTyped, SessionsTyped, Replies
<1>3. ConversationTyped' /\ TabTyped'
  BY <1>1, Untouched
<1>4. CASE \E t \in reply[n].to : /\ Hear(t, reply[n].n)
                                  /\ reply' = [reply EXCEPT ![n].to = @ \ {t}]
  <2>1. PICK t \in reply[n].to : /\ Hear(t, reply[n].n)
                                 /\ reply' = [reply EXCEPT ![n].to = @ \ {t}]
    BY <1>4
  <2> DEFINE r == [reply[n] EXCEPT !.to = reply[n].to \ {t}]
  <2>2. r \in Replies /\ r.n = reply[n].n
    BY <1>2, RepliesTyped
  <2>3. reply' = [reply EXCEPT ![n] = r]
    BY <2>1
  <2> HIDE DEF r
  <2>4. TasksTyped'
    BY <1>1, <1>2, <2>2, <2>3, OneReplyTyped
  <2>5. heard' \in [Sessions -> SUBSET (1..seq)]
    BY <1>2, <2>1, HearTyped
  <2>6. SessionsTyped'
    BY <1>1, <2>5 DEF TypeOK, SessionsTyped, wireVars
  <2>7. QED
    BY <1>3, <2>4, <2>6 DEF TypeOK
<1>5. CASE reply' = [reply EXCEPT ![n] = NoReply] /\ UNCHANGED heard
  <2>1. TasksTyped'
    BY <1>1, <1>5, NothingTyped, OneReplyTyped
  <2>2. SessionsTyped'
    BY <1>1, <1>5, Untouched
  <2>3. QED
    BY <1>3, <2>1, <2>2 DEF TypeOK
<1>6. QED
  BY <1>4, <1>5 DEF ReplyTold

LEMMA CsatTyped == ASSUME TypeOK, Csat PROVE TypeOK'
<1>1. /\ UNCHANGED <<convState, mode, joined, msgs, seq, eseq, starts, wireVars, phase,
                      registered, busy, subs, reply, heard, tabVars>>
      /\ csat \in CsatTasks /\ csat.to \in SUBSET Sessions /\ csat.asked \in BOOLEAN
  BY DEF Csat, CsatStarts, CsatTold, engineVars, TypeOK, TasksTyped, CsatTasks
<1>2. SessionsTyped' /\ TabTyped'
  BY <1>1, Untouched
<1>3. squad' \in {Nobody, "web-support", "general"}
  BY SquadNowTyped DEF Csat, CsatStarts, CsatTold, engineVars, TypeOK, ConversationTyped
<1>4. ConversationTyped'
  BY <1>1, <1>3 DEF TypeOK, ConversationTyped
<1>5. csat' \in CsatTasks
  <2>1. CASE CsatStarts
    <3>1. PICK up \in Sessions \union {0} :
             csat' = [csat EXCEPT !.stage = "telling", !.ws = up, !.to = Audience(squad', 0)]
      BY <2>1 DEF CsatStarts, TypeOK, SessionsTyped
    <3>2. up \in 0..MaxSessions /\ Audience(squad', 0) \in SUBSET Sessions
      BY <3>1, GatewayAssumption, AudienceTyped DEF Sessions
    <3>3. ASSUME NEW to \in SUBSET Sessions
          PROVE  [csat EXCEPT !.stage = "telling", !.ws = up, !.to = to] \in CsatTasks
      BY <1>1, <3>2 DEF CsatTasks
    <3>4. QED
      BY <3>1, <3>2, <3>3
  <2>2. CASE csat' = [csat EXCEPT !.stage = "done"]
    BY <2>2, <1>1 DEF CsatTasks
  <2>3. ASSUME NEW t \in csat.to,
               csat' = [csat EXCEPT !.to = csat.to \ {t}, !.asked = csat.asked \/ t = csat.ws]
        PROVE  csat' \in CsatTasks
    <3>1. csat.to \ {t} \in SUBSET Sessions
      BY <1>1
    <3>2. (csat.asked \/ t = csat.ws) \in BOOLEAN
      OBVIOUS
    <3>3. ASSUME NEW to \in SUBSET Sessions, NEW asked \in BOOLEAN
          PROVE  [csat EXCEPT !.to = to, !.asked = asked] \in CsatTasks
      BY <1>1 DEF CsatTasks
    <3>4. QED
      BY <2>3, <3>1, <3>2, <3>3, Zenon
  <2>4. QED
    BY <2>1, <2>2, <2>3, Zenon DEF Csat, CsatTold
<1>6. TasksTyped'
  BY <1>1, <1>5 DEF TypeOK, TasksTyped
<1>7. QED
  BY <1>2, <1>4, <1>6 DEF TypeOK

LEMMA NextTyped == ASSUME TypeOK, [Next]_vars PROVE TypeOK'
<1>1. ASSUME NEW s \in Sessions, Frame(s)
      PROVE  TypeOK'
  <2>1. CASE \E squadId \in Squads : Subscribe(s, squadId, NoSince)
    BY <2>1, ScopesTyped, SubscribeTyped DEF NoSince
  <2>2. CASE \E since \in Sinces : Subscribe(s, "conv", since)
    <3>1. Sinces \subseteq Int
      BY GatewayAssumption DEF NoSince
    <3>2. QED
      BY <2>2, <3>1, ScopesTyped, SubscribeTyped
  <2>3. QED
    BY <1>1, <2>1, <2>2, CustomerMessageTyped, OperatorJoinTyped, OperatorLeaveTyped,
       OperatorMessageTyped, EditMessageTyped, DeleteMessageTyped, ResolveTyped,
       OperatorCommandTyped, UnsubscribeTyped DEF Frame
<1>2. ASSUME NEW s \in Sessions, Serve(s)
      PROVE  TypeOK'
  BY <1>2, ReplayTyped, DisconnectedTyped, BroadcastTyped, AnsweredTyped DEF Serve
<1>3. CASE UNCHANGED vars
  <2>1. SessionsTyped'
    BY <1>3, Untouched DEF vars, engineVars
  <2>2. ConversationTyped' /\ TasksTyped' /\ TabTyped'
    BY <1>3, Untouched DEF vars, engineVars
  <2>3. QED
    BY <2>1, <2>2 DEF TypeOK
<1>4. QED
  BY <1>1, <1>2, <1>3, ConnectTyped, ReloadTyped, DropTyped, FanoutTyped, ReplyStoredTyped,
     ReplyPushedTyped, ReplyToldTyped, CsatTyped DEF Next, ReplyGoes

(* Every variable keeps its type.                                          *)
THEOREM TypeCorrect == Spec => []TypeOK
<1>1. QED
  BY InitTyped, NextTyped, PTL DEF Spec

-----------------------------------------------------------------------------
(* Which steps leave sessions as they are.                                 *)

(* No new subscription, no socket come back, no customer's message, and    *)
(* nothing unheard: what most steps have in common.                        *)
Quiet ==
  /\ \A s \in Sessions, c \in Scopes :
       subs'[s][c].stage # "none" => /\ subs[s][c].stage # "none"
                                     /\ c # "conv" => subs'[s][c].at = subs[s][c].at
  /\ \A s \in Sessions : /\ wire'[s] => wire[s]
                         /\ heard[s] \subseteq heard'[s]
  /\ \A m \in msgs' \ msgs : m.src # Customer
  /\ UNCHANGED <<owner, phase, registered, busy>>

LEMMA PublishQuiet ==
  ASSUME TypeOK, NEW k \in Nat, Publish(k) \/ UNCHANGED subs,
         UNCHANGED <<wireVars, phase, registered, busy, heard>>,
         \A m \in msgs' \ msgs : m.src # Customer
  PROVE  Quiet
<1>1. \A s \in Sessions, c \in Scopes : /\ subs'[s][c].stage = subs[s][c].stage
                                        /\ subs'[s][c].at = subs[s][c].at
  BY PublishTyped DEF TypeOK, ConversationTyped, SessionsTyped
<1>2. QED
  BY <1>1 DEF Quiet, wireVars

LEMMA FrameQuiet ==
  ASSUME TypeOK, NEW s \in Sessions,
         \/ OperatorJoin(s) \/ OperatorLeave(s) \/ OperatorMessage(s)
         \/ EditMessage(s) \/ DeleteMessage(s) \/ Resolve(s)
         \/ \E c \in Commands : OperatorCommand(s, c)
         \/ \E scope \in Scopes : Unsubscribe(s, scope)
  PROVE  Quiet
<1>1. CASE OperatorJoin(s) \/ OperatorLeave(s)
  BY <1>1, PublishQuiet DEF OperatorJoin, OperatorLeave, OperatorFrame
<1>2. CASE EditMessage(s) \/ Resolve(s) \/ \E c \in Commands : OperatorCommand(s, c)
  BY <1>2, PublishQuiet DEF EditMessage, Resolve, OperatorCommand, OperatorFrame
<1>3. CASE DeleteMessage(s)
  BY <1>3, PublishQuiet DEF DeleteMessage, OperatorFrame
<1>4. CASE OperatorMessage(s)
  <2>1. /\ owner[s] \in Operators /\ owner[s] # Customer
        /\ msgs' = msgs \union {Message(owner[s], Vis("operator"), convState = "active")}
    BY <1>4, GatewayAssumption DEF OperatorMessage, OperatorFrame
  <2>2. Message(owner[s], Vis("operator"), convState = "active").src # Customer
    BY <2>1 DEF Message
  <2>3. QED
    BY <1>4, <2>1, <2>2, PublishQuiet DEF OperatorMessage, OperatorFrame
<1>5. CASE \E scope \in Scopes : Unsubscribe(s, scope)
  <2>1. PICK scope \in Scopes : Unsubscribe(s, scope)
    BY <1>5
  <2>2. \A r \in Sessions, c \in Scopes : subs'[r][c] \in {subs[r][c], NoSub}
    BY <2>1 DEF Unsubscribe, TypeOK, SessionsTyped
  <2>3. QED
    BY <2>1, <2>2, NothingTyped DEF Unsubscribe, Quiet, engineVars, wireVars
<1>6. QED
  BY <1>1, <1>2, <1>3, <1>4, <1>5

(* A step of a fan-out task: its subscription becomes another one.         *)
FansOut(s, sub) == \E stage \in {"starting", "backlog", "live"} : FanoutStep(s, stage, sub)

LEMMA FanoutSteps == ASSUME NEW s \in Sessions, Fanout(s) PROVE \E sub : FansOut(s, sub)
<1>1. ASSUME NEW sub, Sent(s, sub), subs[s]["conv"].stage \in {"backlog", "live"}
      PROVE  \E new : FansOut(s, new)
  BY <1>1 DEF Sent, FansOut
<1>2. CASE FanoutStarts(s)
  BY <1>2 DEF FanoutStarts, FansOut
<1>3. CASE FanoutBacklog(s)
  <2>1. CASE FanoutStep(s, "backlog", Live(subs[s]["conv"]))
    BY <2>1 DEF FansOut
  <2>2. CASE \E n \in Backlog(subs[s]["conv"]) : Sent(s, [subs[s]["conv"] EXCEPT !.last = n])
    BY <1>1, <1>3, <2>2 DEF FanoutBacklog
  <2>3. QED
    BY <1>3, <2>1, <2>2 DEF FanoutBacklog
<1>4. CASE FanoutLive(s)
  BY <1>1, <1>4 DEF FanoutLive
<1>5. QED
  BY <1>2, <1>3, <1>4 DEF Fanout

LEMMA FanoutQuiet ==
  ASSUME TypeOK, NEW s \in Sessions, Fanout(s)
  PROVE  Quiet
<1>1. PICK sub : FansOut(s, sub)
  BY FanoutSteps
<1>2. \A r \in Sessions, c \in Scopes :
        subs'[r][c] = IF r = s /\ c = "conv" THEN sub ELSE subs[r][c]
  BY <1>1, ScopesTyped DEF FansOut, FanoutStep, TypeOK, SessionsTyped
<1>3. QED
  BY <1>1, <1>2 DEF FansOut, FanoutStep, Quiet, engineVars, wireVars

LEMMA TaskQuiet ==
  ASSUME TypeOK, Csat \/ \E n \in 1..MaxMessages : ReplyStored(n) \/ ReplyGoes(n)
  PROVE  Quiet
<1>1. CASE Csat
  BY <1>1 DEF Csat, CsatStarts, CsatTold, Quiet, engineVars, wireVars
<1>2. ASSUME NEW n \in 1..MaxMessages, ReplyStored(n)
      PROVE  Quiet
  <2>1. Message(Agent, Vis("agent"), convState = "active").src # Customer
    BY GatewayAssumption DEF Message
  <2>2. QED
    BY <1>2, <2>1, PublishQuiet DEF ReplyStored
<1>3. ASSUME NEW n \in 1..MaxMessages, ReplyPushed(n)
      PROVE  Quiet
  BY <1>3 DEF ReplyPushed, Quiet, wireVars
<1>4. ASSUME NEW n \in 1..MaxMessages, ReplyTold(n)
      PROVE  Quiet
  <2>1. \A s \in Sessions : heard[s] \subseteq heard'[s]
    BY <1>4 DEF ReplyTold, Hear, TypeOK, SessionsTyped
  <2>2. QED
    BY <1>4, <2>1 DEF ReplyTold, Quiet, engineVars, wireVars
<1>5. QED
  BY <1>1, <1>2, <1>3, <1>4 DEF ReplyGoes

LEMMA SocketQuiet ==
  ASSUME TypeOK, Reload \/ (\E s \in Sessions : Drop(s)) \/ UNCHANGED vars
  PROVE  Quiet
<1>1. CASE Reload
  BY <1>1 DEF Reload, Quiet, engineVars, TypeOK, SessionsTyped
<1>2. ASSUME NEW s \in Sessions, Drop(s)
      PROVE  Quiet
  BY <1>2 DEF Drop, Quiet, engineVars, TypeOK, SessionsTyped
<1>3. CASE UNCHANGED vars
  BY <1>3 DEF vars, Quiet, engineVars, wireVars
<1>4. QED
  BY <1>1, <1>2, <1>3

(* The other steps.                                                        *)
LEMMA Steps ==
  ASSUME TypeOK, [Next]_vars
  PROVE  \/ Quiet
         \/ \E c \in Clients : Connect(c)
         \/ \E s \in Sessions : Serve(s) \/ CustomerMessage(s)
         \/ \E s \in Sessions, c \in Scopes, since \in Int : Subscribe(s, c, since)
<1>1. Sinces \subseteq Int /\ NoSince \in Int
  BY GatewayAssumption DEF NoSince
<1>2. ASSUME NEW s \in Sessions, Frame(s)
      PROVE  \/ Quiet
             \/ CustomerMessage(s)
             \/ \E c \in Scopes, since \in Int : Subscribe(s, c, since)
  BY <1>1, <1>2, FrameQuiet, ScopesTyped DEF Frame
<1>3. QED
  BY <1>2, FanoutQuiet, TaskQuiet, SocketQuiet DEF Next

-----------------------------------------------------------------------------
(* Subscriptions end with their sessions.  The inductive form says also    *)
(* that a session that is served is registered, and that only operators    *)
(* subscribe.                                                              *)
Served ==
  \A s \in Sessions :
    /\ phase[s] \in {"replaying", "serving", "handling"} => s \in registered
    /\ (\E c \in Scopes : subs[s][c].stage # "none")
         => phase[s] \in {"serving", "handling"} /\ owner[s] \in Operators

LEMMA EndServed ==
  ASSUME TypeOK, Served, NEW s \in Sessions, End(s)
  PROVE  Served'
<1>1. \A r \in Sessions, c \in Scopes : subs'[r][c] = IF r = s THEN NoSub ELSE subs[r][c]
  BY DEF End, TypeOK, SessionsTyped
<1>2. QED
  BY <1>1, NothingTyped DEF End, Served, TypeOK, SessionsTyped

LEMMA ServedNext == ASSUME TypeOK, Served, [Next]_vars PROVE Served'
<1>1. CASE Quiet
  BY <1>1 DEF Quiet, Served
<1>2. ASSUME NEW c \in Clients, Connect(c)
      PROVE  Served'
  <2>1. PICK s \in Unused : /\ owner' = [owner EXCEPT ![s] = c]
                            /\ registered' = registered \union {s}
                            /\ HelloFails(s) \/ ReplayBegins(s, c) \/ ServingBegins(s, c)
    BY <1>2 DEF Connect
  <2>2. s \in Sessions /\ phase[s] = "off"
    BY DEF Unused
  <2>3. \A d \in Scopes : subs[s][d].stage = "none"
    BY <2>2 DEF Served
  <2>4. \A r \in Sessions : r # s => phase'[r] = phase[r] /\ owner'[r] = owner[r]
    BY <2>1, <2>2 DEF HelloFails, ReplayBegins, ServingBegins, TypeOK, SessionsTyped
  <2>5. UNCHANGED subs
    BY <1>2 DEF Connect
  <2>6. QED
    BY <2>1, <2>2, <2>3, <2>4, <2>5 DEF Served
<1>3. ASSUME NEW s \in Sessions, Serve(s)
      PROVE  Served'
  <2>1. CASE Replay(s)
    BY <2>1 DEF Replay, Served, TypeOK, SessionsTyped, wireVars
  <2>2. CASE Disconnected(s)
    BY <2>2, EndServed DEF Disconnected
  <2>3. CASE Broadcast(s)
    BY <2>3 DEF Broadcast, Served, wireVars
  <2>4. CASE Answered(s)
    <3>1. CASE phase' = [phase EXCEPT ![s] = "serving"] /\ UNCHANGED <<owner, registered, subs>>
      BY <2>4, <3>1 DEF Answered, Served, TypeOK, SessionsTyped
    <3>2. QED
      BY <2>4, <3>1, EndServed DEF Answered
  <2>5. QED
    BY <1>3, <2>1, <2>2, <2>3, <2>4 DEF Serve
<1>4. ASSUME NEW s \in Sessions, CustomerMessage(s)
      PROVE  Served'
  <2>1. /\ phase[s] = "serving" /\ phase' = [phase EXCEPT ![s] = "handling"]
        /\ UNCHANGED <<owner, registered>>
        /\ \E k \in Nat : Publish(k)
    BY <1>4 DEF CustomerMessage, Receives, wireVars
  <2>2. \A r \in Sessions, c \in Scopes : subs'[r][c].stage = subs[r][c].stage
    BY <2>1, PublishTyped DEF TypeOK, ConversationTyped, SessionsTyped
  <2>3. QED
    BY <2>1, <2>2 DEF Served, TypeOK, SessionsTyped
<1>5. ASSUME NEW s \in Sessions, NEW c \in Scopes, NEW since \in Int, Subscribe(s, c, since)
      PROVE  Served'
  <2>1. /\ phase[s] = "serving" /\ owner[s] \in Operators
        /\ UNCHANGED <<owner, phase, registered>>
    BY <1>5 DEF Subscribe, Receives, wireVars
  <2>2. \A r \in Sessions : r # s => subs'[r] = subs[r]
    BY <1>5 DEF Subscribe, TypeOK, SessionsTyped
  <2>3. QED
    BY <2>1, <2>2 DEF Served
<1>6. QED
  BY <1>1, <1>2, <1>3, <1>4, <1>5, Steps

(* evict_by_session leaves no subscription, and no session subscribes that *)
(* is no longer served.                                                    *)
THEOREM SubscriptionsEndWithSessions == Spec => []SubscriptionsOfLiveSessions
<1>1. Init => Served
  BY NothingTyped DEF Init, Served
<1>2. TypeOK /\ Served /\ [Next]_vars => Served'
  BY ServedNext
<1>3. Served => SubscriptionsOfLiveSessions
  BY DEF Served, SubscriptionsOfLiveSessions
<1>4. QED
  BY <1>1, <1>2, <1>3, TypeCorrect, PTL DEF Spec

-----------------------------------------------------------------------------
(* An open conversation belongs to the squad of its channel: get_squad     *)
(* finds an assignment there, and creating or looking up assigns it anew.  *)
LEMMA AssignedNext == ASSUME TypeOK, AssignedWhileOpen, [Next]_vars PROVE AssignedWhileOpen'
<1>1. CASE UNCHANGED <<convState, squad>>
  BY <1>1 DEF AssignedWhileOpen
<1>2. CASE convState' # "active"
  BY <1>2 DEF AssignedWhileOpen
<1>3. CASE squad' = SquadNow(FALSE) /\ UNCHANGED convState
  BY <1>3 DEF AssignedWhileOpen, SquadNow, Nobody
<1>4. ASSUME NEW s \in Sessions, CustomerMessage(s)
      PROVE  AssignedWhileOpen'
  BY <1>4 DEF CustomerMessage, AssignedWhileOpen, SquadNow, Nobody
<1>5. ASSUME NEW s \in Sessions, Frame(s)
      PROVE  \/ UNCHANGED <<convState, squad>>
             \/ convState' # "active"
             \/ CustomerMessage(s)
  BY <1>5 DEF Frame, OperatorJoin, OperatorLeave, OperatorMessage, EditMessage, DeleteMessage,
     OperatorCommand, Resolve, Subscribe, Unsubscribe, engineVars
<1>6. ASSUME NEW n \in 1..MaxMessages, ReplyStored(n) \/ ReplyGoes(n)
      PROVE  \/ UNCHANGED <<convState, squad>>
             \/ squad' = SquadNow(FALSE) /\ UNCHANGED convState
  BY <1>6 DEF ReplyStored, ReplyGoes, ReplyPushed, ReplyTold, engineVars
<1>7. CASE Csat
  BY <1>7, <1>1, <1>3 DEF Csat, CsatStarts, CsatTold, engineVars
<1>8. ASSUME NEW s \in Sessions, Drop(s) \/ Serve(s) \/ Fanout(s)
      PROVE  UNCHANGED <<convState, squad>>
  BY <1>8 DEF Drop, Serve, Replay, Disconnected, Broadcast, Answered, Fanout, FanoutStarts,
     FanoutBacklog, FanoutLive, Sent, FanoutStep, engineVars
<1>9. CASE Reload \/ (\E c \in Clients : Connect(c)) \/ UNCHANGED vars
  BY <1>9, <1>1 DEF Reload, Connect, vars, engineVars
<1>10. QED
  BY <1>1, <1>2, <1>3, <1>4, <1>5, <1>6, <1>7, <1>8, <1>9 DEF Next

(* An open conversation is in its channel's squad, whatever get_squad      *)
(* assigned while it was closed.                                           *)
THEOREM OpenIsAssigned == Spec => []AssignedWhileOpen
<1>1. Init => AssignedWhileOpen
  BY DEF Init, AssignedWhileOpen
<1>2. TypeOK /\ AssignedWhileOpen /\ [Next]_vars => AssignedWhileOpen'
  BY AssignedNext
<1>3. QED
  BY <1>1, <1>2, TypeCorrect, PTL DEF Spec

-----------------------------------------------------------------------------
(* Every subscribed session hears each message.  The inductive form says   *)
(* what is still to come: a session that has not heard the message is in   *)
(* the rest of the audience of the handler that tells it.                  *)
Due(m, s) == \E r \in Sessions : /\ phase[r] = "handling" /\ busy[r].n = m.n
                                /\ s \in busy[r].to
HearsOrWill ==
  "web-support" \in Squads =>
    \A m \in msgs, s \in Sessions :
      /\ m.src = Customer /\ m.open /\ wire[s]
      /\ subs[s]["web-support"].stage # "none" /\ subs[s]["web-support"].at < m.n
      => m.n \in heard[s] \/ Due(m, s)

(* Numbers are given in order, so that what is stored was sent before now. *)
LEMMA HearsNext ==
  ASSUME TypeOK, Served, AssignedWhileOpen, HearsOrWill, [Next]_vars
  PROVE  HearsOrWill'
<1> SUFFICES ASSUME "web-support" \in Squads
             PROVE  HearsOrWill'
  BY DEF HearsOrWill
<1> DEFINE sub(s) == subs[s]["web-support"]
           Owed(m, s) == /\ m.src = Customer /\ m.open /\ wire[s]
                         /\ sub(s).stage # "none" /\ sub(s).at < m.n
<1>1. /\ "web-support" \in Scopes /\ "web-support" # "conv"
      /\ \A m \in msgs, s \in Sessions : Owed(m, s) => m.n \in heard[s] \/ Due(m, s)
  BY GatewayAssumption, ScopesTyped DEF HearsOrWill
<1>2. SUFFICES ASSUME NEW m \in msgs', NEW t \in Sessions, Owed(m, t)'
               PROVE  m.n \in heard'[t] \/ Due(m, t)'
  BY DEF HearsOrWill
<1>3. CASE Quiet
  <2>1. m \in msgs /\ Owed(m, t)
    BY <1>1, <1>2, <1>3 DEF Quiet
  <2>2. heard[t] \subseteq heard'[t] /\ (Due(m, t) => Due(m, t)')
    BY <1>3 DEF Quiet, Due
  <2>3. QED
    BY <1>1, <2>1, <2>2
<1>4. ASSUME NEW c \in Clients, Connect(c)
      PROVE  m.n \in heard'[t] \/ Due(m, t)'
  <2>1. PICK s \in Unused : HelloFails(s) \/ ReplayBegins(s, c) \/ ServingBegins(s, c)
    BY <1>4 DEF Connect
  <2>2. /\ s \in Sessions /\ phase[s] = "off"
        /\ \A d \in Scopes : subs[s][d].stage = "none"
    BY DEF Unused, Served
  <2>3. UNCHANGED <<msgs, subs, heard>>
    BY <1>4 DEF Connect, engineVars
  <2>4. t # s
    BY <1>1, <1>2, <2>2, <2>3
  <2>5. \A r \in Sessions \ {s} : /\ phase'[r] = phase[r] /\ busy'[r] = busy[r]
                                /\ wire'[r] = wire[r]
    BY <2>1, <2>2 DEF HelloFails, ReplayBegins, ServingBegins, TypeOK, SessionsTyped
  <2>6. m.n \in heard[t] \/ Due(m, t)
    BY <1>1, <1>2, <2>3, <2>4, <2>5
  <2>7. Due(m, t) => Due(m, t)'
    BY <2>2, <2>5 DEF Due
  <2>8. QED
    BY <2>3, <2>6, <2>7
<1>5. ASSUME NEW s \in Sessions, Serve(s)
      PROVE  m.n \in heard'[t] \/ Due(m, t)'
  <2>1. CASE Broadcast(s)
    <3>1. PICK u \in busy[s].to : Hear(u, busy[s].n) /\ busy' = [busy EXCEPT ![s].to = @ \ {u}]
      BY <2>1 DEF Broadcast
    <3>2. /\ UNCHANGED <<msgs, wire, subs, phase, registered>>
          /\ u \in Sessions
      BY <2>1 DEF Broadcast, engineVars, wireVars, TypeOK, SessionsTyped, Work
    <3>3. m.n \in heard[t] \/ Due(m, t)
      BY <1>1, <1>2, <3>2
    <3>4. heard[t] \subseteq heard'[t]
      BY <3>1, <3>2 DEF Hear, TypeOK, SessionsTyped
    <3>5. ASSUME NEW r \in Sessions, phase[r] = "handling", busy[r].n = m.n, t \in busy[r].to
          PROVE  m.n \in heard'[t] \/ Due(m, t)'
      <4>1. CASE r = s /\ t = u
        <5>1. t \in registered /\ wire[t]
          BY <1>1, <1>2, <3>2 DEF Served
        <5>2. QED
          BY <3>1, <3>2, <3>5, <4>1, <5>1 DEF Hear, TypeOK, SessionsTyped
      <4>2. CASE r # s \/ t # u
        <5>1. phase'[r] = "handling" /\ busy'[r].n = m.n /\ t \in busy'[r].to
          BY <3>1, <3>2, <3>5, <4>2 DEF TypeOK, SessionsTyped, Work
        <5>2. QED
          BY <5>1 DEF Due
      <4>3. QED
        BY <4>1, <4>2
    <3>6. QED
      BY <3>3, <3>4, <3>5 DEF Due
  <2>2. CASE Replay(s)
    <3>1. UNCHANGED <<msgs, wire, subs, heard>> /\ phase[s] = "replaying"
      BY <2>2 DEF Replay, engineVars, wireVars
    <3>2. \A r \in Sessions \ {s} : phase'[r] = phase[r] /\ busy'[r] = busy[r]
      BY <2>2 DEF Replay, TypeOK, SessionsTyped
    <3>3. QED
      BY <1>1, <1>2, <3>1, <3>2 DEF Due
  <2>3. CASE Disconnected(s) \/ Answered(s)
    <3>1. /\ UNCHANGED <<msgs, wire>>
          /\ phase[s] = "handling" => busy[s].to = {}
      BY <2>3 DEF Disconnected, Answered, engineVars
    <3>2. /\ \A r \in Sessions \ {s} : phase'[r] = phase[r] /\ busy'[r] = busy[r]
          /\ sub(t)'.stage # "none" => sub(t)' = sub(t) /\ heard'[t] = heard[t]
      <4>1. CASE End(s)
        <5>1. \A r \in Sessions, c \in Scopes :
                 subs'[r][c] = IF r = s THEN NoSub ELSE subs[r][c]
          BY <4>1 DEF End, TypeOK, SessionsTyped
        <5>2. QED
          BY <1>1, <4>1, <5>1, NothingTyped DEF End, TypeOK, SessionsTyped
      <4>2. CASE /\ phase' = [phase EXCEPT ![s] = "serving"]
                 /\ busy' = [busy EXCEPT ![s] = NoWork]
                 /\ UNCHANGED <<subs, heard>>
        BY <4>2 DEF TypeOK, SessionsTyped
      <4>3. QED
        BY <2>3, <4>1, <4>2 DEF Disconnected, Answered
    <3>3. QED
      BY <1>1, <1>2, <3>1, <3>2 DEF Due
  <2>4. QED
    BY <1>5, <2>1, <2>2, <2>3 DEF Serve
<1>6. ASSUME NEW s \in Sessions, CustomerMessage(s)
      PROVE  m.n \in heard'[t] \/ Due(m, t)'
  <2> DEFINE found == knows /\ convState # "none"
             fresh == ~ found /\ convState # "active"
             new == Message(Customer, "public", fresh \/ convState = "active")
  <2>1. /\ phase[s] = "serving" /\ phase' = [phase EXCEPT ![s] = "handling"]
        /\ owner[s] = Customer
        /\ busy' = [busy EXCEPT ![s].n = seq + 1, ![s].to = Audience(squad', s)]
        /\ UNCHANGED <<wire, heard>>
        /\ \E k \in Nat : Publish(k)
        /\ msgs' \subseteq msgs \union {new}
        /\ squad' = SquadNow(~ found)
    BY <1>6 DEF CustomerMessage, Receives, wireVars
  <2>2. sub(t)'.stage = sub(t).stage /\ sub(t)'.at = sub(t).at
    BY <1>1, <2>1, PublishTyped DEF TypeOK, ConversationTyped, SessionsTyped
  <2>3. CASE m \in msgs
    <3>1. m.n \in heard[t] \/ Due(m, t)
      BY <1>1, <1>2, <2>1, <2>2, <2>3
    <3>2. Due(m, t) => Due(m, t)'
      BY <2>1 DEF Due, TypeOK, SessionsTyped
    <3>3. QED
      BY <2>1, <3>1, <3>2
  <2>4. CASE m = new
    <3>1. m.n = seq + 1 /\ (m.open => fresh \/ convState = "active")
      BY <2>4 DEF Message
    <3>2. squad' = "web-support"
      BY <1>2, <2>1, <3>1 DEF SquadNow, AssignedWhileOpen, Nobody
    <3>3. t # s
      BY <1>1, <1>2, <2>1, <2>2, GatewayAssumption DEF Served
    <3>4. t \in Audience(squad', s)
      BY <1>2, <2>2, <3>2, <3>3 DEF Audience
    <3>5. phase'[s] = "handling" /\ busy'[s].n = m.n /\ t \in busy'[s].to
      BY <2>1, <3>1, <3>4 DEF TypeOK, SessionsTyped, Work
    <3>6. QED
      BY <3>5 DEF Due
  <2>5. QED
    BY <2>1, <2>3, <2>4
<1>7. ASSUME NEW s \in Sessions, NEW c \in Scopes, NEW since \in Int, Subscribe(s, c, since)
      PROVE  m.n \in heard'[t] \/ Due(m, t)'
  <2>1. UNCHANGED <<msgs, seq, wire, heard, phase, busy>>
    BY <1>7 DEF Subscribe, engineVars, wireVars
  <2>2. CASE s = t /\ c = "web-support"
    <3>1. sub(t)'.at = seq
      BY <1>7, <2>2 DEF Subscribe, NoSub, TypeOK, SessionsTyped
    <3>2. m.n \in 1..seq /\ seq \in Nat
      BY <2>1 DEF TypeOK, ConversationTyped
    <3>3. QED
      BY <1>2, <3>1, <3>2
  <2>3. CASE s # t \/ c # "web-support"
    <3>1. sub(t)' = sub(t)
      BY <1>7, <1>1, <2>3 DEF Subscribe, TypeOK, SessionsTyped
    <3>2. QED
      BY <1>1, <1>2, <2>1, <3>1 DEF Due
  <2>4. QED
    BY <2>2, <2>3
<1>8. QED
  BY <1>3, <1>4, <1>5, <1>6, <1>7, Steps

(* When the broadcast of a customer's message is over, each session still  *)
(* up that was subscribed before the message has it, whatever sockets die  *)
(* in between.                                                             *)
THEOREM SubscribersHearAll == Spec => []SubscribersHear
<1>1. Init => HearsOrWill
  BY DEF Init, HearsOrWill
<1>2. TypeOK /\ Served /\ AssignedWhileOpen /\ HearsOrWill /\ [Next]_vars => HearsOrWill'
  BY HearsNext
<1>3. TypeOK /\ HearsOrWill => SubscribersHear
  BY DEF HearsOrWill, SubscribersHear, Due, Telling
<1>4. Init => Served
  BY NothingTyped DEF Init, Served
<1>5. TypeOK /\ Served /\ [Next]_vars => Served'
  BY ServedNext
<1>6. QED
  BY <1>1, <1>2, <1>3, <1>4, <1>5, TypeCorrect, OpenIsAssigned, PTL DEF Spec

-----------------------------------------------------------------------------
(* Event streams.  The conversation's event lists hold consecutive runs of *)
(* numbers, one list per creation; count is the last number given out.     *)
ListEnd(lists, count, i) == IF i < Len(lists) THEN lists[i + 1] ELSE count
ListsAscend == \A i \in 1..Len(starts) : /\ starts[i] < ListEnd(starts, eseq, i)
                                         /\ ListEnd(starts, eseq, i) <= eseq

(* Nothing happens before the conversation is first created.               *)
Begun == starts = <<>> => /\ convState = "none" /\ eseq = 0 /\ seq = 0
                          /\ \A n \in 1..MaxMessages : reply[n].stage = "none"

(* Where a subscription to the conversation stands.  The queue of a live   *)
(* one is the run of numbers up to the count.  What it has sent last ends  *)
(* where the queue begins, unless the conversation was created again       *)
(* before the backlog was through: then there is a gap up to the number at *)
(* which the subscriber joined, until the first live event is sent.        *)
RunsOn(sub, lists, count) ==
  /\ sub.stage \in {"starting", "backlog"} => sub.queue = <<>>
  /\ sub.stage = "starting" => sub.since \in Nat \union {NoSince}
  /\ sub.stage = "backlog" => sub.inc # 0 /\ sub.last <= ListEnd(lists, count, sub.inc)
  /\ sub.stage = "live" =>
       /\ \A i \in 1..Len(sub.queue) : sub.queue[i] = count - Len(sub.queue) + i
       /\ \/ sub.last = count - Len(sub.queue)
          \/ /\ sub.last < sub.at
             /\ sub.at = count - Len(sub.queue)
             /\ sub.inc < Len(lists)

StreamsRunOn ==
  /\ Begun
  /\ ListsAscend
  /\ \A s \in Sessions : RunsOn(subs[s]["conv"], starts, eseq)

(* What a step may do to the events and to the subscriptions.              *)
Asks(s) == /\ subs[s]["conv"].stage = "none"
           /\ subs'[s]["conv"].stage = "starting"
           /\ subs'[s]["conv"].queue = <<>>
           /\ subs'[s]["conv"].since \in Nat \union {NoSince}

Keeps(s) == \/ subs'[s]["conv"] = subs[s]["conv"]
            \/ subs'[s]["conv"].stage \in {"none", "ended"}
            \/ Asks(s)
            \/ Fanout(s)

Reports(k) == /\ Publish(k)
              /\ \/ starts' = starts /\ starts # <<>>
                 \/ starts' = Append(starts, eseq)

LEMMA OneSubscriptionKept ==
  ASSUME TypeOK, NEW s \in Sessions, NEW c \in Scopes, NEW new,
         subs' = [subs EXCEPT ![s][c] = new],
         c = "conv" => \/ new.stage \in {"none", "ended"}
                       \/ Asks(s)
                       \/ Fanout(s)
  PROVE  \A r \in Sessions : Keeps(r)
<1>1. \A r \in Sessions : subs'[r]["conv"] = IF r = s /\ c = "conv" THEN new ELSE subs[r]["conv"]
  BY ScopesTyped DEF TypeOK, SessionsTyped
<1>2. QED
  BY <1>1 DEF Keeps

LEMMA EndKeeps ==
  ASSUME TypeOK, NEW s \in Sessions, End(s)
  PROVE  \A r \in Sessions : Keeps(r)
<1>1. \A r \in Sessions : subs'[r]["conv"] = IF r = s THEN NoSub ELSE subs[r]["conv"]
  BY ScopesTyped DEF End, TypeOK, SessionsTyped
<1>2. QED
  BY <1>1, NothingTyped DEF Keeps

(* The frames of a browser.                                                *)
LEMMA FrameEvents ==
  ASSUME TypeOK, Begun, NEW s \in Sessions, Frame(s)
  PROVE  \/ \E k \in Nat \ {0} : Reports(k)
         \/ UNCHANGED <<eseq, starts>> /\ \A r \in Sessions : Keeps(r)
<1>1. ASSUME NEW frame, OperatorFrame(s, frame)
      PROVE  starts # <<>> /\ starts' = starts
  BY <1>1 DEF OperatorFrame, Begun
<1>2. CASE CustomerMessage(s)
  <2> DEFINE fresh == ~ (knows /\ convState # "none") /\ convState # "active"
  <2>1. /\ Publish(IF fresh THEN 5 ELSE 1)
        /\ starts' = IF fresh THEN Append(starts, eseq) ELSE starts
    BY <1>2 DEF CustomerMessage
  <2>2. ~ fresh => starts # <<>>
    BY DEF Begun
  <2> HIDE DEF fresh
  <2>3. QED
    BY <2>1, <2>2 DEF Reports
<1>3. CASE OperatorJoin(s) \/ OperatorLeave(s)
  BY <1>1, <1>3 DEF OperatorJoin, OperatorLeave, Reports
<1>4. CASE OperatorMessage(s) \/ EditMessage(s) \/ DeleteMessage(s)
  BY <1>1, <1>4 DEF OperatorMessage, EditMessage, DeleteMessage, Reports
<1>5. CASE \E c \in Commands : OperatorCommand(s, c)
  BY <1>1, <1>5 DEF OperatorCommand, Reports
<1>6. CASE Resolve(s)
  <2>1. CASE Publish(2)
    BY <1>1, <1>6, <2>1 DEF Resolve, Reports
  <2>2. CASE UNCHANGED <<eseq, subs>>
    BY <1>1, <1>6, <2>2 DEF Resolve, Keeps
  <2>3. QED
    BY <1>6, <2>1, <2>2 DEF Resolve
<1>7. ASSUME NEW c \in Scopes, NEW since \in Nat \union {NoSince}, Subscribe(s, c, since)
      PROVE  UNCHANGED <<eseq, starts>> /\ \A r \in Sessions : Keeps(r)
  <2> DEFINE new == [NoSub EXCEPT !.stage = IF c = "conv" THEN "starting" ELSE "live",
                                  !.since = since, !.at = IF c = "conv" THEN 0 ELSE seq]
  <2>1. /\ subs' = [subs EXCEPT ![s][c] = new]
        /\ subs[s][c].stage = "none"
        /\ UNCHANGED <<eseq, starts>>
    BY <1>7 DEF Subscribe, engineVars
  <2>2. /\ c = "conv" => new.stage = "starting"
        /\ new.queue = <<>> /\ new.since = since
    BY DEF NoSub
  <2> HIDE DEF new
  <2>3. c = "conv" => subs'[s]["conv"] = new
    BY <2>1, ScopesTyped DEF TypeOK, SessionsTyped
  <2>4. c = "conv" => Asks(s)
    BY <2>1, <2>2, <2>3, <1>7 DEF Asks
  <2>5. QED
    BY <2>1, <2>4, OneSubscriptionKept
<1>8. ASSUME NEW c \in Scopes, Unsubscribe(s, c)
      PROVE  UNCHANGED <<eseq, starts>> /\ \A r \in Sessions : Keeps(r)
  BY <1>8, NothingTyped, OneSubscriptionKept DEF Unsubscribe, engineVars
<1>9. Sinces \subseteq Nat \union {NoSince} /\ NoSince \in Nat \union {NoSince}
  BY GatewayAssumption
<1>10. QED
  BY <1>2, <1>3, <1>4, <1>5, <1>6, <1>7, <1>8, <1>9, ScopesTyped DEF Frame

(* Every step.                                                             *)
LEMMA EventSteps ==
  ASSUME TypeOK, Begun, [Next]_vars
  PROVE  \/ \E k \in Nat \ {0} : Reports(k)
         \/ UNCHANGED <<eseq, starts>> /\ \A r \in Sessions : Keeps(r)
<1>1. ASSUME UNCHANGED <<eseq, starts, subs>>
      PROVE  UNCHANGED <<eseq, starts>> /\ \A r \in Sessions : Keeps(r)
  BY <1>1 DEF Keeps
<1>2. ASSUME Reload \/ Csat \/ UNCHANGED vars \/ (\E c \in Clients : Connect(c))
      PROVE  UNCHANGED <<eseq, starts, subs>>
  <2>1. CASE Reload
    BY <2>1 DEF Reload, engineVars
  <2>2. CASE Csat
    <3>1. CASE CsatStarts
      BY <3>1 DEF CsatStarts
    <3>2. CASE CsatTold
      BY <3>2, Zenon DEF CsatTold, engineVars
    <3>3. QED
      BY <2>2, <3>1, <3>2 DEF Csat
  <2>3. CASE UNCHANGED vars
    BY <2>3 DEF vars, engineVars
  <2>4. CASE \E c \in Clients : Connect(c)
    BY <2>4 DEF Connect, engineVars
  <2>5. QED
    BY <1>2, <2>1, <2>2, <2>3, <2>4
<1>3. ASSUME NEW s \in Sessions, Drop(s) \/ Replay(s) \/ Broadcast(s)
      PROVE  UNCHANGED <<eseq, starts, subs>>
  BY <1>3 DEF Drop, Replay, Broadcast, engineVars
<1>4. ASSUME NEW s \in Sessions, Disconnected(s) \/ Answered(s)
      PROVE  UNCHANGED <<eseq, starts>> /\ (End(s) \/ UNCHANGED subs)
  BY <1>4 DEF Disconnected, Answered, engineVars
<1>5. ASSUME NEW s \in Sessions, Fanout(s)
      PROVE  UNCHANGED <<eseq, starts>> /\ \A r \in Sessions : Keeps(r)
  <2>1. PICK new : FansOut(s, new)
    BY <1>5, FanoutSteps
  <2>2. subs' = [subs EXCEPT ![s]["conv"] = new] /\ UNCHANGED <<eseq, starts>>
    BY <2>1 DEF FansOut, FanoutStep, engineVars
  <2>3. QED
    BY <1>5, <2>2, ScopesTyped, OneSubscriptionKept
<1>6. ASSUME NEW n \in 1..MaxMessages, ReplyStored(n)
      PROVE  \E k \in Nat \ {0} : Reports(k)
  <2>1. starts # <<>> /\ starts' = starts
    BY <1>6 DEF ReplyStored, Begun
  <2>2. QED
    BY <1>6, <2>1 DEF ReplyStored, Reports
<1>7. ASSUME NEW n \in 1..MaxMessages, ReplyGoes(n)
      PROVE  UNCHANGED <<eseq, starts, subs>>
  BY <1>7 DEF ReplyGoes, ReplyPushed, ReplyTold, engineVars
<1>8. ASSUME NEW s \in Sessions, Serve(s)
      PROVE  UNCHANGED <<eseq, starts>> /\ \A r \in Sessions : Keeps(r)
  BY <1>1, <1>3, <1>4, <1>8, EndKeeps DEF Serve
<1>9. QED
  BY <1>1, <1>2, <1>3, <1>5, <1>6, <1>7, <1>8, FrameEvents DEF Next

LEMMA BegunNext == ASSUME TypeOK, Begun, [Next]_vars PROVE Begun'
<1>1. SUFFICES ASSUME starts = <<>>, starts' = <<>>
               PROVE  /\ convState' = "none" /\ eseq' = 0 /\ seq' = 0
                      /\ \A n \in 1..MaxMessages : reply'[n].stage = "none"
  <2>1. ASSUME starts' = <<>> PROVE starts = <<>>
    <3>1. \A e \in Nat : Append(starts, e) # <<>>
      BY DEF TypeOK, ConversationTyped
    <3>2. eseq \in Nat
      BY DEF TypeOK, ConversationTyped
    <3>3. QED
      BY <2>1, <3>1, <3>2, EventSteps DEF Reports
  <2>2. QED
    BY <2>1 DEF Begun
<1>2. /\ convState = "none" /\ eseq = 0 /\ seq = 0
      /\ \A n \in 1..MaxMessages : reply[n].stage = "none"
  BY <1>1 DEF Begun
<1>3. ASSUME UNCHANGED <<convState, eseq, seq, reply>>
      PROVE  /\ convState' = "none" /\ eseq' = 0 /\ seq' = 0
             /\ \A n \in 1..MaxMessages : reply'[n].stage = "none"
  BY <1>2, <1>3
<1>4. ASSUME NEW s \in Sessions, phase[s] = "handling" PROVE FALSE
  BY <1>2, <1>4 DEF TypeOK, SessionsTyped
<1>5. ASSUME NEW s \in Sessions, Frame(s)
      PROVE  UNCHANGED <<convState, eseq, seq, reply>>
  <2>1. ASSUME CustomerMessage(s) PROVE FALSE
    <3>1. starts' = Append(<<>>, eseq) /\ eseq \in Nat
      BY <2>1, <1>1, <1>2 DEF CustomerMessage, TypeOK, ConversationTyped
    <3>2. \A e \in Nat : Append(<<>>, e) # <<>>
      OBVIOUS
    <3>3. QED
      BY <1>1, <3>1, <3>2
  <2>2. ASSUME NEW frame, OperatorFrame(s, frame) PROVE FALSE
    BY <1>2, <2>2 DEF OperatorFrame
  <2>3. ASSUME NEW c, NEW since, Subscribe(s, c, since) \/ Unsubscribe(s, c)
        PROVE  UNCHANGED <<convState, eseq, seq, reply>>
    BY <2>3 DEF Subscribe, Unsubscribe, engineVars
  <2>4. QED
    BY <1>5, <2>1, <2>2, <2>3 DEF Frame, OperatorJoin, OperatorLeave, OperatorMessage,
       EditMessage, DeleteMessage, OperatorCommand, Resolve
<1>6. ASSUME NEW s \in Sessions, Drop(s) \/ Serve(s) \/ Fanout(s)
      PROVE  UNCHANGED <<convState, eseq, seq, reply>>
  <2>1. CASE Drop(s) \/ Replay(s) \/ Disconnected(s)
    BY <2>1 DEF Drop, Replay, Disconnected, engineVars
  <2>2. CASE Broadcast(s) \/ Answered(s)
    BY <2>2, <1>4 DEF Broadcast, Answered
  <2>3. CASE Fanout(s)
    BY <2>3, FanoutSteps DEF FansOut, FanoutStep, engineVars
  <2>4. QED
    BY <1>6, <2>1, <2>2, <2>3 DEF Serve
<1>7. ASSUME NEW n \in 1..MaxMessages, ReplyStored(n) \/ ReplyGoes(n)
      PROVE  FALSE
  BY <1>2, <1>7 DEF ReplyStored, ReplyGoes, ReplyPushed, ReplyTold
<1>8. ASSUME Reload \/ Csat \/ UNCHANGED vars \/ (\E c \in Clients : Connect(c))
      PROVE  UNCHANGED <<convState, eseq, seq, reply>>
  <2>1. CASE Reload
    BY <2>1 DEF Reload, engineVars
  <2>2. CASE Csat
    <3>1. CASE CsatStarts
      BY <3>1 DEF CsatStarts
    <3>2. CASE CsatTold
      BY <3>2, Zenon DEF CsatTold, engineVars
    <3>3. QED
      BY <2>2, <3>1, <3>2 DEF Csat
  <2>3. CASE UNCHANGED vars
    BY <2>3 DEF vars, engineVars
  <2>4. CASE \E c \in Clients : Connect(c)
    BY <2>4 DEF Connect, engineVars
  <2>5. QED
    BY <1>8, <2>1, <2>2, <2>3, <2>4
<1>9. QED
  BY <1>3, <1>5, <1>6, <1>7, <1>8 DEF Next

(* Events lengthen the last list, a creation ends it and begins another.   *)
LEMMA ListsGrow ==
  ASSUME NEW lists \in Seq(Nat), NEW count \in Nat, NEW k \in Nat \ {0},
         NEW new \in {lists, Append(lists, count)}, NEW i \in 1..Len(lists),
         ListEnd(lists, count, i) <= count
  PROVE  /\ Len(lists) <= Len(new) /\ new[i] = lists[i]
         /\ ListEnd(lists, count, i) \in Nat /\ ListEnd(new, count + k, i) \in Nat
         /\ ListEnd(lists, count, i) <= ListEnd(new, count + k, i)
         /\ ListEnd(new, count + k, i) <= count + k
<1> DEFINE n == Len(lists)
           end == ListEnd(lists, count, i)
<1>1. n \in Nat /\ i \in Nat /\ i <= n
  OBVIOUS
<1>2. i < n => lists[i + 1] \in Nat
  BY <1>1
<1>3. CASE new = lists
  <2>1. end \in Nat /\ (i < n => ListEnd(new, count + k, i) = end)
    BY <1>2, <1>3 DEF ListEnd
  <2>2. i = n => ListEnd(new, count + k, i) = count + k
    BY <1>1, <1>3 DEF ListEnd
  <2>3. count <= count + k /\ count + k \in Nat
    OBVIOUS
  <2> HIDE DEF n, end
  <2>4. CASE i < n
    <3>1. ListEnd(new, count + k, i) = end /\ end <= count
      BY <2>1, <2>4 DEF end
    <3>2. end <= count + k
      BY <2>1, <2>3, <3>1
    <3>3. QED
      BY <1>1, <1>3, <2>1, <3>1, <3>2 DEF n, end
  <2>5. CASE i = n
    <3>1. end <= count
      BY DEF end
    <3>2. end <= count + k
      BY <2>1, <2>3, <3>1
    <3>3. QED
      BY <1>1, <1>3, <2>1, <2>2, <2>3, <2>5, <3>2 DEF n, end
  <2>6. QED
    BY <1>1, <2>4, <2>5
<1>4. CASE new = Append(lists, count)
  <2>1. /\ Len(new) = Len(lists) + 1
        /\ new[i] = lists[i]
        /\ new[i + 1] = IF i < Len(lists) THEN lists[i + 1] ELSE count
    BY <1>1, <1>4
  <2>2. ListEnd(new, count + k, i) = ListEnd(lists, count, i)
    BY <1>1, <2>1 DEF ListEnd
  <2>3. ListEnd(lists, count, i) \in Nat
    BY <1>2 DEF ListEnd
  <2>4. end \in Nat /\ end <= count /\ n <= n + 1
    BY <1>1, <2>3
  <2>5. Len(new) = n + 1 /\ ListEnd(new, count + k, i) = end
    BY <2>1, <2>2
  <2> HIDE DEF n, end
  <2>6. end <= count + k /\ end <= end
    BY <2>4
  <2>7. QED
    BY <2>1, <2>4, <2>5, <2>6 DEF n, end
<1>5. QED
  BY <1>3, <1>4

LEMMA ListsNext == ASSUME TypeOK, Begun, ListsAscend, [Next]_vars PROVE ListsAscend'
<1>1. starts \in Seq(Nat) /\ eseq \in Nat
  BY DEF TypeOK, ConversationTyped
<1>2. CASE UNCHANGED <<eseq, starts>>
  BY <1>2 DEF ListsAscend, ListEnd
<1>3. ASSUME NEW k \in Nat \ {0}, Reports(k)
      PROVE  ListsAscend'
  <2>1. eseq' = eseq + k /\ starts' \in {starts, Append(starts, eseq)}
    BY <1>3 DEF Reports, Publish
  <2>2. ASSUME NEW i \in 1..Len(starts)
        PROVE  starts'[i] < ListEnd(starts', eseq', i) /\ ListEnd(starts', eseq', i) <= eseq'
    <3>1. starts[i] < ListEnd(starts, eseq, i) /\ ListEnd(starts, eseq, i) <= eseq
      BY DEF ListsAscend
    <3>2. starts[i] \in Nat
      BY <1>1
    <3>3. /\ starts'[i] = starts[i]
          /\ ListEnd(starts, eseq, i) \in Nat /\ ListEnd(starts', eseq', i) \in Nat
          /\ ListEnd(starts, eseq, i) <= ListEnd(starts', eseq', i)
          /\ ListEnd(starts', eseq', i) <= eseq'
      BY <1>1, <2>1, <3>1, ListsGrow
    <3>4. QED
      BY <3>1, <3>2, <3>3
  <2>3. CASE starts' = starts
    BY <2>2, <2>3 DEF ListsAscend
  <2>4. CASE starts' = Append(starts, eseq)
    <3>1. /\ Len(starts') = Len(starts) + 1 /\ Len(starts) \in Nat
          /\ starts'[Len(starts) + 1] = eseq
      BY <1>1, <2>4
    <3>2. ListEnd(starts', eseq', Len(starts) + 1) = eseq'
      BY <3>1 DEF ListEnd
    <3>3. \A i \in 1..Len(starts') : i \in 1..Len(starts) \/ i = Len(starts) + 1
      BY <3>1
    <3>4. eseq < eseq' /\ eseq' \in Nat /\ eseq' <= eseq'
      BY <1>1, <2>1
    <3>5. QED
      BY <2>2, <3>1, <3>2, <3>3, <3>4 DEF ListsAscend
  <2>5. QED
    BY <2>1, <2>3, <2>4
<1>4. QED
  BY <1>2, <1>3, EventSteps

(* The next number of a backlog follows the last one sent, or is the first *)
(* of the list; when none is left the list is through.                     *)
LEMMA BacklogRuns ==
  ASSUME TypeOK, ListsAscend, NEW sub \in Subscriptions, sub.inc \in 1..Len(starts),
         sub.last <= ListEnd(starts, eseq, sub.inc)
  PROVE  /\ ListEnd(starts, eseq, sub.inc) \in Nat
         /\ Backlog(sub) = {} => sub.last = ListEnd(starts, eseq, sub.inc)
         /\ \A n \in Backlog(sub) :
              /\ n \in Nat /\ n <= ListEnd(starts, eseq, sub.inc)
              /\ (\A k \in Backlog(sub) : n <= k)
                   => n = sub.last + 1 \/ (n = starts[sub.inc] + 1 /\ n > sub.last)
<1> DEFINE first == starts[sub.inc]
           end == ListEnd(starts, eseq, sub.inc)
           last == sub.last
<1>1. starts \in Seq(Nat) /\ eseq \in Nat /\ Len(starts) \in Nat
  BY DEF TypeOK, ConversationTyped
<1>2. first \in Nat /\ end \in Nat /\ last \in Int
  <2>1. sub.inc < Len(starts) => sub.inc + 1 \in 1..Len(starts)
    BY <1>1
  <2>2. QED
    BY <1>1, <2>1 DEF ListEnd, Subscriptions
<1>3. first < end /\ last <= end
  BY DEF ListsAscend
<1>4. Backlog(sub) = {n \in first+1..end : n > last}
  <2>1. sub.inc # 0
    BY <1>1
  <2>2. QED
    BY <2>1 DEF Backlog, ListEnd
<1> HIDE DEF first, end, last
<1>5. Backlog(sub) = {} => last = end
  <2>1. end \in first+1..end
    BY <1>2, <1>3
  <2>2. Backlog(sub) = {} => ~ (end > last)
    BY <1>4, <2>1
  <2>3. QED
    BY <1>2, <1>3, <2>2
<1>6. ASSUME NEW n \in Backlog(sub)
      PROVE  n \in Nat /\ n <= end
  BY <1>2, <1>4
<1>7. ASSUME NEW n \in Backlog(sub), \A k \in Backlog(sub) : n <= k
      PROVE  n = last + 1 \/ (n = first + 1 /\ n > last)
  <2>1. n \in first+1..end /\ n > last /\ n \in Int
    BY <1>2, <1>4
  <2>2. CASE n - 1 \in first+1..end /\ n - 1 > last
    <3>1. n - 1 \in Backlog(sub)
      BY <1>4, <2>2
    <3>2. QED
      BY <1>7, <2>1, <3>1
  <2>3. CASE ~ (n - 1 \in first+1..end /\ n - 1 > last)
    BY <1>2, <2>1, <2>3
  <2>4. QED
    BY <2>2, <2>3
<1>8. QED
  BY <1>2, <1>5, <1>6, <1>7 DEF first, end, last

(* Joining with the backlog through: the last number sent is the count, or *)
(* the conversation was created again.                                     *)
LEMMA LiveRuns ==
  ASSUME eseq \in Nat, NEW sub \in Subscriptions, sub.queue = <<>>,
         \/ sub.last = eseq
         \/ sub.last < eseq /\ sub.inc < Len(starts)
  PROVE  RunsOn(Live(sub), starts, eseq)
<1>1. /\ Live(sub).stage = "live" /\ Live(sub).queue = <<>>
      /\ Live(sub).last = sub.last /\ Live(sub).inc = sub.inc /\ Live(sub).at = eseq
  BY DEF Live, Subscriptions
<1>2. QED
  BY <1>1 DEF RunsOn

LEMMA Joined ==
  ASSUME NEW p \in Seq(Nat), NEW q \in Seq(Nat)
  PROVE  /\ Len(p) \in Nat /\ Len(p \o q) = Len(p) + Len(q)
         /\ \A i \in 1..Len(p) : (p \o q)[i] = p[i]
         /\ \A i \in Len(p)+1..Len(p)+Len(q) : (p \o q)[i] = q[i - Len(p)]
  OBVIOUS

(* Events go into the queues of live subscriptions.                        *)
LEMMA PublishRuns ==
  ASSUME TypeOK, ListsAscend, NEW k \in Nat \ {0}, Reports(k),
         NEW sub \in Subscriptions, sub.inc <= Len(starts), RunsOn(sub, starts, eseq)
  PROVE  RunsOn(Enqueued(sub, k), starts', eseq')
<1>1. /\ starts \in Seq(Nat) /\ eseq \in Nat /\ Len(starts) \in Nat
      /\ eseq' = eseq + k /\ starts' \in {starts, Append(starts, eseq)}
      /\ sub.inc \in Nat /\ sub.last \in Int /\ sub.since \in Int /\ sub.at \in Nat
      /\ sub.queue \in Seq(Nat)
  BY DEF TypeOK, ConversationTyped, Reports, Publish, Subscriptions
<1>2. CASE sub.stage # "live"
  <2>1. Enqueued(sub, k) = sub
    BY <1>2 DEF Enqueued
  <2>2. sub.stage = "backlog" => sub.last <= ListEnd(starts', eseq', sub.inc)
    <3>1. SUFFICES ASSUME sub.stage = "backlog" PROVE sub.last <= ListEnd(starts', eseq', sub.inc)
      OBVIOUS
    <3>2. PICK i \in 1..Len(starts) : i = sub.inc /\ sub.last <= ListEnd(starts, eseq, i)
      BY <1>1, <3>1 DEF RunsOn
    <3>3. ListEnd(starts, eseq, i) <= eseq
      BY <3>2 DEF ListsAscend
    <3>4. /\ ListEnd(starts, eseq, i) \in Nat /\ ListEnd(starts', eseq', i) \in Nat
          /\ ListEnd(starts, eseq, i) <= ListEnd(starts', eseq', i)
      BY <1>1, <3>3, ListsGrow
    <3>5. \A a \in Int, b \in Nat, c \in Nat : a <= b /\ b <= c => a <= c
      OBVIOUS
    <3>6. QED
      BY <1>1, <3>2, <3>4, <3>5, Zenon
  <2>3. QED
    BY <1>2, <2>1, <2>2 DEF RunsOn
<1>3. CASE sub.stage = "live"
  <2> DEFINE more == [i \in 1..k |-> eseq + i]
             queue == sub.queue \o more
             new == Enqueued(sub, k)
             n == Len(sub.queue)
  <2>1. /\ new.stage = "live" /\ new.queue = queue /\ new.last = sub.last
        /\ new.at = sub.at /\ new.inc = sub.inc
    BY <1>3 DEF Enqueued, Subscriptions
  <2>2. /\ n \in Nat /\ Len(queue) = n + k
        /\ \A i \in 1..n : queue[i] = sub.queue[i]
        /\ \A i \in n+1..n+k : queue[i] = more[i - n]
    <3>1. more \in Seq(Nat) /\ Len(more) = k
      BY <1>1
    <3> HIDE DEF more
    <3>2. QED
      BY <1>1, <3>1, Joined
  <2>3. \A i \in n+1..n+k : more[i - n] = eseq + (i - n)
    BY <2>2
  <2> HIDE DEF more, queue, new
  <2>4. \A i \in 1..n : sub.queue[i] = eseq - n + i
    BY <1>3 DEF RunsOn
  <2>5. \A i \in 1..Len(queue) : queue[i] = eseq' - Len(queue) + i
    <3>1. ASSUME NEW i \in 1..Len(queue) PROVE queue[i] = eseq' - Len(queue) + i
      <4>1. CASE i \in 1..n
        <5>1. queue[i] = eseq - n + i
          BY <2>2, <2>4, <4>1
        <5> HIDE DEF n
        <5>2. QED
          BY <1>1, <2>2, <4>1, <5>1
      <4>2. CASE i \in n+1..n+k
        <5>1. queue[i] = eseq + (i - n)
          BY <2>2, <2>3, <4>2
        <5> HIDE DEF n
        <5>2. QED
          BY <1>1, <2>2, <4>2, <5>1
      <4>3. QED
        BY <2>2, <4>1, <4>2
    <3>2. QED
      BY <3>1
  <2>6. eseq' - Len(queue) = eseq - n
    <3> HIDE DEF n
    <3>1. QED
      BY <1>1, <2>2
  <2>7. Len(starts) <= Len(starts') /\ Len(starts') \in Nat
    BY <1>1
  <2>8. \/ sub.last = eseq - n
        \/ sub.last < sub.at /\ sub.at = eseq - n /\ sub.inc < Len(starts)
    BY <1>3 DEF RunsOn
  <2>9. sub.inc < Len(starts) => sub.inc < Len(starts')
    BY <1>1, <2>7
  <2>10. QED
    BY <2>1, <2>5, <2>6, <2>8, <2>9 DEF RunsOn, new
<1>4. QED
  BY <1>2, <1>3

(* What a step of a fan-out task does to its stream.                       *)
Gapless(sub, new) ==
  sub.stage \in {"backlog", "live"} /\ new.stage \notin {"none", "ended"} /\ new.last # sub.last
    => \/ new.last = sub.last + 1
       \/ sub.stage = "backlog" /\ new.last = starts[sub.inc] + 1 /\ new.last > sub.last
       \/ sub.last < sub.at /\ new.last = sub.at + 1 /\ sub.inc < Len(starts)

Begin(sub, i, n) == [sub EXCEPT !.inc = i, !.last = n]

LEMMA BeginTyped ==
  ASSUME NEW sub \in Subscriptions, NEW i \in Nat, NEW n \in Int
  PROVE  /\ Begin(sub, i, n) \in Subscriptions
         /\ Begin(sub, i, n).inc = i
         /\ Begin(sub, i, n).last = n
         /\ Begin(sub, i, n).queue = sub.queue
  BY DEF Begin, Subscriptions

LEMMA StartRuns ==
  ASSUME TypeOK, StreamsRunOn, NEW s \in Sessions, FanoutStarts(s)
  PROVE  RunsOn(subs'[s]["conv"], starts, eseq)
<1> DEFINE sub == subs[s]["conv"]
           last == IF sub.since \in 0..eseq THEN sub.since ELSE eseq
           begun == [sub EXCEPT !.inc = Len(starts), !.last = last]
           next == IF Backlog(begun) = {} THEN Live(begun) ELSE [begun EXCEPT !.stage = "backlog"]
<1>1. /\ sub \in Subscriptions /\ eseq \in Nat /\ Len(starts) \in Nat /\ starts \in Seq(Nat)
  BY ScopesTyped DEF TypeOK, SessionsTyped, ConversationTyped
<1>2. sub.stage = "starting" /\ sub.queue = <<>>
  BY DEF FanoutStarts, FanoutStep, StreamsRunOn, RunsOn
<1>3. subs'[s]["conv"] = next
  BY ScopesTyped DEF FanoutStarts, FanoutStep, TypeOK, SessionsTyped
<1>4. last \in Nat /\ last <= eseq
  BY <1>1
<1>5. /\ begun \in Subscriptions /\ begun.inc = Len(starts) /\ begun.last = last
      /\ begun.queue = <<>>
  <2>1. begun = Begin(sub, Len(starts), last)
    BY DEF Begin
  <2>2. last \in Int
    BY <1>4
  <2>3. sub \in Subscriptions /\ Len(starts) \in Nat /\ sub.queue = <<>>
    BY <1>1, <1>2
  <2> HIDE DEF begun, sub, last
  <2>4. QED
    BY <2>1, <2>2, <2>3, BeginTyped, Zenon
<1> HIDE DEF last, begun
<1>6. CASE starts = <<>>
  <2>1. eseq = 0 /\ begun.inc = 0
    BY <1>5, <1>6 DEF StreamsRunOn, Begun
  <2>2. Backlog(begun) = {} /\ last = eseq
    BY <1>4, <2>1 DEF Backlog
  <2>3. RunsOn(Live(begun), starts, eseq)
    BY <1>1, <1>5, <2>2, LiveRuns
  <2>4. QED
    BY <1>3, <2>2, <2>3
<1>7. CASE starts # <<>>
  <2>1. begun.inc \in 1..Len(starts) /\ ListEnd(starts, eseq, begun.inc) = eseq
    BY <1>1, <1>5, <1>7 DEF ListEnd
  <2>2. Backlog(begun) = {} => last = eseq
    BY <1>4, <1>5, <2>1, BacklogRuns DEF StreamsRunOn
  <2>3. CASE Backlog(begun) = {}
    <3>1. RunsOn(Live(begun), starts, eseq)
      BY <1>1, <1>5, <2>2, <2>3, LiveRuns
    <3>2. QED
      BY <1>3, <2>3, <3>1
  <2>4. CASE Backlog(begun) # {}
    <3> DEFINE new == [begun EXCEPT !.stage = "backlog"]
    <3>1. /\ new.stage = "backlog" /\ new.inc = begun.inc /\ new.last = last
          /\ new.queue = <<>>
      BY <1>5 DEF Subscriptions
    <3>2. RunsOn(new, starts, eseq)
      <4> HIDE DEF new
      <4>1. QED
        BY <1>1, <1>4, <1>5, <2>1, <3>1 DEF RunsOn
    <3>3. QED
      BY <1>3, <2>4, <3>2
  <2>5. QED
    BY <2>3, <2>4
<1>8. QED
  BY <1>6, <1>7

(* One more event of the backlog, or of the queue, is sent.                *)
LEMMA SendTyped ==
  ASSUME NEW sub \in Subscriptions, NEW n \in Nat, NEW queue \in Seq(Nat)
  PROVE  LET more == [sub EXCEPT !.last = n]
             next == [sub EXCEPT !.last = n, !.queue = queue]
         IN  /\ more.stage = sub.stage /\ more.inc = sub.inc /\ more.at = sub.at
             /\ more.queue = sub.queue /\ more.last = n
             /\ next.stage = sub.stage /\ next.inc = sub.inc /\ next.at = sub.at
             /\ next.queue = queue /\ next.last = n
  BY DEF Subscriptions

LEMMA TailOfRun ==
  ASSUME NEW q \in Seq(Nat), q # <<>>
  PROVE  /\ Head(q) = q[1] /\ 1 \in 1..Len(q) /\ Tail(q) \in Seq(Nat)
         /\ Len(Tail(q)) = Len(q) - 1
         /\ q[1] \in Nat
         /\ \A i \in 1..Len(q)-1 : Tail(q)[i] = q[i + 1]
<1>1. Len(q) \in Nat \ {0} /\ 1 \in 1..Len(q)
  OBVIOUS
<1>2. Head(q) = q[1] /\ q[1] \in Nat
  BY <1>1
<1>3. Tail(q) \in Seq(Nat) /\ Len(Tail(q)) = Len(q) - 1
  OBVIOUS
<1>4. \A i \in 1..Len(q)-1 : Tail(q)[i] = q[i + 1]
  OBVIOUS
<1>5. QED
  BY <1>1, <1>2, <1>3, <1>4

LEMMA SentStep ==
  ASSUME TypeOK, NEW s \in Sessions, NEW sub, Sent(s, sub)
  PROVE  subs'[s]["conv"] = sub \/ subs'[s]["conv"].stage = "ended"
<1>1. [NoSub EXCEPT !.stage = "ended"].stage = "ended"
  BY DEF NoSub
<1>2. subs'[s]["conv"] \in {sub, [NoSub EXCEPT !.stage = "ended"]}
  BY ScopesTyped DEF Sent, FanoutStep, TypeOK, SessionsTyped
<1>3. QED
  BY <1>1, <1>2

LEMMA BacklogStep ==
  ASSUME TypeOK, StreamsRunOn, NEW s \in Sessions, FanoutBacklog(s)
  PROVE  /\ RunsOn(subs'[s]["conv"], starts, eseq)
         /\ Gapless(subs[s]["conv"], subs'[s]["conv"])
<1> DEFINE sub == subs[s]["conv"]
           new == subs'[s]["conv"]
           end == ListEnd(starts, eseq, sub.inc)
<1>1. /\ sub \in Subscriptions /\ sub.inc \in Nat /\ sub.inc <= Len(starts) /\ sub.last \in Int
      /\ eseq \in Nat /\ Len(starts) \in Nat /\ starts \in Seq(Nat)
  BY ScopesTyped DEF TypeOK, SessionsTyped, ConversationTyped, Subscriptions
<1>2. /\ sub.stage = "backlog" /\ sub.queue = <<>>
      /\ sub.inc \in 1..Len(starts) /\ sub.last <= end
  <2>1. sub.stage = "backlog" /\ RunsOn(sub, starts, eseq)
    BY DEF FanoutBacklog, StreamsRunOn
  <2>2. QED
    BY <1>1, <2>1 DEF RunsOn
<1>3. end \in Nat /\ end <= eseq
  BY <1>1, <1>2, BacklogRuns DEF StreamsRunOn, ListsAscend
<1>4. CASE Backlog(sub) = {}
  <2>1. new = Live(sub)
    BY <1>4, ScopesTyped DEF FanoutBacklog, FanoutStep, TypeOK, SessionsTyped
  <2>2. new.last = sub.last
    BY <1>1, <2>1 DEF Live, Subscriptions
  <2>3. sub.last = end
    BY <1>1, <1>2, <1>4, BacklogRuns DEF StreamsRunOn
  <2>4. sub.inc = Len(starts) => end = eseq
    BY DEF ListEnd
  <2>5. sub.last = eseq \/ (sub.last < eseq /\ sub.inc < Len(starts))
    <3> HIDE DEF sub, end
    <3>1. QED
      BY <1>1, <1>3, <2>3, <2>4
  <2>6. RunsOn(Live(sub), starts, eseq)
    BY <1>1, <1>2, <2>5, LiveRuns
  <2>7. QED
    BY <2>1, <2>2, <2>6 DEF Gapless
<1>5. CASE Backlog(sub) # {}
  <2>1. PICK n \in Backlog(sub) : /\ \A k \in Backlog(sub) : n <= k
                                  /\ Sent(s, [sub EXCEPT !.last = n])
    BY <1>5 DEF FanoutBacklog
  <2>2. /\ n \in Nat /\ n <= end
        /\ n = sub.last + 1 \/ (n = starts[sub.inc] + 1 /\ n > sub.last)
    BY <1>1, <1>2, <2>1, BacklogRuns DEF StreamsRunOn
  <2>3. CASE new = [sub EXCEPT !.last = n]
    <3>1. <<>> \in Seq(Nat)
      OBVIOUS
    <3>2. /\ new.stage = "backlog" /\ new.inc = sub.inc /\ new.queue = <<>> /\ new.last = n
      BY <1>1, <1>2, <2>2, <2>3, <3>1, SendTyped
    <3>3. RunsOn(new, starts, eseq)
      BY <1>1, <1>2, <2>2, <3>2 DEF RunsOn
    <3>4. QED
      BY <1>2, <2>2, <3>2, <3>3 DEF Gapless
  <2>4. CASE new.stage = "ended"
    BY <2>4 DEF RunsOn, Gapless
  <2>5. QED
    BY <2>1, <2>3, <2>4, SentStep
<1>6. QED
  BY <1>4, <1>5

LEMMA LiveStep ==
  ASSUME TypeOK, StreamsRunOn, NEW s \in Sessions, FanoutLive(s)
  PROVE  /\ RunsOn(subs'[s]["conv"], starts, eseq)
         /\ Gapless(subs[s]["conv"], subs'[s]["conv"])
<1> DEFINE sub == subs[s]["conv"]
           new == subs'[s]["conv"]
           n == Len(sub.queue)
<1>1. /\ sub \in Subscriptions /\ sub.last \in Int /\ sub.at \in Nat /\ sub.queue \in Seq(Nat)
      /\ eseq \in Nat /\ n \in Nat
  BY ScopesTyped DEF TypeOK, SessionsTyped, ConversationTyped, Subscriptions
<1>2. /\ sub.stage = "live" /\ sub.queue # <<>>
      /\ Sent(s, [sub EXCEPT !.last = Head(sub.queue), !.queue = Tail(sub.queue)])
  BY DEF FanoutLive
<1>3. /\ \A i \in 1..n : sub.queue[i] = eseq - n + i
      /\ \/ sub.last = eseq - n
         \/ sub.last < sub.at /\ sub.at = eseq - n /\ sub.inc < Len(starts)
  BY <1>2 DEF StreamsRunOn, RunsOn
<1>4. PICK q \in Seq(Nat) : q = sub.queue /\ q # <<>>
  BY <1>1, <1>2
<1>5. /\ Head(q) = q[1] /\ 1 \in 1..Len(q) /\ Tail(q) \in Seq(Nat) /\ Len(Tail(q)) = Len(q) - 1
      /\ q[1] \in Nat
      /\ \A i \in 1..Len(q)-1 : Tail(q)[i] = q[i + 1]
  BY <1>4, TailOfRun
<1>6. n = Len(q) /\ Head(q) = eseq - n + 1
  BY <1>1, <1>3, <1>4, <1>5
<1>7. CASE new = [sub EXCEPT !.last = Head(sub.queue), !.queue = Tail(sub.queue)]
  <2>1. /\ new.stage = "live" /\ new.inc = sub.inc /\ new.at = sub.at
        /\ new.queue = Tail(q) /\ new.last = Head(q)
    BY <1>1, <1>2, <1>4, <1>5, <1>7, SendTyped
  <2>2. /\ Len(Tail(q)) = n - 1 /\ n \in Nat \ {0}
    BY <1>5, <1>6
  <2>3. ASSUME NEW i \in 1..Len(Tail(q))
        PROVE  Tail(q)[i] = eseq - Len(Tail(q)) + i
    <3>1. Tail(q)[i] = q[i + 1] /\ i + 1 \in 1..n
      BY <1>5, <1>6, <2>2
    <3>2. q[i + 1] = eseq - n + (i + 1)
      BY <1>3, <1>4, <3>1
    <3>3. n - 1 \in Nat /\ i \in Int /\ eseq - n + (i + 1) = eseq - (n - 1) + i
      <4> HIDE DEF n
      <4>1. QED
        BY <1>1, <2>2
    <3>4. QED
      BY <2>2, <3>1, <3>2, <3>3
  <2>4. Head(q) = eseq - Len(Tail(q))
    <3> HIDE DEF n
    <3>1. QED
      BY <1>1, <1>6, <2>2
  <2>5. RunsOn(new, starts, eseq)
    BY <2>1, <2>3, <2>4 DEF RunsOn
  <2>6. Gapless(sub, new)
    <3>1. \/ Head(q) = sub.last + 1
          \/ sub.last < sub.at /\ Head(q) = sub.at + 1 /\ sub.inc < Len(starts)
      <4> HIDE DEF n
      <4>1. QED
        BY <1>1, <1>3, <1>6
    <3>2. QED
      BY <1>2, <2>1, <3>1 DEF Gapless
  <2>7. QED
    BY <2>5, <2>6
<1>8. CASE new.stage = "ended"
  BY <1>8 DEF RunsOn, Gapless
<1>9. QED
  BY <1>2, <1>7, <1>8, SentStep

LEMMA StreamsNext ==
  ASSUME TypeOK, StreamsRunOn, [Next]_vars
  PROVE  /\ StreamsRunOn'
         /\ \A s \in Sessions : Gapless(subs[s]["conv"], subs'[s]["conv"])
<1>1. Begun' /\ ListsAscend'
  BY BegunNext, ListsNext DEF StreamsRunOn
<1>2. ASSUME NEW k \in Nat \ {0}, Reports(k), NEW s \in Sessions
      PROVE  /\ RunsOn(subs'[s]["conv"], starts', eseq')
             /\ Gapless(subs[s]["conv"], subs'[s]["conv"])
  <2>1. /\ subs[s]["conv"] \in Subscriptions /\ subs[s]["conv"].inc <= Len(starts)
        /\ RunsOn(subs[s]["conv"], starts, eseq)
    BY ScopesTyped DEF TypeOK, SessionsTyped, StreamsRunOn
  <2>2. subs'[s]["conv"] = Enqueued(subs[s]["conv"], k)
    BY <1>2, ScopesTyped DEF Reports, Publish, TypeOK, SessionsTyped
  <2>3. RunsOn(subs'[s]["conv"], starts', eseq')
    BY <1>2, <2>1, <2>2, PublishRuns DEF StreamsRunOn
  <2>4. Enqueued(subs[s]["conv"], k).last = subs[s]["conv"].last
    BY <2>1 DEF Enqueued, Subscriptions
  <2>5. QED
    BY <2>2, <2>3, <2>4 DEF Gapless
<1>3. ASSUME UNCHANGED <<eseq, starts>>, NEW s \in Sessions, Keeps(s)
      PROVE  /\ RunsOn(subs'[s]["conv"], starts', eseq')
             /\ Gapless(subs[s]["conv"], subs'[s]["conv"])
  <2>1. CASE subs'[s]["conv"] = subs[s]["conv"]
    BY <1>3, <2>1 DEF StreamsRunOn, Gapless
  <2>2. CASE subs'[s]["conv"].stage \in {"none", "ended"}
    BY <2>2 DEF RunsOn, Gapless
  <2>3. CASE Asks(s)
    BY <1>3, <2>3 DEF Asks, RunsOn, Gapless
  <2>4. CASE FanoutStarts(s)
    <3>1. RunsOn(subs'[s]["conv"], starts, eseq)
      BY <2>4, StartRuns
    <3>2. subs[s]["conv"].stage = "starting"
      BY <2>4 DEF FanoutStarts, FanoutStep
    <3>3. QED
      BY <1>3, <3>1, <3>2 DEF Gapless
  <2>5. CASE FanoutBacklog(s)
    BY <1>3, <2>5, BacklogStep
  <2>6. CASE FanoutLive(s)
    BY <1>3, <2>6, LiveStep
  <2>7. QED
    BY <1>3, <2>1, <2>2, <2>3, <2>4, <2>5, <2>6 DEF Keeps, Fanout
<1>4. \A s \in Sessions : /\ RunsOn(subs'[s]["conv"], starts', eseq')
                          /\ Gapless(subs[s]["conv"], subs'[s]["conv"])
  BY <1>2, <1>3, EventSteps DEF StreamsRunOn
<1>5. QED
  BY <1>1, <1>4 DEF StreamsRunOn

(* The events of a subscription to the conversation arrive in order and    *)
(* without a gap, from the backlog into the live events, over closes and   *)
(* lost sockets: nothing falls between reading the list and joining the    *)
(* subscribers, since no await lies between.  Only a re-creation before    *)
(* the backlog is through costs events.                                    *)
THEOREM StreamsHaveNoGap == Spec => FanoutGapless
<1>1. Init => StreamsRunOn
  <2>1. ASSUME Init PROVE StreamsRunOn
    <3>1. starts = <<>> /\ Len(starts) = 0
      BY <2>1 DEF Init
    <3>2. Begun
      BY <2>1, NothingTyped DEF Init, Begun
    <3>3. ListsAscend
      BY <3>1 DEF ListsAscend
    <3>4. \A s \in Sessions : subs[s]["conv"] = NoSub
      BY <2>1, ScopesTyped DEF Init
    <3>5. QED
      BY <3>2, <3>3, <3>4, NothingTyped DEF StreamsRunOn, RunsOn
  <2>2. QED
    BY <2>1
<1>2. TypeOK /\ StreamsRunOn /\ [Next]_vars => StreamsRunOn'
  BY StreamsNext
<1> DEFINE Step == \A s \in Sessions :
       LET sub == subs[s]["conv"]
           new == subs'[s]["conv"]
       IN  sub.stage \in {"backlog", "live"} /\ new.stage \notin {"none", "ended"} /\ new.last # sub.last
           => \/ new.last = sub.last + 1
              \/ sub.stage = "backlog" /\ new.last = starts[sub.inc] + 1 /\ new.last > sub.last
              \/ sub.last < sub.at /\ new.last = sub.at + 1 /\ sub.inc < Len(starts)
<1>3. TypeOK /\ StreamsRunOn /\ [Next]_vars => [Step]_vars
  BY StreamsNext DEF Gapless
<1>4. QED
  BY <1>1, <1>2, <1>3, TypeCorrect, PTL DEF Spec, FanoutGapless
=============================================================================
