------------------------------- MODULE Gateway -------------------------------
(***************************************************************************)
(* The WebSocket gateway (autoservice/web_gateway.py, autoservice/gateway) *)
(* between the browsers of one customer and of the operators and the       *)
(* engine's conversation with that customer: connections, subscriptions    *)
(* and their fan-out tasks, broadcasts, the agent's replies, the request   *)
(* for a rating, and replay after a reconnect.                             *)
(*                                                                         *)
(* The gateway registers only the squad plugin, whose hooks do not suspend *)
(* (see ConversationEngine), so that an engine call is one step here.  A   *)
(* handler or task suspends at each send to a socket.                      *)
(***************************************************************************)
EXTENDS Integers, Sequences

CONSTANTS
  Operators,        \* operators, each with one browser
  Squads,           \* squads the operators subscribe to
  Customer,         \* the customer's browser tab
  Inputs,           \* what browsers do: frames, and "reload" of the customer's page
  Commands,         \* mode commands in use
  Sinces,           \* since_sequence of subscriptions to the conversation
  MaxSessions,      \* bound: sessions that something refers to at one time
  MaxMessages,      \* bound: messages stored
  MaxEvents,        \* bound: events published before the last call
  MaxIncarnations   \* bound: creations of the conversation

Clients   == Operators \union {Customer}
Agent     == "agent"
Nobody    == "nobody"
Sessions  == 1..MaxSessions
Scopes    == Squads \union {"conv"}
NoSince   == -1

ASSUME GatewayAssumption ==
  /\ {Customer, Agent, Nobody} \cap Operators = {}
  /\ Customer \notin {Agent, Nobody}
  /\ "conv" \notin Squads
  /\ Sinces \subseteq Nat \union {NoSince}
  /\ Commands \subseteq {"/hijack", "/release", "/copilot"}
  /\ MaxSessions \in Nat /\ MaxMessages \in Nat /\ MaxEvents \in Nat
  /\ MaxIncarnations \in Nat

VARIABLES
  convState, mode, joined,  \* the conversation and the operators in it
  msgs, seq,        \* its messages, and the counter that numbers them
  eseq, starts,     \* its event counter, and the counter's value at each creation
  squad,            \* the squad plugin's assignment
  owner, phase,     \* per session: its client, where _handle_connection is
  wire,             \* the socket is up
  registered,       \* _ws_connections
  busy,             \* per session: what its handler has yet to send
  subs,             \* per session and scope: the subscription
  reply,            \* per customer message: the agent reply task
  csat,             \* the _push_csat_request task, at most one at a time
  heard,            \* per session: message frames that reached the operator
  seen, cursor,     \* the tab: messages it was sent, its last-seen cursor
  hello, knows      \* the tab: cursor it says hello with, has the conversation's id

engineVars == <<convState, mode, joined, msgs, seq, eseq, starts, squad>>
wireVars   == <<owner, wire>>
tabVars    == <<seen, cursor, hello, knows>>
vars == <<engineVars, wireVars, phase, registered, busy, subs, reply, csat, heard,
          tabVars>>

NoSub  == [stage |-> "none", since |-> NoSince, inc |-> 0, last |-> 0,
           queue |-> <<>>, at |-> 0]
NoWork == [n |-> 0, replay |-> {}, to |-> {}]
NoReply == [stage |-> "none", ws |-> 0, n |-> 0, vis |-> "public", to |-> {}]
NoCsat == [stage |-> "none", ws |-> 0, asked |-> FALSE, to |-> {}]

-----------------------------------------------------------------------------
(* The conversation, as the engine's calls change it.                      *)
Vis(role) == IF <<mode, role>> \in {<<"copilot", "operator">>, <<"takeover", "agent">>}
             THEN "side" ELSE "public"

Enqueued(sub, k) ==
  IF sub.stage = "live" THEN [sub EXCEPT !.queue = @ \o [i \in 1..k |-> eseq + i]] ELSE sub

(* An event goes into the queue of every subscriber registered for the     *)
(* conversation.  One for a squad matches nothing: the gateway creates     *)
(* conversations without a squad_id in their metadata.                     *)
Publish(k) ==
  /\ eseq < MaxEvents
  /\ eseq' = eseq + k
  /\ subs' = [s \in Sessions |-> [subs[s] EXCEPT !["conv"] = Enqueued(@, k)]]

(* Defect: a message takes the number before.                              *)
MessageNumberedBefore(src, vis, open) ==
  [n |-> seq, src |-> src, vis |-> vis, open |-> open]

Message(src, vis, open) == [n |-> seq + 1, src |-> src, vis |-> vis, open |-> open]

(* Defect: an assignment that exists is kept.                              *)
SquadNowKept(creates) == IF squad # Nobody THEN squad
                         ELSE IF creates THEN "web-support" ELSE "general"

(* The plugin assigns the channel's squad when the router creates or looks *)
(* up the conversation, and get_squad the default where there is none.     *)
SquadNow(creates) == IF creates THEN "web-support"
                     ELSE IF squad = Nobody THEN "general" ELSE squad

(* _broadcast_to_squad: the sessions subscribed to the conversation or its *)
(* squad, without the one it comes from.                                   *)
Audience(sq, from) ==
  {s \in Sessions \ {from} : \/ subs[s]["conv"].stage # "none"
                             \/ (sq \in Squads /\ subs[s][sq].stage # "none")}

(* A frame with message n for session s, if it is still registered.        *)
Hear(s, n) == heard' = [heard EXCEPT ![s] =
                 @ \union IF s \in registered /\ wire[s] THEN {n} ELSE {}]
Show(m) == /\ seen' = seen \union {[n |-> m.n, vis |-> m.vis]}
           /\ cursor' = IF m.n > cursor THEN m.n ELSE cursor
           /\ knows' = TRUE

Init ==
  /\ convState = "none" /\ mode = "auto" /\ joined = {}
  /\ msgs = {} /\ seq = 0
  /\ eseq = 0 /\ starts = <<>>
  /\ squad = Nobody
  /\ owner = [s \in Sessions |-> Nobody]
  /\ phase = [s \in Sessions |-> "off"]
  /\ wire = [s \in Sessions |-> FALSE]
  /\ registered = {}
  /\ busy = [s \in Sessions |-> NoWork]
  /\ subs = [s \in Sessions |-> [c \in Scopes |-> NoSub]]
  /\ reply = [n \in 1..MaxMessages |-> NoReply]
  /\ csat = NoCsat
  /\ heard = [s \in Sessions |-> {}]
  /\ seen = {} /\ cursor = 0 /\ hello = 0 /\ knows = FALSE

-----------------------------------------------------------------------------
(* A session's id is used for the next one when nothing refers to it.      *)
Unused == {s \in Sessions :
             /\ phase[s] = "off"
             /\ \A r \in Sessions : s \notin busy[r].to
             /\ \A n \in DOMAIN reply : s # reply[n].ws /\ s \notin reply[n].to
             /\ s # csat.ws /\ s \notin csat.to}

(* Connections.  server_hello cannot be sent: the handler ends before its *)
(* try/finally.                                                            *)
HelloFails(s) == /\ phase' = [phase EXCEPT ![s] = "lost"]
                 /\ UNCHANGED <<wire, busy>>

(* Replay what the client has not seen, whatever its visibility.           *)
ReplayBegins(s, c) ==
  /\ c = Customer
  /\ hello > 0
  /\ wire' = [wire EXCEPT ![s] = TRUE]
  /\ phase' = [phase EXCEPT ![s] = "replaying"]
  /\ busy' = [busy EXCEPT ![s].replay = {m \in msgs : m.n > hello}]

ServingBegins(s, c) ==
  /\ c # Customer \/ hello = 0
  /\ wire' = [wire EXCEPT ![s] = TRUE]
  /\ phase' = [phase EXCEPT ![s] = "serving"]
  /\ UNCHANGED busy

(* A browser reconnects once its socket is down; the server learns of it   *)
(* when it next receives from, or fails to send to, the socket.  A send to *)
(* a dead socket may raise or be lost.  The handshake is one step: nobody  *)
(* sends to a session that has not subscribed.                             *)
Connect(c) ==
  /\ \A s \in Sessions : owner[s] = c => ~ wire[s]
  /\ \E s \in Unused :
       /\ \A r \in Unused : s <= r
       /\ owner' = [owner EXCEPT ![s] = c]
       /\ registered' = registered \union {s}
       /\ \/ HelloFails(s)
          \/ ReplayBegins(s, c)
          \/ ServingBegins(s, c)
  /\ UNCHANGED <<engineVars, subs, reply, csat, heard, tabVars>>

Drop(s) ==
  /\ wire[s]
  /\ wire' = [wire EXCEPT ![s] = FALSE]
  /\ UNCHANGED <<engineVars, owner, phase, registered, busy, subs, reply, csat, heard,
                 tabVars>>

(* The tab is loaded again: only from then on does it say hello with the   *)
(* cursor it has saved.                                                    *)
Reload ==
  /\ "reload" \in Inputs
  /\ wire' = [s \in Sessions |-> wire[s] /\ owner[s] # Customer]
  /\ hello' = cursor
  /\ knows' = FALSE
  /\ UNCHANGED <<engineVars, owner, phase, registered, busy, subs, reply, csat, heard,
                 seen, cursor>>

(* The messages are replayed one by one; replay_complete ends it.          *)
Replay(s) ==
  /\ phase[s] = "replaying"
  /\ \/ \E m \in busy[s].replay :
          /\ \A l \in busy[s].replay : m.n <= l.n
          /\ IF wire[s] THEN Show(m) ELSE UNCHANGED <<seen, cursor, knows>>
          /\ busy' = [busy EXCEPT ![s].replay = @ \ {m}]
          /\ UNCHANGED phase
     \/ /\ busy[s].replay = {} \/ ~ wire[s]
        /\ phase' = [phase EXCEPT ![s] = "serving"]
        /\ busy' = [busy EXCEPT ![s] = NoWork]
        /\ UNCHANGED <<seen, cursor, knows>>
  /\ UNCHANGED <<engineVars, wireVars, registered, subs, reply, csat, heard, hello>>

(* Defect: the session's subscriptions are not evicted.                    *)
EndKeepsSubscriptions(s) ==
  /\ phase' = [phase EXCEPT ![s] = "off"]
  /\ busy' = [busy EXCEPT ![s] = NoWork]
  /\ owner' = [owner EXCEPT ![s] = Nobody]
  /\ registered' = registered \ {s}
  /\ heard' = [heard EXCEPT ![s] = {}]
  /\ UNCHANGED subs

(* The finally of _handle_connection.                                      *)
End(s) ==
  /\ phase' = [phase EXCEPT ![s] = "off"]
  /\ busy' = [busy EXCEPT ![s] = NoWork]
  /\ owner' = [owner EXCEPT ![s] = Nobody]
  /\ registered' = registered \ {s}
  /\ subs' = [subs EXCEPT ![s] = [c \in Scopes |-> NoSub]]
  /\ heard' = [heard EXCEPT ![s] = {}]

Disconnected(s) ==
  /\ phase[s] = "serving"
  /\ ~ wire[s]
  /\ End(s)
  /\ UNCHANGED <<engineVars, wire, reply, csat, tabVars>>

-----------------------------------------------------------------------------
(* Frames.  The answer is sent when the handler returns; it is part of the *)
(* step unless the handler suspends, which only customer_message does.     *)
Receives(s, frame) == /\ frame \in Inputs
                      /\ phase[s] = "serving"
                      /\ wire[s]

(* customer_message.  The router creates the conversation, and has the     *)
(* customer and the agent join it, when the tab names none that exists.    *)
CustomerMessage(s) ==
  LET found   == knows /\ convState # "none"
      fresh   == ~ found /\ convState # "active"
  IN  /\ Receives(s, "customer_message")
      /\ owner[s] = Customer
      /\ seq < MaxMessages
      /\ fresh => Len(starts) < MaxIncarnations
      /\ convState' = IF fresh THEN "active" ELSE convState
      /\ mode' = IF fresh THEN "auto" ELSE mode
      /\ joined' = IF fresh THEN {} ELSE joined
      /\ starts' = IF fresh THEN Append(starts, eseq) ELSE starts
      /\ msgs' = (IF fresh THEN {} ELSE msgs) \union {Message(Customer, "public", fresh \/ convState = "active")}
      /\ seq' = seq + 1
      /\ Publish(IF fresh THEN 5 ELSE 1)
      /\ squad' = SquadNow(~ found)
      /\ phase' = [phase EXCEPT ![s] = "handling"]
      /\ busy' = [busy EXCEPT ![s].n = seq + 1, ![s].to = Audience(squad', s)]
      /\ UNCHANGED <<wireVars, registered, reply, csat, heard, tabVars>>

(* Defect: a failed send ends the broadcast.                               *)
BroadcastAborts(s) ==
  /\ phase[s] = "handling"
  /\ \E t \in busy[s].to :
       /\ Hear(t, busy[s].n)
       /\ busy' = [busy EXCEPT ![s].to = IF wire[t] THEN @ \ {t} ELSE {}]
  /\ UNCHANGED <<engineVars, wireVars, phase, registered, subs, reply, csat, tabVars>>

(* Defect: a send waits for the socket to come back.                       *)
BroadcastWaits(s) ==
  /\ phase[s] = "handling"
  /\ \E t \in busy[s].to :
       /\ wire[t]
       /\ Hear(t, busy[s].n)
       /\ busy' = [busy EXCEPT ![s].to = @ \ {t}]
  /\ UNCHANGED <<engineVars, wireVars, phase, registered, subs, reply, csat, tabVars>>

(* A customer's message goes to the squad, one session at a time.          *)
Broadcast(s) ==
  /\ phase[s] = "handling"
  /\ \E t \in busy[s].to :
       /\ Hear(t, busy[s].n)
       /\ busy' = [busy EXCEPT ![s].to = @ \ {t}]
  /\ UNCHANGED <<engineVars, wireVars, phase, registered, subs, reply, csat, tabVars>>

(* The reply task is created, and the handler returns.  Then the answer is *)
(* sent, or the loop ends with the socket.                                 *)
Answered(s) ==
  /\ phase[s] = "handling"
  /\ busy[s].to = {}
  /\ reply' = [reply EXCEPT ![busy[s].n] = [NoReply EXCEPT !.stage = "thinking", !.ws = s]]
  /\ \/ /\ phase' = [phase EXCEPT ![s] = "serving"]
        /\ busy' = [busy EXCEPT ![s] = NoWork]
        /\ knows' = (knows \/ wire[s])
        /\ UNCHANGED <<owner, registered, subs, heard>>
     \/ /\ ~ wire[s]
        /\ End(s)
        /\ UNCHANGED knows
  /\ UNCHANGED <<engineVars, wire, csat, seen, cursor, hello>>

-----------------------------------------------------------------------------
(* Frames of an operator.  (One that is refused, and ping, client_ack and  *)
(* history_request, change nothing.)                                       *)
OperatorFrame(s, frame) ==
  /\ Receives(s, frame)
  /\ owner[s] \in Operators
  /\ convState # "none"
  /\ UNCHANGED <<starts, wireVars, phase, registered, busy, reply, heard, tabVars>>

(* operator_join: what the engine raises is swallowed, also the refusal to *)
(* switch the mode of a closed conversation after the participant is in.   *)
OperatorJoin(s) ==
  LET switches == mode = "auto" /\ convState # "closed"
  IN  /\ OperatorFrame(s, "operator_join")
      /\ owner[s] \notin joined
      /\ joined' = joined \union {owner[s]}
      /\ mode' = IF switches THEN "copilot" ELSE mode
      /\ Publish(IF switches THEN 2 ELSE 1)
      /\ UNCHANGED <<convState, msgs, seq, squad, csat>>

OperatorLeave(s) ==
  LET switches == mode = "copilot" /\ joined = {owner[s]} /\ convState # "closed"
  IN  /\ OperatorFrame(s, "operator_leave")
      /\ owner[s] \in joined
      /\ joined' = joined \ {owner[s]}
      /\ mode' = IF switches THEN "auto" ELSE mode
      /\ Publish(IF switches THEN 2 ELSE 1)
      /\ UNCHANGED <<convState, msgs, seq, squad, csat>>

(* operator_message goes to the engine, and back to its sender only.       *)
OperatorMessage(s) ==
  /\ OperatorFrame(s, "operator_message")
  /\ owner[s] \in joined
  /\ seq < MaxMessages
  /\ seq' = seq + 1
  /\ msgs' = msgs \union {Message(owner[s], Vis("operator"), convState = "active")}
  /\ Publish(IF Vis("operator") = "side" THEN 2 ELSE 1)
  /\ UNCHANGED <<convState, mode, joined, squad, csat>>

EditMessage(s) ==
  /\ OperatorFrame(s, "edit_request")
  /\ msgs # {}
  /\ Publish(1)
  /\ UNCHANGED <<convState, mode, joined, msgs, seq, squad, csat>>

DeleteMessage(s) ==
  /\ OperatorFrame(s, "delete_request")
  /\ \E m \in msgs : msgs' = msgs \ {m}
  /\ Publish(1)
  /\ UNCHANGED <<convState, mode, joined, seq, squad, csat>>

CommandTarget == [c \in {"/hijack", "/release", "/copilot"} |->
  CASE c = "/hijack" -> "takeover" [] c = "/release" -> "auto" [] c = "/copilot" -> "copilot"]

OperatorCommand(s, c) ==
  /\ OperatorFrame(s, c)
  /\ owner[s] \in joined
  /\ convState # "closed"
  /\ mode' = CommandTarget[c]
  /\ Publish(1)
  /\ UNCHANGED <<convState, joined, msgs, seq, squad, csat>>

(* /resolve closes the conversation, whose hook has the plugin forget the  *)
(* assignment, and leaves a closed one as it is; the request for a rating  *)
(* follows in both cases.                                                  *)
Resolve(s) ==
  /\ OperatorFrame(s, "/resolve")
  /\ owner[s] \in joined
  /\ csat.stage \in {"none", "done"}
  /\ csat' = [NoCsat EXCEPT !.stage = "starting"]
  /\ \/ /\ convState # "closed"
        /\ convState' = "closed"
        /\ squad' = Nobody
        /\ Publish(2)
     \/ /\ convState = "closed"
        /\ UNCHANGED <<convState, squad, eseq, subs>>
  /\ UNCHANGED <<mode, joined, msgs, seq>>

(* subscribe: the registry entry at once, a task for the events.  Nothing  *)
(* matches a squad's, so that its task only waits.                         *)
Subscribe(s, scope, since) ==
  /\ Receives(s, "subscribe")
  /\ owner[s] \in Operators
  /\ subs[s][scope].stage = "none"
  /\ subs' = [subs EXCEPT ![s][scope] =
        [NoSub EXCEPT !.stage = IF scope = "conv" THEN "starting" ELSE "live",
                      !.since = since, !.at = IF scope = "conv" THEN 0 ELSE seq]]
  /\ UNCHANGED <<engineVars, wireVars, phase, registered, busy, reply, csat, heard, tabVars>>

(* unsubscribe cancels the task.  (A client knows only its own ids.)       *)
Unsubscribe(s, scope) ==
  /\ Receives(s, "unsubscribe")
  /\ subs[s][scope].stage # "none"
  /\ subs' = [subs EXCEPT ![s][scope] = NoSub]
  /\ UNCHANGED <<engineVars, wireVars, phase, registered, busy, reply, csat, heard, tabVars>>

-----------------------------------------------------------------------------
(* _fanout over the engine's subscribe, for the conversation: one event    *)
(* per step, whose send may suspend the task.                              *)
FanoutStep(s, stage, sub) ==
  /\ subs[s]["conv"].stage = stage
  /\ subs' = [subs EXCEPT ![s]["conv"] = sub]
  /\ UNCHANGED <<engineVars, wireVars, phase, registered, busy, reply, csat, heard, tabVars>>

(* The subscriber joins the engine's list, from where on it misses nothing.*)
Live(sub) == [sub EXCEPT !.stage = "live", !.at = eseq]

(* Numbers in the event list read that are still to be sent.  A            *)
(* re-creation gives the conversation a new list and leaves this one as it *)
(* was.                                                                    *)
Backlog(sub) ==
  IF sub.inc = 0 THEN {}
  ELSE LET end == IF sub.inc < Len(starts) THEN starts[sub.inc + 1] ELSE eseq
       IN  {n \in starts[sub.inc]+1..end : n > sub.last}

(* The backlog is read from the list the conversation has when the task    *)
(* starts.  It is empty if none was asked for, or one after a number that  *)
(* was not given out yet: then the stream goes on from now.                *)
FanoutStarts(s) ==
  LET sub   == subs[s]["conv"]
      begun == [sub EXCEPT !.inc = Len(starts),
                           !.last = IF sub.since \in 0..eseq THEN sub.since ELSE eseq]
  IN  FanoutStep(s, "starting",
        IF Backlog(begun) = {} THEN Live(begun) ELSE [begun EXCEPT !.stage = "backlog"])

(* Sent, or the task ends with the socket.  Its registry entry stays; so   *)
(* does the engine's subscriber, in whose queue nobody reads any more.     *)
Sent(s, sub) ==
  \/ FanoutStep(s, subs[s]["conv"].stage, sub)
  \/ /\ ~ wire[s]
     /\ FanoutStep(s, subs[s]["conv"].stage, [NoSub EXCEPT !.stage = "ended"])

(* Defect: the subscriber joins only when the task is scheduled again.     *)
FanoutBacklogThenJoins(s) ==
  LET sub == subs[s]["conv"]
  IN  /\ sub.stage = "backlog"
      /\ IF sub.since = NoSince THEN FanoutStep(s, "backlog", Live(sub))
         ELSE IF Backlog(sub) = {} THEN FanoutStep(s, "backlog", [sub EXCEPT !.since = NoSince])
         ELSE \E n \in Backlog(sub) : /\ \A k \in Backlog(sub) : n <= k
                                      /\ Sent(s, [sub EXCEPT !.last = n])

FanoutBacklog(s) ==
  LET sub == subs[s]["conv"]
  IN  /\ sub.stage = "backlog"
      /\ IF Backlog(sub) = {}
         THEN FanoutStep(s, "backlog", Live(sub))
         ELSE \E n \in Backlog(sub) : /\ \A k \in Backlog(sub) : n <= k
                                      /\ Sent(s, [sub EXCEPT !.last = n])

FanoutLive(s) ==
  LET sub == subs[s]["conv"]
  IN  /\ sub.stage = "live"
      /\ sub.queue # <<>>
      /\ Sent(s, [sub EXCEPT !.last = Head(sub.queue), !.queue = Tail(sub.queue)])

-----------------------------------------------------------------------------
(* _generate_agent_reply.  A task to which the pool gives nothing, or that *)
(* fails to get it, ends without a trace: it need not take this step.      *)
ReplyStored(n) ==
  /\ reply[n].stage = "thinking"
  /\ seq < MaxMessages
  /\ seq' = seq + 1
  /\ msgs' = msgs \union {Message(Agent, Vis("agent"), convState = "active")}
  /\ Publish(IF Vis("agent") = "side" THEN 2 ELSE 1)
  /\ reply' = [reply EXCEPT ![n].stage = "stored", ![n].n = seq + 1,
                                ![n].vis = Vis("agent")]
  /\ UNCHANGED <<convState, mode, joined, starts, squad, wireVars, phase, registered, busy,
                 csat, heard, tabVars>>

(* It goes to the socket that asked, whatever its visibility, and then to  *)
(* the squad, unless that socket's send raises.                            *)
ReplyPushed(n) ==
  /\ reply[n].stage = "stored"
  /\ \/ /\ wire[reply[n].ws]
        /\ Show(reply[n])
     \/ /\ ~ wire[reply[n].ws]
        /\ UNCHANGED <<seen, cursor, knows>>
  /\ \/ /\ squad' = SquadNow(FALSE)
        /\ reply' = [reply EXCEPT ![n].stage = "telling",
                                      ![n].to = Audience(squad', reply[n].ws)]
     \/ /\ ~ wire[reply[n].ws]
        /\ reply' = [reply EXCEPT ![n] = NoReply]
        /\ UNCHANGED squad
  /\ UNCHANGED <<convState, mode, joined, msgs, seq, eseq, starts, wireVars, phase,
                 registered, busy, subs, csat, heard, hello>>

ReplyTold(n) ==
  /\ reply[n].stage = "telling"
  /\ \/ \E t \in reply[n].to : /\ Hear(t, reply[n].n)
                               /\ reply' = [reply EXCEPT ![n].to = @ \ {t}]
     \/ /\ reply[n].to = {}
        /\ reply' = [reply EXCEPT ![n] = NoReply]
        /\ UNCHANGED heard
  /\ UNCHANGED <<engineVars, wireVars, phase, registered, busy, subs, csat, tabVars>>

(* _push_csat_request (ws: the customer's session by then, if any).        *)
CsatStarts ==
  /\ csat.stage = "starting"
  /\ squad' = SquadNow(FALSE)
  /\ \E up \in IF \E s \in registered : owner[s] = Customer /\ wire[s]
               THEN {s \in registered : owner[s] = Customer /\ wire[s]} ELSE {0} :
       csat' = [csat EXCEPT !.stage = "telling", !.ws = up, !.to = Audience(squad', 0)]
  /\ UNCHANGED <<convState, mode, joined, msgs, seq, eseq, starts, wireVars, phase,
                 registered, busy, subs, reply, heard, tabVars>>

CsatTold ==
  /\ csat.stage = "telling"
  /\ \/ \E t \in csat.to : csat' = [csat EXCEPT !.to = @ \ {t}, !.asked = @ \/ t = csat.ws]
     \/ /\ csat.to = {}
        /\ csat' = [csat EXCEPT !.stage = "done"]
  /\ UNCHANGED <<engineVars, wireVars, phase, registered, busy, subs, reply, heard, tabVars>>

-----------------------------------------------------------------------------
(* What the server does of its own accord, the answer to a frame included. *)
Serve(s) == Replay(s) \/ Disconnected(s) \/ Broadcast(s) \/ Answered(s)
Fanout(s) == FanoutStarts(s) \/ FanoutBacklog(s) \/ FanoutLive(s)
ReplyGoes(n) == ReplyPushed(n) \/ ReplyTold(n)
Csat == CsatStarts \/ CsatTold

Frame(s) ==
  \/ CustomerMessage(s)
  \/ OperatorJoin(s) \/ OperatorLeave(s) \/ OperatorMessage(s)
  \/ EditMessage(s) \/ DeleteMessage(s) \/ Resolve(s)
  \/ \E c \in Commands : OperatorCommand(s, c)
  \/ \E squadId \in Squads : Subscribe(s, squadId, NoSince)
  \/ \E since \in Sinces : Subscribe(s, "conv", since)
  \/ \E scope \in Scopes : Unsubscribe(s, scope)

Next ==
  \/ \E c \in Clients : Connect(c)
  \/ Reload
  \/ \E s \in Sessions : Drop(s) \/ Frame(s) \/ Serve(s) \/ Fanout(s)
  \/ \E n \in 1..MaxMessages : ReplyStored(n) \/ ReplyGoes(n)
  \/ Csat

(* A send returns or raises (the server's WebSocket ping closes a stalled  *)
(* connection), and the event loop runs what is ready.  The pool puts no   *)
(* limit on the agent's thinking.                                          *)
Fairness ==
  /\ \A s \in Sessions : WF_vars(Serve(s)) /\ WF_vars(Fanout(s))
  /\ \A n \in 1..MaxMessages : WF_vars(ReplyGoes(n))
  /\ WF_vars(Csat)

Spec == Init /\ [][Next]_vars /\ Fairness

-----------------------------------------------------------------------------
(* Properties.                                                             *)

(* The type of every variable.                                             *)
Messages == [n : Nat, src : Clients \union {Agent}, vis : {"public", "side"}, open : BOOLEAN]
Subscriptions ==
  [stage : {"none", "starting", "backlog", "live", "ended"}, since : Int,
   inc : Nat, last : Int, queue : Seq(Nat), at : Nat]
Work == [n : Nat, replay : SUBSET Messages, to : SUBSET Sessions]
Replies == [stage : {"none", "thinking", "stored", "telling"}, ws : 0..MaxSessions, n : Nat,
            vis : {"public", "side"}, to : SUBSET Sessions]
CsatTasks == [stage : {"none", "starting", "telling", "done"}, ws : 0..MaxSessions,
              asked : BOOLEAN, to : SUBSET Sessions]

ConversationTyped ==
  /\ convState \in {"none", "active", "closed"}
  /\ mode \in {"auto", "copilot", "takeover"}
  /\ joined \subseteq Operators
  /\ msgs \subseteq Messages
  /\ \A m \in msgs : m.n \in 1..seq
  /\ seq \in 0..MaxMessages /\ eseq \in Nat
  /\ starts \in Seq(Nat)
  /\ squad \in {Nobody, "web-support", "general"}

SessionsTyped ==
  /\ owner \in [Sessions -> Clients \union {Nobody}]
  /\ phase \in [Sessions -> {"off", "replaying", "serving", "handling", "lost"}]
  /\ wire \in [Sessions -> BOOLEAN]
  /\ registered \subseteq Sessions
  /\ busy \in [Sessions -> Work]
  /\ \A s \in Sessions : /\ \A m \in busy[s].replay : m.n \in 1..seq
                         /\ phase[s] = "handling" => busy[s].n \in 1..seq
  /\ subs \in [Sessions -> [Scopes -> Subscriptions]]
  /\ \A s \in Sessions, c \in Scopes : subs[s][c].inc <= Len(starts)
  /\ heard \in [Sessions -> SUBSET (1..seq)]

TasksTyped ==
  /\ reply \in [1..MaxMessages -> Replies]
  /\ \A n \in 1..MaxMessages : reply[n].stage \in {"stored", "telling"} => reply[n].n \in 1..seq
  /\ csat \in CsatTasks

TabTyped ==
  /\ seen \subseteq [n : 1..seq, vis : {"public", "side"}]
  /\ cursor \in 0..seq /\ hello \in 0..cursor
  /\ knows \in BOOLEAN

TypeOK == ConversationTyped /\ SessionsTyped /\ TasksTyped /\ TabTyped

(* A subscription, its fan-out task with it, lives no longer than the      *)
(* frame loop of its session: evict_by_session leaves none behind, nor     *)
(* does a session subscribe that is no longer served.                      *)
SubscriptionsOfLiveSessions ==
  \A s \in Sessions : (\E c \in Scopes : subs[s][c].stage # "none")
                        => phase[s] \in {"serving", "handling"} /\ s \in registered

(* Once the broadcast of a customer's message is over, every session still *)
(* up that was subscribed to the channel's squad before the message has    *)
(* got it: dead sockets, other operators and the squad's reassignments     *)
(* cost nobody a message of an open conversation.                          *)
Telling(n) == \E s \in Sessions : phase[s] = "handling" /\ busy[s].n = n
SubscribersHear ==
  \A m \in msgs, s \in Sessions :
    /\ m.src = Customer /\ m.open /\ ~ Telling(m.n)
    /\ wire[s] /\ "web-support" \in Squads
    /\ subs[s]["web-support"].stage # "none" /\ subs[s]["web-support"].at < m.n
    => m.n \in heard[s]

(* The events of a conversation subscription reach its socket in order     *)
(* and without a gap, from the backlog into the live events.  Only a       *)
(* re-creation between the two costs the events of the new conversation    *)
(* published before the backlog was through.                               *)
FanoutGapless ==
  [][\A s \in Sessions :
       LET sub == subs[s]["conv"]
           new == subs'[s]["conv"]
       IN  sub.stage \in {"backlog", "live"} /\ new.stage \notin {"none", "ended"} /\ new.last # sub.last
           => \/ new.last = sub.last + 1
              \/ sub.stage = "backlog" /\ new.last = starts[sub.inc] + 1 /\ new.last > sub.last
              \/ sub.last < sub.at /\ new.last = sub.at + 1 /\ sub.inc < Len(starts)]_vars

(* A conversation that is not closed belongs to the squad of its channel,  *)
(* also after a request for a rating had get_squad assign the default.     *)
AssignedWhileOpen == convState = "active" => squad = "web-support"

(* Whatever the server has begun to send comes to an end: a handler comes  *)
(* back to its socket, and a stored reply and a request for a rating go    *)
(* out, although sockets fail or stall.                                    *)
Sending == \/ \E s \in Sessions : phase[s] = "handling"
           \/ \E n \in 1..MaxMessages : reply[n].stage \in {"stored", "telling"}
           \/ csat.stage \in {"starting", "telling"}
SendsEnd == Sending ~> ~ Sending
=============================================================================
