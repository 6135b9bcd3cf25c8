------------------------- MODULE ConversationEngine -------------------------
(***************************************************************************)
(* One conversation of LocalEngine, the in-process conversation engine     *)
(* (autoservice/conversation_engine/local_engine.py).  The engine keys all *)
(* its state by conversation id and no operation touches two ids, so the   *)
(* module fixes one id.                                                    *)
(*                                                                         *)
(* The engine runs on one asyncio event loop: a call runs without          *)
(* interruption until it really suspends, which it does in two places, on  *)
(* a plugin hook and on the per-conversation mode lock.  Each call in      *)
(* flight is one of Tasks, and pc says where it is suspended.  A hook      *)
(* point outside SuspendingHooks never yields, and then no other task may  *)
(* move while one is there (LoopFree).                                     *)
(***************************************************************************)
EXTENDS Integers, Sequences, FiniteSets

CONSTANTS
  Tasks,            \* calls that can be in flight together
  Participants,     \* ids that may join the conversation
  Role,             \* [Participants -> Roles]
  TimerNames,       \* names a timer may be given
  SlaTimers,        \* the timer names that start with "sla_"
  OnExpire,         \* what a timer may be asked to do when it fires
  Commands,         \* slash commands the operators use
  Requested,        \* visibilities the senders ask for
  Scores,           \* CSAT scores the customer may give
  SuspendingHooks,  \* hook points at which some registered hook yields
  MaxEvents,        \* bound: no call starts once this many events exist
  MaxIncarnations   \* bound: how often the conversation is (re)created

Roles          == {"customer", "agent", "operator", "observer"}
Modes          == {"auto", "copilot", "takeover"}
States         == {"none", "created", "active", "closed"}
Visibilities   == {"public", "side", "system"}
Outcomes       == {"resolved", "abandoned"}
Triggers       == {"command", "operator_join", "last_operator_left", "timer"}
ModeCommands   == {"/hijack", "/release", "/copilot"}
CloseCommands  == {"/resolve", "/abandon"}
ExpireActions  == Modes \union {"callback", "system_message"}
HookPoints     == {"created_hook", "closed_hook", "csat_hook", "joined_hook",
                   "message_hook", "mode_hook", "timer_hook"}
PCs            == HookPoints \union {"idle", "lock_wait"}
Nobody         == "nobody"
System         == "__system__"
Off            == "off"

ASSUME EngineAssumption ==
  /\ Role \in [Participants -> Roles]
  /\ SlaTimers \subseteq TimerNames
  /\ OnExpire \subseteq ExpireActions
  /\ Commands \subseteq ModeCommands \union CloseCommands
  /\ Requested \subseteq Visibilities
  /\ Scores \subseteq 1..5
  /\ SuspendingHooks \subseteq HookPoints
  /\ MaxEvents \in Nat
  /\ MaxIncarnations \in Nat
  /\ {Nobody, System} \cap Participants = {}

VARIABLES
  state,        \* Conversation.state, "none" before the first create
  mode,         \* Conversation.mode
  resolution,   \* Conversation.resolution
  incarnation,  \* which Conversation object the id names: creates so far
  parts,        \* _participants
  msgs,         \* _messages, as a set: each carries its sequence number
  seq,          \* _seq: last message sequence number given
  events,       \* _events: the log replayed to subscribers
  eseq,         \* _event_seq: last event sequence number given
  timers,       \* _timers: name -> pending on_expire action, or Off
  lockq,        \* the mode lock: its holder, then its waiters, FIFO
  pc,           \* where each task is suspended
  ctx           \* the locals each task carries over its suspension

logVars  == <<events, eseq>>
vars == <<state, mode, resolution, incarnation, parts, msgs, seq, events, eseq,
          timers, lockq, pc, ctx>>

NoResolution == [outcome |-> "none", by |-> Nobody, csat |-> 0]
Resolutions  == [outcome : Outcomes \union {"none"},
                 by : Participants \union {Nobody}, csat : 0..5]

(* A message; content is left out, an edit only leaves its mark.           *)
Messages == [n : Nat, src : Participants \union {System},
             vis : Visibilities, edited : BOOLEAN]

EventTypes == {"conversation.created", "conversation.resolved",
               "conversation.closed", "conversation.activated",
               "conversation.csat_recorded", "participant.joined",
               "participant.left", "mode.changed", "mode.noop",
               "message.sent", "message.gated", "message.edited",
               "message.deleted", "timer.set", "timer.cancelled",
               "timer.expired", "sla.breach", "hook.failed"}
NoTrigger == "none"
NoMode    == "none"
(* n is the event's sequence_number, msg the number of the message it is   *)
(* about (0: none), the rest the data of a mode event.                     *)
Events == [type : EventTypes, n : Nat, msg : Nat,
           old : Modes \union {NoMode}, new : Modes \union {NoMode},
           trigger : Triggers \union {NoTrigger}]

(* Locals of a suspended call: the mode and state of the conv object it    *)
(* read before suspending, whether the gate downgraded its message, who    *)
(* joined, and the mode switch it waits to make.                           *)
Contexts == [who : Participants \union {Nobody}, seenMode : Modes,
             seenCreated : BOOLEAN, gated : BOOLEAN, msg : Nat,
             target : Modes, trigger : Triggers \union {NoTrigger}]
NoContext == [who |-> Nobody, seenMode |-> "auto", seenCreated |-> FALSE,
              gated |-> FALSE, msg |-> 0, target |-> "auto",
              trigger |-> NoTrigger]

-----------------------------------------------------------------------------
(* Helpers.                                                                *)

HasOperator == \E p \in parts : Role[p] = "operator"

(* The gate lowers a public message to side for two (mode, role) pairs and *)
(* passes everything else through.                                         *)
GateDowngrade == {<<"copilot", "operator">>, <<"takeover", "agent">>}
ApplyGate(m, role, requested) ==
  IF requested = "public" /\ <<m, role>> \in GateDowngrade
  THEN "side" ELSE requested

(* An event before the log numbers it.                                     *)
Ev(type) == [type |-> type, n |-> 0, msg |-> 0, old |-> NoMode,
             new |-> NoMode, trigger |-> NoTrigger]
MessageEv(type, msg) == [Ev(type) EXCEPT !.msg = msg]
ModeEv(type, old, new, trigger) ==
  [Ev(type) EXCEPT !.old = old, !.new = new, !.trigger = trigger]

(* Defect: number an event by its place in the log.                        *)
NumberedByPlace(new) ==
  [i \in 1..Len(new) |-> [new[i] EXCEPT !.n = Len(events) + i]]
Numbered(new) == [i \in 1..Len(new) |-> [new[i] EXCEPT !.n = eseq + i]]

Publish(new) ==
  /\ events' = events \o Numbered(new)
  /\ eseq' = eseq + Len(new)

(* The event loop is free for t: no other task sits in a hook that does    *)
(* not yield.                                                              *)
LoopFree(t) ==
  \A u \in Tasks \ {t} : pc[u] \notin HookPoints \ SuspendingHooks

CanStart(t) == /\ pc[t] = "idle"
               /\ LoopFree(t)
               /\ eseq < MaxEvents
Resumes(t, point) == /\ pc[t] = point
                     /\ LoopFree(t)

Suspend(t, point, locals) == /\ pc' = [pc EXCEPT ![t] = point]
                             /\ ctx' = [ctx EXCEPT ![t] = locals]
Return(t) == Suspend(t, "idle", NoContext)

-----------------------------------------------------------------------------
Init ==
  /\ state = "none"
  /\ mode = "auto"
  /\ resolution = NoResolution
  /\ incarnation = 0
  /\ parts = {}
  /\ msgs = {}
  /\ seq = 0
  /\ events = <<>>
  /\ eseq = 0
  /\ timers = [name \in TimerNames |-> Off]
  /\ lockq = <<>>
  /\ pc = [t \in Tasks |-> "idle"]
  /\ ctx = [t \in Tasks |-> NoContext]

(* create_conversation: an open conversation is returned as it is; an      *)
(* absent or closed one is replaced, its log with it, while the counters   *)
(* and the mode lock of the id live on.                                    *)
CreateConversation(t) ==
  /\ CanStart(t)
  /\ state \in {"none", "closed"}
  /\ incarnation < MaxIncarnations
  /\ state' = "created"
  /\ mode' = "auto"
  /\ resolution' = NoResolution
  /\ incarnation' = incarnation + 1
  /\ parts' = {}
  /\ msgs' = {}
  /\ events' = Numbered(<<Ev("conversation.created")>>)
  /\ eseq' = eseq + 1
  /\ Suspend(t, "created_hook", NoContext)
  /\ UNCHANGED <<seq, timers, lockq>>

(* Defects: close without looking whether the conversation is closed;      *)
(* close without cancelling the timers.                                    *)
CloseConversationAgain(t, outcome, by) ==
  /\ timers' = [name \in TimerNames |-> Off]
  /\ state' = "closed"
  /\ resolution' = [outcome |-> outcome, by |-> by, csat |-> 0]
  /\ Publish(<<Ev("conversation.resolved"), Ev("conversation.closed")>>)
  /\ Suspend(t, "closed_hook", NoContext)
  /\ UNCHANGED <<mode, incarnation, parts, msgs, seq, lockq>>
CloseConversationKeepsTimers(t, outcome, by) ==
  /\ state # "closed"
  /\ state' = "closed"
  /\ resolution' = [outcome |-> outcome, by |-> by, csat |-> 0]
  /\ Publish(<<Ev("conversation.resolved"), Ev("conversation.closed")>>)
  /\ Suspend(t, "closed_hook", NoContext)
  /\ UNCHANGED <<mode, incarnation, parts, msgs, seq, lockq, timers>>

(* close_conversation: returns a closed conversation as it is.             *)
CloseConversation(t, outcome, by) ==
  /\ state # "closed"
  /\ timers' = [name \in TimerNames |-> Off]
  /\ state' = "closed"
  /\ resolution' = [outcome |-> outcome, by |-> by, csat |-> 0]
  /\ Publish(<<Ev("conversation.resolved"), Ev("conversation.closed")>>)
  /\ Suspend(t, "closed_hook", NoContext)
  /\ UNCHANGED <<mode, incarnation, parts, msgs, seq, lockq>>

SetCsat(t, score) ==
  /\ CanStart(t)
  /\ state # "none"
  /\ resolution # NoResolution
  /\ resolution' = [resolution EXCEPT !.csat = score]
  /\ Publish(<<Ev("conversation.csat_recorded")>>)
  /\ Suspend(t, "csat_hook", NoContext)
  /\ UNCHANGED <<state, mode, incarnation, parts, msgs, seq, timers, lockq>>

-----------------------------------------------------------------------------
(* Defect: the lock stays taken when switch_mode raises.                   *)
SwitchBodyLeaksLock(t, q, target, trigger, pre) ==
  \/ /\ state = "closed"
     /\ Publish(pre)
     /\ lockq' = q
     /\ Return(t)
     /\ UNCHANGED mode
  \/ /\ state # "closed"
     /\ mode = target
     /\ Publish(Append(pre, ModeEv("mode.noop", mode, target, trigger)))
     /\ lockq' = Tail(q)
     /\ Return(t)
     /\ UNCHANGED mode
  \/ /\ state # "closed"
     /\ mode # target
     /\ mode' = target
     /\ Publish(Append(pre, ModeEv("mode.changed", mode, target, trigger)))
     /\ lockq' = q
     /\ Suspend(t, "mode_hook", NoContext)

(* switch_mode.  The body runs at the head of the lock queue q, after the  *)
(* events pre that the caller emitted in the same step.  It raises on a    *)
(* closed conversation, reports a no-op, or switches and then calls the    *)
(* hooks with the lock still held.                                         *)
SwitchBody(t, q, target, trigger, pre) ==
  \/ /\ state = "closed"
     /\ Publish(pre)
     /\ lockq' = Tail(q)
     /\ Return(t)
     /\ UNCHANGED mode
  \/ /\ state # "closed"
     /\ mode = target
     /\ Publish(Append(pre, ModeEv("mode.noop", mode, target, trigger)))
     /\ lockq' = Tail(q)
     /\ Return(t)
     /\ UNCHANGED mode
  \/ /\ state # "closed"
     /\ mode # target
     /\ mode' = target
     /\ Publish(Append(pre, ModeEv("mode.changed", mode, target, trigger)))
     /\ lockq' = q
     /\ Suspend(t, "mode_hook", NoContext)

(* Defect: switch_mode does not wait for the lock.                         *)
SwitchModeNoWait(t, target, trigger, pre) ==
  SwitchBody(t, <<t>>, target, trigger, pre)

(* Entering switch_mode: a free lock is taken at once, a held one queues.  *)
SwitchMode(t, target, trigger, pre) ==
  \/ /\ lockq = <<>>
     /\ SwitchBody(t, <<t>>, target, trigger, pre)
  \/ /\ lockq # <<>>
     /\ Publish(pre)
     /\ lockq' = Append(lockq, t)
     /\ Suspend(t, "lock_wait", [NoContext EXCEPT !.target = target,
                                                  !.trigger = trigger])
     /\ UNCHANGED mode

LockGranted(t) ==
  /\ Resumes(t, "lock_wait")
  /\ Head(lockq) = t
  /\ SwitchBody(t, lockq, ctx[t].target, ctx[t].trigger, <<>>)
  /\ UNCHANGED <<state, resolution, incarnation, parts, msgs, seq, timers>>

(* Defect: the lock is not freed after the hooks.                          *)
ModeHooksReturnKeepsLock(t) ==
  /\ Resumes(t, "mode_hook")
  /\ Return(t)
  /\ UNCHANGED <<state, mode, resolution, incarnation, parts, msgs, seq,
                 events, eseq, timers, lockq>>

(* The hooks of mode.changed have returned: `async with` frees the lock.   *)
ModeHooksReturn(t) ==
  /\ Resumes(t, "mode_hook")
  /\ lockq' = Tail(lockq)
  /\ Return(t)
  /\ UNCHANGED <<state, mode, resolution, incarnation, parts, msgs, seq,
                 events, eseq, timers>>

-----------------------------------------------------------------------------
(* join: the conv object is read before the hooks, and after them its mode *)
(* decides whether an operator's arrival switches to copilot.              *)
Join(t, p) ==
  /\ CanStart(t)
  /\ state # "none"
  /\ p \notin parts
  /\ parts' = parts \union {p}
  /\ Publish(<<Ev("participant.joined")>>)
  /\ Suspend(t, "joined_hook", [NoContext EXCEPT !.who = p, !.seenMode = mode])
  /\ UNCHANGED <<state, mode, resolution, incarnation, msgs, seq, timers, lockq>>

JoinHooksReturn(t) ==
  /\ Resumes(t, "joined_hook")
  /\ \/ /\ Role[ctx[t].who] = "operator"
        /\ ctx[t].seenMode = "auto"
        /\ SwitchMode(t, "copilot", "operator_join", <<>>)
     \/ /\ ~ (Role[ctx[t].who] = "operator" /\ ctx[t].seenMode = "auto")
        /\ Return(t)
        /\ UNCHANGED <<mode, events, eseq, lockq>>
  /\ UNCHANGED <<state, resolution, incarnation, parts, msgs, seq, timers>>

(* Defect: no fall back to auto.                                           *)
LeaveNoFallback(t, p) ==
  /\ CanStart(t)
  /\ p \in parts
  /\ parts' = parts \ {p}
  /\ Publish(<<Ev("participant.left")>>)
  /\ UNCHANGED <<state, mode, resolution, incarnation, msgs, seq, timers, lockq, pc, ctx>>

(* leave: the last operator out of copilot falls back to auto.             *)
Leave(t, p) ==
  /\ CanStart(t)
  /\ p \in parts
  /\ parts' = parts \ {p}
  /\ \/ /\ mode = "copilot"
        /\ ~ HasOperator'
        /\ SwitchMode(t, "auto", "last_operator_left", <<Ev("participant.left")>>)
     \/ /\ mode # "copilot" \/ HasOperator'
        /\ Publish(<<Ev("participant.left")>>)
        /\ UNCHANGED <<mode, lockq, pc, ctx>>
  /\ UNCHANGED <<state, resolution, incarnation, msgs, seq, timers>>

-----------------------------------------------------------------------------
(* send_message: no check that the conversation is open.  The gate uses    *)
(* the mode of the moment; what follows the hooks uses the conv object     *)
(* read before them.                                                       *)
SendMessage(t, p, requested) ==
  LET vis == ApplyGate(mode, Role[p], requested)
  IN  /\ CanStart(t)
      /\ p \in parts
      /\ seq' = seq + 1
      /\ msgs' = msgs \union {[n |-> seq + 1, src |-> p, vis |-> vis, edited |-> FALSE]}
      /\ Publish(<<MessageEv("message.sent", seq + 1)>>)
      /\ Suspend(t, "message_hook",
                 [NoContext EXCEPT !.seenCreated = (state = "created"),
                                   !.gated = (vis # requested),
                                   !.msg = seq + 1])
      /\ UNCHANGED <<state, mode, resolution, incarnation, parts, timers, lockq>>

(* After the hooks of message.sent: report a downgrade, and activate a     *)
(* conversation that was still "created" before the hooks.                 *)
MessageHooksReturn(t) ==
  LET gatedEv == IF ctx[t].gated THEN <<MessageEv("message.gated", ctx[t].msg)>>
                                 ELSE <<>>
  IN  /\ Resumes(t, "message_hook")
      /\ \/ /\ ctx[t].seenCreated
            /\ state' = "active"
            /\ Publish(Append(gatedEv, Ev("conversation.activated")))
         \/ /\ ~ ctx[t].seenCreated
            /\ Publish(gatedEv)
            /\ UNCHANGED state
      /\ Return(t)
      /\ UNCHANGED <<mode, resolution, incarnation, parts, msgs, seq, timers, lockq>>

(* Defect: an edit sends the message through the gate again.               *)
EditMessageRegates(t, m) ==
  /\ CanStart(t)
  /\ m \in msgs
  /\ m.src \in Participants
  /\ msgs' = (msgs \ {m}) \union
              {[m EXCEPT !.edited = TRUE, !.vis = ApplyGate(mode, Role[m.src], "public")]}
  /\ Publish(<<MessageEv("message.edited", m.n)>>)
  /\ UNCHANGED <<state, mode, resolution, incarnation, parts, seq, timers, lockq, pc, ctx>>

(* edit_message keeps everything of the old message but its content.       *)
EditMessage(t, m) ==
  /\ CanStart(t)
  /\ m \in msgs
  /\ msgs' = (msgs \ {m}) \union {[m EXCEPT !.edited = TRUE]}
  /\ Publish(<<MessageEv("message.edited", m.n)>>)
  /\ UNCHANGED <<state, mode, resolution, incarnation, parts, seq, timers, lockq, pc, ctx>>

DeleteMessage(t, m) ==
  /\ CanStart(t)
  /\ m \in msgs
  /\ msgs' = msgs \ {m}
  /\ Publish(<<MessageEv("message.deleted", m.n)>>)
  /\ UNCHANGED <<state, mode, resolution, incarnation, parts, seq, timers, lockq, pc, ctx>>

-----------------------------------------------------------------------------
(* handle_command, for a participant whose role may use commands.          *)
(* Defect: /release takes the conversation to no known mode.               *)
CommandTargetUnknown == [c \in ModeCommands |-> CASE c = "/hijack"  -> "takeover"
                                                  [] c = "/release" -> "none"
                                                  [] c = "/copilot" -> "copilot"]
CommandTarget == [c \in ModeCommands |-> CASE c = "/hijack"  -> "takeover"
                                           [] c = "/release" -> "auto"
                                           [] c = "/copilot" -> "copilot"]
CommandOutcome == [c \in CloseCommands |-> IF c = "/resolve" THEN "resolved"
                                                             ELSE "abandoned"]
HandleCommand(t, p, c) ==
  /\ CanStart(t)
  /\ p \in parts
  /\ Role[p] \in {"operator", "observer"}
  /\ \/ /\ c \in ModeCommands
        /\ SwitchMode(t, CommandTarget[c], "command", <<>>)
        /\ UNCHANGED <<state, resolution, incarnation, parts, msgs, seq, timers>>
     \/ /\ c \in CloseCommands
        /\ CloseConversation(t, CommandOutcome[c], p)

-----------------------------------------------------------------------------
(* Timers.  set_timer replaces a timer of the same name without an event.  *)
SetTimer(t, name, action) ==
  /\ CanStart(t)
  /\ state \notin {"none", "closed"}
  /\ timers' = [timers EXCEPT ![name] = action]
  /\ Publish(<<Ev("timer.set")>>)
  /\ UNCHANGED <<state, mode, resolution, incarnation, parts, msgs, seq, lockq, pc, ctx>>

CancelTimer(t, name) ==
  /\ CanStart(t)
  /\ timers[name] # Off
  /\ timers' = [timers EXCEPT ![name] = Off]
  /\ Publish(<<Ev("timer.cancelled")>>)
  /\ UNCHANGED <<state, mode, resolution, incarnation, parts, msgs, seq, lockq, pc, ctx>>

(* Defect: a system message is stored under the current number.            *)
TimerExpiresReusesNumber(t, name) ==
  LET fired == <<Ev("timer.expired")>>
  IN  /\ CanStart(t)
      /\ timers[name] = "system_message"
      /\ timers' = [timers EXCEPT ![name] = Off]
      /\ msgs' = msgs \union {[n |-> seq, src |-> System,
                               vis |-> "system", edited |-> FALSE]}
      /\ Publish(Append(fired, MessageEv("message.sent", seq)))
      /\ UNCHANGED <<state, mode, resolution, incarnation, parts, seq, lockq, pc, ctx>>

(* _timer_task wakes: a cancelled task never gets here, so the timer is    *)
(* still stored.  Its on_expire action runs in the same task, here t.      *)
TimerExpires(t, name) ==
  LET fired == IF name \in SlaTimers
               THEN <<Ev("timer.expired"), Ev("sla.breach")>>
               ELSE <<Ev("timer.expired")>>
  IN  /\ CanStart(t)
      /\ timers[name] # Off
      /\ timers' = [timers EXCEPT ![name] = Off]
      /\ \/ /\ timers[name] \in Modes
            /\ SwitchMode(t, timers[name], "timer", fired)
            /\ UNCHANGED <<msgs, seq>>
         \/ /\ timers[name] = "system_message"
            /\ seq' = seq + 1
            /\ msgs' = msgs \union {[n |-> seq + 1, src |-> System,
                                     vis |-> "system", edited |-> FALSE]}
            /\ Publish(Append(fired, MessageEv("message.sent", seq + 1)))
            /\ UNCHANGED <<mode, lockq, pc, ctx>>
         \/ /\ timers[name] = "callback"
            /\ Publish(fired)
            /\ Suspend(t, "timer_hook", NoContext)
            /\ UNCHANGED <<mode, msgs, seq, lockq>>
      /\ UNCHANGED <<state, resolution, incarnation, parts>>

-----------------------------------------------------------------------------
(* _dispatch_hooks swallows an exception and logs hook.failed; the call    *)
(* stays at its hook point, where the remaining hooks still run.           *)
HookFails(t) ==
  /\ pc[t] \in HookPoints
  /\ LoopFree(t)
  /\ eseq < MaxEvents
  /\ Publish(<<Ev("hook.failed")>>)
  /\ UNCHANGED <<state, mode, resolution, incarnation, parts, msgs, seq, timers,
                 lockq, pc, ctx>>

(* The hook points after which the call has nothing left to do.            *)
HooksReturn(t) ==
  /\ \E point \in {"created_hook", "closed_hook", "csat_hook", "timer_hook"} :
       Resumes(t, point)
  /\ Return(t)
  /\ UNCHANGED <<state, mode, resolution, incarnation, parts, msgs, seq, events,
                 eseq, timers, lockq>>

Resume(t) == \/ LockGranted(t)
             \/ ModeHooksReturn(t)
             \/ JoinHooksReturn(t)
             \/ MessageHooksReturn(t)
             \/ HooksReturn(t)

Call(t) ==
  \/ CreateConversation(t)
  \/ \E score \in Scores : SetCsat(t, score)
  \/ \E p \in Participants :
       \/ Join(t, p)
       \/ Leave(t, p)
       \/ \E requested \in Requested : SendMessage(t, p, requested)
       \/ \E c \in Commands : HandleCommand(t, p, c)
  \/ \E m \in msgs : EditMessage(t, m) \/ DeleteMessage(t, m)
  \/ \E name \in TimerNames :
       \/ \E action \in OnExpire : SetTimer(t, name, action)
       \/ CancelTimer(t, name)
       \/ TimerExpires(t, name)

Next == \E t \in Tasks : Call(t) \/ Resume(t) \/ HookFails(t)

(* Hooks return and the event loop runs a task that is ready; nobody is    *)
(* obliged to call the engine, and hooks need not fail.                    *)
Fairness == \A t \in Tasks : WF_vars(Resume(t))

Spec == Init /\ [][Next]_vars /\ Fairness
-----------------------------------------------------------------------------
(* Properties.                                                             *)

(* The type of every variable.                                             *)
TypeOK ==
  /\ state \in States
  /\ mode \in Modes
  /\ resolution \in Resolutions
  /\ incarnation \in Nat
  /\ parts \subseteq Participants
  /\ msgs \subseteq Messages
  /\ seq \in Nat
  /\ events \in Seq(Events)
  /\ eseq \in Nat
  /\ timers \in [TimerNames -> OnExpire \union {Off}]
  /\ lockq \in Seq(Tasks)
  /\ pc \in [Tasks -> PCs]
  /\ ctx \in [Tasks -> Contexts]

(* The mode lock does its work on every path out of switch_mode: its queue *)
(* holds exactly the tasks inside switch_mode, each once, and only the     *)
(* holder, its head, is announcing a mode change to the hooks.             *)
ModeLock ==
  /\ \A i, j \in DOMAIN lockq : lockq[i] = lockq[j] => i = j
  /\ \A t \in Tasks : pc[t] = "mode_hook" => lockq # <<>> /\ Head(lockq) = t
  /\ \A t \in Tasks :
       pc[t] \in {"lock_wait", "mode_hook"} <=> \E i \in DOMAIN lockq : lockq[i] = t

(* Contract 7.1 #4: the events of a conversation are numbered without a    *)
(* gap, also over a re-creation, so a client can tell that it lost one.    *)
EventsDense ==
  /\ Len(events) <= eseq
  /\ \A i \in DOMAIN events : events[i].n = eseq - Len(events) + i

(* Contract 7.1 #3: mode changes are serialised.  Every mode.changed in    *)
(* the log starts from where the one before it ended, the first from auto, *)
(* and the last one's target is the mode of the conversation.              *)
ModeChanges == {i \in DOMAIN events : events[i].type = "mode.changed"}
ModeAfter(k, m) ==
  \/ m = "auto" /\ \A i \in ModeChanges : i > k
  \/ \E j \in ModeChanges : /\ j <= k /\ events[j].new = m
                            /\ \A i \in ModeChanges : i <= j \/ i > k
ModeChain == /\ \A i \in ModeChanges : ModeAfter(i - 1, events[i].old)
             /\ ModeAfter(Len(events), mode)

(* While one call announces a mode change to the hooks, no other call      *)
(* changes the mode under it.                                              *)
ModeStableWhileAnnounced ==
  [][\A t \in Tasks : pc[t] = "mode_hook" /\ incarnation' = incarnation
       => mode' = mode]_vars

(* Contract 7.1 #5: a message the gate lowered, or that was sent to the    *)
(* side, is never shown to the public later, whatever is done to it.       *)
GateIrreversible ==
  [][\A m \in msgs, k \in msgs' : m.n = k.n /\ m.vis # "public"
       => k.vis = m.vis]_vars

(* A closed conversation has no timer left that could wake it up, although *)
(* set_timer, expiry and close interleave over re-creations.               *)
NoTimerOnClosed ==
  state = "closed" => \A name \in TimerNames : timers[name] = Off

(* The log a reconnecting client replays accounts for the messages it can  *)
(* fetch: every stored message was announced in this log, in the order of  *)
(* the message numbers, although a re-creation empties both.               *)
SentEvents == {i \in DOMAIN events : events[i].type = "message.sent"}
LogAccountsForMessages ==
  /\ \A m \in msgs : \E i \in SentEvents : events[i].msg = m.n
  /\ \A i, j \in SentEvents : i < j => events[i].msg < events[j].msg

(* A downgrade is reported about a message the log has announced before,   *)
(* or about one of an earlier life of the id: when the conversation was    *)
(* closed and created again during the hooks of message.sent, the report   *)
(* goes to a log that never held the message (local_engine.py:459).  Then  *)
(* its number is below that of each message of this life.                  *)
Announced(n, k) == \E j \in SentEvents : j <= k /\ events[j].msg = n
OfEarlierLife(n) == /\ incarnation > 1
                    /\ \A j \in SentEvents : events[j].msg > n
GatedAfterSent ==
  \A i \in DOMAIN events : events[i].type = "message.gated" =>
    Announced(events[i].msg, i - 1) \/ OfEarlierLife(events[i].msg)

(* A client that replays the log ends with what the engine holds: with its *)
(* mode, every message it can fetch, and no downgrade of a message of this *)
(* life that it cannot place.                                              *)
LogIsFaithful == ModeChain /\ LogAccountsForMessages /\ GatedAfterSent

(* Every call ends: no path leaves the mode lock taken, and its queue is   *)
(* served.                                                                 *)
CallsEnd == \A t \in Tasks : pc[t] # "idle" ~> pc[t] = "idle"

(* Contract 7.1 #8, as its consequence: once every call has returned, an   *)
(* open conversation is in copilot only with an operator in it.  Stated    *)
(* for operators that use commands and timers that do not ask for copilot. *)
CopilotHasOperator ==
  /\ \A t \in Tasks : pc[t] = "idle"
  /\ state # "closed"
  /\ mode = "copilot"
  => HasOperator

(* The engine implements the contract's conversation.                      *)
Contract == INSTANCE ConversationContract
              WITH operators <- {p \in parts : Role[p] = "operator"}
ContractSpec == Contract!Spec
=============================================================================
