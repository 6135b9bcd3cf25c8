---------------------- MODULE ConversationEngineProofs ----------------------
(***************************************************************************)
(* Machine-checked theorems about ConversationEngine, for any number of    *)
(* concurrent calls, participants and timers, any hooks, and any bounds.   *)
(***************************************************************************)
EXTENDS ConversationEngine, SequenceTheorems, TLAPS

-----------------------------------------------------------------------------
(* The log.                                                                *)

(* Every event the engine builds is one, before it is numbered.            *)
LEMMA EvTyped ==
  /\ \A type \in EventTypes : Ev(type) \in Events
  /\ \A type \in EventTypes, m \in Nat : MessageEv(type, m) \in Events
  /\ \A type \in EventTypes, old, new \in Modes, trigger \in Triggers \union {NoTrigger} :
       ModeEv(type, old, new, trigger) \in Events
  BY DEF Ev, MessageEv, ModeEv, Events

LEMMA EventTyped == \A e \in Events : e.msg \in Nat /\ e.type \in EventTypes
  BY DEF Events

(* Numbering keeps events events, and gives them consecutive numbers.      *)
LEMMA NumberedTyped ==
  ASSUME eseq \in Nat, NEW new \in Seq(Events)
  PROVE  /\ Numbered(new) \in Seq(Events)
         /\ Len(Numbered(new)) = Len(new)
         /\ \A i \in 1..Len(new) : Numbered(new)[i].n = eseq + i
<1>1. \A i \in 1..Len(new) : [new[i] EXCEPT !.n = eseq + i] \in Events
  <2>1. ASSUME NEW e \in Events, NEW k \in Nat
        PROVE  [e EXCEPT !.n = k] \in Events
    BY DEF Events
  <2>2. \A i \in 1..Len(new) : new[i] \in Events /\ eseq + i \in Nat
    OBVIOUS
  <2>3. QED
    BY <2>1, <2>2
<1> DEFINE num == [i \in 1..Len(new) |-> [new[i] EXCEPT !.n = eseq + i]]
<1>2. Len(new) \in Nat
  OBVIOUS
<1>3. num \in [1..Len(new) -> Events]
  BY <1>1
<1>4. num \in Seq(Events) /\ Len(num) = Len(new)
  <2> HIDE DEF num
  <2> QED
    BY <1>2, <1>3
<1>5. \A i \in 1..Len(new) : num[i].n = eseq + i
  <2>1. \A i \in 1..Len(new) : new[i] \in Events
    BY <1>2
  <2>2. QED
    BY <2>1 DEF Events
<1>6. QED
  BY <1>4, <1>5 DEF Numbered

(* Publishing keeps the log typed and dense.                               *)
LEMMA PublishTyped ==
  ASSUME events \in Seq(Events), eseq \in Nat, NEW new \in Seq(Events), Publish(new)
  PROVE  /\ events' \in Seq(Events)
         /\ eseq' \in Nat
<1>1. Numbered(new) \in Seq(Events)
  BY NumberedTyped
<1>2. QED
  BY <1>1 DEF Publish

LEMMA PublishDense ==
  ASSUME events \in Seq(Events), eseq \in Nat, NEW new \in Seq(Events), Publish(new),
         EventsDense
  PROVE  EventsDense'
<1>1. /\ Numbered(new) \in Seq(Events)
      /\ Len(Numbered(new)) = Len(new)
      /\ \A i \in 1..Len(new) : Numbered(new)[i].n = eseq + i
  BY NumberedTyped
<1>2. /\ events' = events \o Numbered(new)
      /\ eseq' = eseq + Len(new)
      /\ Len(events') = Len(events) + Len(new)
      /\ Len(new) \in Nat /\ Len(events) \in Nat
  <2>1. events' = events \o Numbered(new) /\ eseq' = eseq + Len(new)
    BY DEF Publish
  <2>2. Len(events \o Numbered(new)) = Len(events) + Len(Numbered(new))
    BY <1>1, ConcatProperties
  <2>3. QED
    BY <2>1, <2>2, <1>1
<1>3. Len(events') <= eseq'
  BY <1>2 DEF EventsDense
<1>4. ASSUME NEW i \in DOMAIN events'
      PROVE  events'[i].n = eseq' - Len(events') + i
  <2>1. i \in 1..(Len(events) + Len(new))
    BY <1>1, <1>2
  <2>2. CASE i <= Len(events)
    <3>1. events'[i] = events[i] /\ i \in DOMAIN events
      BY <2>1, <2>2, <1>1, <1>2
    <3>2. QED
      BY <3>1, <1>2, <2>1 DEF EventsDense
  <2>3. CASE i > Len(events)
    <3>1. /\ i - Len(events) \in 1..Len(new)
          /\ events'[i] = Numbered(new)[i - Len(events)]
      BY <2>1, <2>3, <1>1, <1>2
    <3>2. QED
      BY <3>1, <1>1, <1>2, <2>1
  <2>4. QED
    BY <2>1, <2>2, <2>3, <1>2
<1>5. QED
  BY <1>3, <1>4 DEF EventsDense

-----------------------------------------------------------------------------
(* Type correctness.                                                       *)

LEMMA ContextTyped ==
  ASSUME NEW p \in Participants \union {Nobody}, NEW m \in Modes,
         NEW a \in BOOLEAN, NEW b \in BOOLEAN, NEW n \in Nat,
         NEW trigger \in Triggers
  PROVE  /\ NoContext \in Contexts
         /\ [NoContext EXCEPT !.who = p, !.seenMode = m] \in Contexts
         /\ [NoContext EXCEPT !.seenCreated = a, !.gated = b, !.msg = n] \in Contexts
         /\ [NoContext EXCEPT !.target = m, !.trigger = trigger] \in Contexts
  BY DEF NoContext, Contexts, Modes

LEMMA SuspendTyped ==
  ASSUME TypeOK, NEW t \in Tasks, NEW point \in PCs, NEW locals \in Contexts,
         Suspend(t, point, locals)
  PROVE  /\ pc' \in [Tasks -> PCs]
         /\ ctx' \in [Tasks -> Contexts]
  BY DEF TypeOK, Suspend

LEMMA ReturnTyped ==
  ASSUME TypeOK, NEW t \in Tasks, Return(t)
  PROVE  /\ pc' \in [Tasks -> PCs]
         /\ ctx' \in [Tasks -> Contexts]
<1>1. NoContext \in Contexts
  BY DEF NoContext, Contexts, Modes
<1>2. "idle" \in PCs
  BY DEF PCs
<1>3. QED
  BY <1>1, <1>2, SuspendTyped DEF Return

(* What a step may do to the log: nothing, publish, or start it again.     *)
LogStep ==
  \/ UNCHANGED logVars
  \/ \E new \in Seq(Events) : Publish(new)
  \/ /\ events' = Numbered(<<Ev("conversation.created")>>)
     /\ eseq' = eseq + 1

(* The body of switch_mode.                                                *)
LEMMA SwitchBodyTyped ==
  ASSUME TypeOK, NEW t \in Tasks, NEW q \in Seq(Tasks), q # <<>>,
         NEW target \in Modes, NEW trigger \in Triggers \union {NoTrigger}, NEW pre \in Seq(Events),
         SwitchBody(t, q, target, trigger, pre)
  PROVE  /\ mode' \in Modes
         /\ lockq' \in Seq(Tasks)
         /\ pc' \in [Tasks -> PCs]
         /\ ctx' \in [Tasks -> Contexts]
         /\ \E new \in Seq(Events) : Publish(new)
<1>1. /\ ModeEv("mode.noop", mode, target, trigger) \in Events
      /\ ModeEv("mode.changed", mode, target, trigger) \in Events
  <2>1. mode \in Modes /\ {"mode.noop", "mode.changed"} \subseteq EventTypes
    BY DEF TypeOK, EventTypes
  <2>2. QED
    BY <2>1, EvTyped
<1>2. \A e \in Events : Append(pre, e) \in Seq(Events)
  OBVIOUS
<1>3. Tail(q) \in Seq(Tasks)
  OBVIOUS
<1>4. mode \in Modes /\ "mode_hook" \in PCs /\ NoContext \in Contexts
  BY DEF TypeOK, PCs, HookPoints, NoContext, Contexts, Modes
<1>5. CASE Return(t)
  BY <1>1, <1>2, <1>3, <1>4, <1>5, ReturnTyped DEF SwitchBody
<1>6. CASE Suspend(t, "mode_hook", NoContext)
  BY <1>1, <1>2, <1>3, <1>4, <1>6, SuspendTyped DEF SwitchBody
<1>7. QED
  BY <1>5, <1>6 DEF SwitchBody

LEMMA SwitchModeTyped ==
  ASSUME TypeOK, NEW t \in Tasks, NEW target \in Modes, NEW trigger \in Triggers,
         NEW pre \in Seq(Events), SwitchMode(t, target, trigger, pre)
  PROVE  /\ mode' \in Modes
         /\ lockq' \in Seq(Tasks)
         /\ pc' \in [Tasks -> PCs]
         /\ ctx' \in [Tasks -> Contexts]
         /\ \E new \in Seq(Events) : Publish(new)
<1>1. CASE SwitchBody(t, <<t>>, target, trigger, pre)
  <2>1. <<t>> \in Seq(Tasks) /\ <<t>> # <<>>
    OBVIOUS
  <2>2. QED
    BY <1>1, <2>1, SwitchBodyTyped
<1>2. CASE /\ Publish(pre)
           /\ lockq' = Append(lockq, t)
           /\ Suspend(t, "lock_wait", [NoContext EXCEPT !.target = target,
                                                        !.trigger = trigger])
           /\ UNCHANGED mode
  <2>1. [NoContext EXCEPT !.target = target, !.trigger = trigger] \in Contexts
    BY DEF NoContext, Contexts, Modes
  <2>2. "lock_wait" \in PCs /\ mode' \in Modes
    BY <1>2 DEF PCs, TypeOK
  <2>3. pc' \in [Tasks -> PCs] /\ ctx' \in [Tasks -> Contexts]
    BY <1>2, <2>1, <2>2, SuspendTyped
  <2>4. lockq' \in Seq(Tasks)
    BY <1>2 DEF TypeOK
  <2>5. QED
    BY <1>2, <2>2, <2>3, <2>4
<1>3. QED
  BY <1>1, <1>2 DEF SwitchMode

LEMMA LogTyped ==
  ASSUME TypeOK, LogStep
  PROVE  events' \in Seq(Events) /\ eseq' \in Nat
<1>1. CASE UNCHANGED logVars
  BY <1>1 DEF TypeOK, logVars
<1>2. CASE \E new \in Seq(Events) : Publish(new)
  BY <1>2, PublishTyped DEF TypeOK
<1>3. CASE /\ events' = Numbered(<<Ev("conversation.created")>>)
           /\ eseq' = eseq + 1
  <2>1. <<Ev("conversation.created")>> \in Seq(Events)
    BY EvTyped DEF EventTypes
  <2>2. eseq \in Nat
    BY DEF TypeOK
  <2>3. Numbered(<<Ev("conversation.created")>>) \in Seq(Events)
    BY <2>1, <2>2, NumberedTyped
  <2>4. QED
    BY <1>3, <2>2, <2>3
<1>4. QED
  BY <1>1, <1>2, <1>3 DEF LogStep

(* One lemma per operation: it keeps the types and makes a log step.       *)
LEMMA CreateTyped ==
  ASSUME TypeOK, NEW t \in Tasks, CreateConversation(t)
  PROVE  TypeOK' /\ LogStep
<1>1. LogStep
  BY DEF CreateConversation, LogStep
<1>2. NoContext \in Contexts /\ "created_hook" \in PCs
  BY DEF NoContext, Contexts, Modes, PCs, HookPoints
<1>3. pc' \in [Tasks -> PCs] /\ ctx' \in [Tasks -> Contexts]
  BY <1>2, SuspendTyped DEF CreateConversation
<1>4. NoResolution \in Resolutions
  BY DEF NoResolution, Resolutions
<1>5. QED
  BY <1>1, <1>3, <1>4, LogTyped DEF TypeOK, CreateConversation, States, Modes

LEMMA CloseTyped ==
  ASSUME TypeOK, NEW t \in Tasks, NEW outcome \in Outcomes, NEW p \in Participants,
         CloseConversation(t, outcome, p)
  PROVE  TypeOK' /\ LogStep
<1>1. <<Ev("conversation.resolved"), Ev("conversation.closed")>> \in Seq(Events)
  BY EvTyped DEF EventTypes
<1>2. LogStep
  BY <1>1 DEF CloseConversation, LogStep
<1>3. NoContext \in Contexts /\ "closed_hook" \in PCs
  BY DEF NoContext, Contexts, Modes, PCs, HookPoints
<1>4. pc' \in [Tasks -> PCs] /\ ctx' \in [Tasks -> Contexts]
  BY <1>3, SuspendTyped DEF CloseConversation
<1>5. [outcome |-> outcome, by |-> p, csat |-> 0] \in Resolutions
  BY DEF Resolutions
<1>6. QED
  BY <1>2, <1>4, <1>5, LogTyped DEF TypeOK, CloseConversation, States

LEMMA SetCsatTyped ==
  ASSUME TypeOK, NEW t \in Tasks, NEW score \in Scores, SetCsat(t, score)
  PROVE  TypeOK' /\ LogStep
<1>1. <<Ev("conversation.csat_recorded")>> \in Seq(Events)
  BY EvTyped DEF EventTypes
<1>2. LogStep
  BY <1>1 DEF SetCsat, LogStep
<1>3. NoContext \in Contexts /\ "csat_hook" \in PCs
  BY DEF NoContext, Contexts, Modes, PCs, HookPoints
<1>4. pc' \in [Tasks -> PCs] /\ ctx' \in [Tasks -> Contexts]
  BY <1>3, SuspendTyped DEF SetCsat
<1>5. [resolution EXCEPT !.csat = score] \in Resolutions
  BY EngineAssumption DEF TypeOK, Resolutions
<1>6. QED
  BY <1>2, <1>4, <1>5, LogTyped DEF TypeOK, SetCsat

LEMMA LockGrantedTyped ==
  ASSUME TypeOK, NEW t \in Tasks, lockq # <<>>, LockGranted(t)
  PROVE  TypeOK' /\ LogStep
<1>1. SwitchBody(t, lockq, ctx[t].target, ctx[t].trigger, <<>>)
  BY DEF LockGranted
<1>2. /\ lockq \in Seq(Tasks)
      /\ ctx[t].target \in Modes
      /\ ctx[t].trigger \in Triggers \union {NoTrigger}
      /\ <<>> \in Seq(Events)
  BY DEF TypeOK, Contexts
<1>3. /\ mode' \in Modes
      /\ lockq' \in Seq(Tasks)
      /\ pc' \in [Tasks -> PCs]
      /\ ctx' \in [Tasks -> Contexts]
      /\ \E new \in Seq(Events) : Publish(new)
  BY <1>1, <1>2, SwitchBodyTyped
<1>4. LogStep
  BY <1>3 DEF LogStep
<1>5. QED
  BY <1>3, <1>4, LogTyped DEF TypeOK, LockGranted

LEMMA ModeHooksReturnTyped ==
  ASSUME TypeOK, NEW t \in Tasks, lockq # <<>>, ModeHooksReturn(t)
  PROVE  TypeOK' /\ LogStep
<1>1. LogStep
  BY DEF ModeHooksReturn, LogStep, logVars
<1>2. pc' \in [Tasks -> PCs] /\ ctx' \in [Tasks -> Contexts]
  BY ReturnTyped DEF ModeHooksReturn
<1>3. lockq' \in Seq(Tasks)
  BY DEF ModeHooksReturn, TypeOK
<1>4. QED
  BY <1>1, <1>2, <1>3, LogTyped DEF TypeOK, ModeHooksReturn

LEMMA JoinTyped ==
  ASSUME TypeOK, NEW t \in Tasks, NEW p \in Participants, Join(t, p)
  PROVE  TypeOK' /\ LogStep
<1>1. <<Ev("participant.joined")>> \in Seq(Events)
  BY EvTyped DEF EventTypes
<1>2. LogStep
  BY <1>1 DEF Join, LogStep
<1>3. /\ [NoContext EXCEPT !.who = p, !.seenMode = mode] \in Contexts
      /\ "joined_hook" \in PCs
  BY DEF TypeOK, NoContext, Contexts, Modes, PCs, HookPoints
<1>4. pc' \in [Tasks -> PCs] /\ ctx' \in [Tasks -> Contexts]
  BY <1>3, SuspendTyped DEF Join
<1>5. QED
  BY <1>2, <1>4, LogTyped DEF TypeOK, Join

LEMMA JoinHooksReturnTyped ==
  ASSUME TypeOK, NEW t \in Tasks, JoinHooksReturn(t)
  PROVE  TypeOK' /\ LogStep
<1>1. CASE SwitchMode(t, "copilot", "operator_join", <<>>)
  <2>1. "copilot" \in Modes /\ "operator_join" \in Triggers /\ <<>> \in Seq(Events)
    BY DEF Modes, Triggers
  <2>2. /\ mode' \in Modes
        /\ lockq' \in Seq(Tasks)
        /\ pc' \in [Tasks -> PCs]
        /\ ctx' \in [Tasks -> Contexts]
        /\ \E new \in Seq(Events) : Publish(new)
    BY <1>1, <2>1, SwitchModeTyped
  <2>3. LogStep
    BY <2>2 DEF LogStep
  <2>4. QED
    BY <2>2, <2>3, LogTyped DEF TypeOK, JoinHooksReturn
<1>2. CASE Return(t) /\ UNCHANGED <<mode, events, eseq, lockq>>
  <2>1. LogStep
    BY <1>2 DEF LogStep, logVars
  <2>2. pc' \in [Tasks -> PCs] /\ ctx' \in [Tasks -> Contexts]
    BY <1>2, ReturnTyped
  <2>3. QED
    BY <1>2, <2>1, <2>2, LogTyped DEF TypeOK, JoinHooksReturn
<1>3. QED
  BY <1>1, <1>2 DEF JoinHooksReturn

LEMMA LeaveTyped ==
  ASSUME TypeOK, NEW t \in Tasks, NEW p \in Participants, Leave(t, p)
  PROVE  TypeOK' /\ LogStep
<1>1. <<Ev("participant.left")>> \in Seq(Events)
  BY EvTyped DEF EventTypes
<1>2. CASE SwitchMode(t, "auto", "last_operator_left", <<Ev("participant.left")>>)
  <2>1. "auto" \in Modes /\ "last_operator_left" \in Triggers
    BY DEF Modes, Triggers
  <2>2. /\ mode' \in Modes
        /\ lockq' \in Seq(Tasks)
        /\ pc' \in [Tasks -> PCs]
        /\ ctx' \in [Tasks -> Contexts]
        /\ \E new \in Seq(Events) : Publish(new)
    BY <1>1, <1>2, <2>1, SwitchModeTyped
  <2>3. LogStep
    BY <2>2 DEF LogStep
  <2>4. QED
    BY <2>2, <2>3, LogTyped DEF TypeOK, Leave
<1>3. CASE Publish(<<Ev("participant.left")>>) /\ UNCHANGED <<mode, lockq, pc, ctx>>
  <2>1. LogStep
    BY <1>1, <1>3 DEF LogStep
  <2>2. QED
    BY <1>3, <2>1, LogTyped DEF TypeOK, Leave
<1>4. QED
  BY <1>2, <1>3 DEF Leave

LEMMA SendMessageTyped ==
  ASSUME TypeOK, NEW t \in Tasks, NEW p \in Participants, NEW requested \in Requested,
         SendMessage(t, p, requested)
  PROVE  TypeOK' /\ LogStep
<1> DEFINE vis == ApplyGate(mode, Role[p], requested)
           locals == [NoContext EXCEPT !.seenCreated = (state = "created"),
                                       !.gated = (vis # requested),
                                       !.msg = seq + 1]
<1>1. <<MessageEv("message.sent", seq + 1)>> \in Seq(Events)
  BY EvTyped DEF EventTypes, TypeOK
<1>2. LogStep
  BY <1>1 DEF SendMessage, LogStep
<1>3. locals \in Contexts /\ "message_hook" \in PCs
  <2>1. ASSUME NEW a \in BOOLEAN, NEW b \in BOOLEAN, NEW k \in Nat
        PROVE  [NoContext EXCEPT !.seenCreated = a, !.gated = b, !.msg = k] \in Contexts
    BY DEF NoContext, Contexts, Modes
  <2>2. (state = "created") \in BOOLEAN /\ (vis # requested) \in BOOLEAN /\ seq + 1 \in Nat
    BY DEF TypeOK
  <2>3. "message_hook" \in PCs
    BY DEF PCs, HookPoints
  <2>4. QED
    BY <2>1, <2>2, <2>3
<1>4. pc' \in [Tasks -> PCs] /\ ctx' \in [Tasks -> Contexts]
  BY <1>3, SuspendTyped DEF SendMessage
<1>5. vis \in Visibilities
  BY EngineAssumption DEF ApplyGate, Visibilities
<1> DEFINE msg == [n |-> seq + 1, src |-> p, vis |-> vis, edited |-> FALSE]
<1>6. msg \in Messages
  BY <1>5 DEF TypeOK, Messages
<1>7. msgs' \subseteq Messages /\ seq' \in Nat
  <2>1. msgs' = msgs \union {msg} /\ seq' = seq + 1
    BY DEF SendMessage
  <2> HIDE DEF msg
  <2>2. QED
    BY <1>6, <2>1 DEF TypeOK
<1>8. QED
  BY <1>2, <1>4, <1>7, LogTyped DEF TypeOK, SendMessage

LEMMA MessageHooksReturnTyped ==
  ASSUME TypeOK, NEW t \in Tasks, MessageHooksReturn(t)
  PROVE  TypeOK' /\ LogStep
<1> DEFINE gatedEv == IF ctx[t].gated THEN <<MessageEv("message.gated", ctx[t].msg)>>
                                      ELSE <<>>
<1>1. /\ gatedEv \in Seq(Events)
      /\ Append(gatedEv, Ev("conversation.activated")) \in Seq(Events)
  BY EvTyped DEF EventTypes, TypeOK, Contexts
<1>2. /\ state' \in States
      /\ \E new \in Seq(Events) : Publish(new)
  BY <1>1 DEF MessageHooksReturn, States, TypeOK
<1>3. LogStep
  BY <1>2 DEF LogStep
<1>4. pc' \in [Tasks -> PCs] /\ ctx' \in [Tasks -> Contexts]
  BY ReturnTyped DEF MessageHooksReturn
<1>5. QED
  BY <1>2, <1>3, <1>4, LogTyped DEF TypeOK, MessageHooksReturn

LEMMA EditDeleteTyped ==
  ASSUME TypeOK, NEW t \in Tasks, NEW m \in msgs, EditMessage(t, m) \/ DeleteMessage(t, m)
  PROVE  TypeOK' /\ LogStep
<1>1. m \in Messages
  BY DEF TypeOK
<1>2. [m EXCEPT !.edited = TRUE] \in Messages
  BY <1>1 DEF Messages
<1>3. /\ <<MessageEv("message.edited", m.n)>> \in Seq(Events)
      /\ <<MessageEv("message.deleted", m.n)>> \in Seq(Events)
  BY <1>1, EvTyped DEF EventTypes, Messages
<1>4. LogStep
  BY <1>3 DEF EditMessage, DeleteMessage, LogStep
<1>5. msgs' \subseteq Messages
  BY <1>2 DEF EditMessage, DeleteMessage, TypeOK
<1>6. QED
  BY <1>4, <1>5, LogTyped DEF TypeOK, EditMessage, DeleteMessage

LEMMA HandleCommandTyped ==
  ASSUME TypeOK, NEW t \in Tasks, NEW p \in Participants, NEW c \in Commands,
         HandleCommand(t, p, c)
  PROVE  TypeOK' /\ LogStep
<1>1. CASE /\ c \in ModeCommands
           /\ SwitchMode(t, CommandTarget[c], "command", <<>>)
           /\ UNCHANGED <<state, resolution, incarnation, parts, msgs, seq, timers>>
  <2>1. CommandTarget[c] \in Modes /\ "command" \in Triggers /\ <<>> \in Seq(Events)
    BY <1>1 DEF ModeCommands, CommandTarget, Modes, Triggers
  <2>2. /\ mode' \in Modes
        /\ lockq' \in Seq(Tasks)
        /\ pc' \in [Tasks -> PCs]
        /\ ctx' \in [Tasks -> Contexts]
        /\ \E new \in Seq(Events) : Publish(new)
    BY <1>1, <2>1, SwitchModeTyped
  <2>3. LogStep
    BY <2>2 DEF LogStep
  <2>4. QED
    BY <1>1, <2>2, <2>3, LogTyped DEF TypeOK
<1>2. CASE c \in CloseCommands /\ CloseConversation(t, CommandOutcome[c], p)
  <2>1. CommandOutcome[c] \in Outcomes
    BY <1>2 DEF CommandOutcome, Outcomes
  <2>2. QED
    BY <1>2, <2>1, CloseTyped
<1>3. QED
  BY <1>1, <1>2 DEF HandleCommand

LEMMA SetCancelTimerTyped ==
  ASSUME TypeOK, NEW t \in Tasks, NEW name \in TimerNames, NEW action \in OnExpire,
         SetTimer(t, name, action) \/ CancelTimer(t, name)
  PROVE  TypeOK' /\ LogStep
<1>1. /\ <<Ev("timer.set")>> \in Seq(Events)
      /\ <<Ev("timer.cancelled")>> \in Seq(Events)
  BY EvTyped DEF EventTypes
<1>2. LogStep
  BY <1>1 DEF SetTimer, CancelTimer, LogStep
<1>3. timers' \in [TimerNames -> OnExpire \union {Off}]
  BY DEF SetTimer, CancelTimer, TypeOK
<1>4. QED
  BY <1>2, <1>3, LogTyped DEF TypeOK, SetTimer, CancelTimer

LEMMA TimerExpiresTyped ==
  ASSUME TypeOK, NEW t \in Tasks, NEW name \in TimerNames, TimerExpires(t, name)
  PROVE  TypeOK' /\ LogStep
<1> DEFINE fired == IF name \in SlaTimers
                    THEN <<Ev("timer.expired"), Ev("sla.breach")>>
                    ELSE <<Ev("timer.expired")>>
<1>1. fired \in Seq(Events)
  BY EvTyped DEF EventTypes
<1>2. timers' \in [TimerNames -> OnExpire \union {Off}]
  BY DEF TimerExpires, TypeOK
<1> HIDE DEF fired
<1>3. CASE timers[name] \in Modes /\ SwitchMode(t, timers[name], "timer", fired)
           /\ UNCHANGED <<msgs, seq>>
  <2>1. "timer" \in Triggers
    BY DEF Triggers
  <2>2. /\ mode' \in Modes
        /\ lockq' \in Seq(Tasks)
        /\ pc' \in [Tasks -> PCs]
        /\ ctx' \in [Tasks -> Contexts]
        /\ \E new \in Seq(Events) : Publish(new)
    BY <1>1, <1>3, <2>1, SwitchModeTyped
  <2>3. LogStep
    BY <2>2 DEF LogStep
  <2>4. QED
    BY <1>2, <1>3, <2>2, <2>3, LogTyped DEF TypeOK, TimerExpires
<1>4. CASE /\ seq' = seq + 1
           /\ msgs' = msgs \union {[n |-> seq + 1, src |-> System,
                                    vis |-> "system", edited |-> FALSE]}
           /\ Publish(Append(fired, MessageEv("message.sent", seq + 1)))
           /\ UNCHANGED <<mode, lockq, pc, ctx>>
  <2>1. MessageEv("message.sent", seq + 1) \in Events
    BY EvTyped DEF EventTypes, TypeOK
  <2>2. Append(fired, MessageEv("message.sent", seq + 1)) \in Seq(Events)
    BY <1>1, <2>1
  <2>3. LogStep
    BY <1>4, <2>2 DEF LogStep
  <2> DEFINE msg == [n |-> seq + 1, src |-> System, vis |-> "system", edited |-> FALSE]
  <2>4. msg \in Messages
    BY DEF TypeOK, Messages, Visibilities
  <2>5. msgs' \subseteq Messages /\ seq' \in Nat
    <3>1. msgs' = msgs \union {msg} /\ seq' = seq + 1
      BY <1>4
    <3> HIDE DEF msg
    <3>2. QED
      BY <2>4, <3>1 DEF TypeOK
  <2>6. QED
    BY <1>2, <1>4, <2>3, <2>5, LogTyped DEF TypeOK, TimerExpires
<1>5. CASE /\ Publish(fired)
           /\ Suspend(t, "timer_hook", NoContext)
           /\ UNCHANGED <<mode, msgs, seq, lockq>>
  <2>1. LogStep
    BY <1>1, <1>5 DEF LogStep
  <2>2. NoContext \in Contexts /\ "timer_hook" \in PCs
    BY DEF NoContext, Contexts, Modes, PCs, HookPoints
  <2>3. pc' \in [Tasks -> PCs] /\ ctx' \in [Tasks -> Contexts]
    BY <1>5, <2>2, SuspendTyped
  <2>4. QED
    BY <1>2, <1>5, <2>1, <2>3, LogTyped DEF TypeOK, TimerExpires
<1>6. QED
  BY <1>3, <1>4, <1>5 DEF TimerExpires, fired

LEMMA HooksTyped ==
  ASSUME TypeOK, NEW t \in Tasks, HookFails(t) \/ HooksReturn(t)
  PROVE  TypeOK' /\ LogStep
<1>1. CASE HookFails(t)
  <2>1. <<Ev("hook.failed")>> \in Seq(Events)
    BY EvTyped DEF EventTypes
  <2>2. LogStep
    BY <1>1, <2>1 DEF HookFails, LogStep
  <2>3. QED
    BY <1>1, <2>2, LogTyped DEF TypeOK, HookFails
<1>2. CASE HooksReturn(t)
  <2>1. LogStep
    BY <1>2 DEF HooksReturn, LogStep, logVars
  <2>2. pc' \in [Tasks -> PCs] /\ ctx' \in [Tasks -> Contexts]
    BY <1>2, ReturnTyped DEF HooksReturn
  <2>3. QED
    BY <1>2, <2>1, <2>2, LogTyped DEF TypeOK, HooksReturn
<1>3. QED
  BY <1>1, <1>2

(* Every step keeps the types, once the mode lock is known to be in order. *)
LEMMA NextTyped ==
  ASSUME TypeOK, ModeLock, Next
  PROVE  TypeOK' /\ LogStep
<1>1. PICK t \in Tasks : Call(t) \/ Resume(t) \/ HookFails(t)
  BY DEF Next
<1>2. pc[t] = "lock_wait" \/ pc[t] = "mode_hook" => lockq # <<>>
  BY DEF ModeLock, TypeOK
<1>3. CASE Call(t)
  <2>1. CASE CreateConversation(t)
    BY <2>1, CreateTyped
  <2>2. CASE \E score \in Scores : SetCsat(t, score)
    BY <2>2, SetCsatTyped
  <2>3. CASE \E p \in Participants : Join(t, p)
    BY <2>3, JoinTyped
  <2>4. CASE \E p \in Participants : Leave(t, p)
    BY <2>4, LeaveTyped
  <2>5. CASE \E p \in Participants, requested \in Requested : SendMessage(t, p, requested)
    BY <2>5, SendMessageTyped
  <2>6. CASE \E p \in Participants, c \in Commands : HandleCommand(t, p, c)
    BY <2>6, HandleCommandTyped
  <2>7. CASE \E m \in msgs : EditMessage(t, m) \/ DeleteMessage(t, m)
    BY <2>7, EditDeleteTyped
  <2>8. CASE \E name \in TimerNames, action \in OnExpire : SetTimer(t, name, action)
    BY <2>8, SetCancelTimerTyped
  <2>9. CASE \E name \in TimerNames : CancelTimer(t, name)
    <3>1. PICK name \in TimerNames : CancelTimer(t, name)
      BY <2>9
    <3>2. timers[name] \in OnExpire
      BY <3>1 DEF CancelTimer, TypeOK
    <3>3. QED
      BY <3>1, <3>2, SetCancelTimerTyped
  <2>10. CASE \E name \in TimerNames : TimerExpires(t, name)
    BY <2>10, TimerExpiresTyped
  <2>11. QED
    BY <1>3, <2>1, <2>2, <2>3, <2>4, <2>5, <2>6, <2>7, <2>8, <2>9, <2>10 DEF Call
<1>4. CASE Resume(t)
  <2>1. CASE LockGranted(t)
    BY <1>2, <2>1, LockGrantedTyped DEF LockGranted, Resumes
  <2>2. CASE ModeHooksReturn(t)
    BY <1>2, <2>2, ModeHooksReturnTyped DEF ModeHooksReturn, Resumes
  <2>3. QED
    BY <1>4, <2>1, <2>2, JoinHooksReturnTyped, MessageHooksReturnTyped, HooksTyped
    DEF Resume
<1>5. CASE HookFails(t)
  BY <1>5, HooksTyped
<1>6. QED
  BY <1>1, <1>3, <1>4, <1>5

-----------------------------------------------------------------------------
(* The mode lock.                                                          *)

Inside == {"lock_wait", "mode_hook"}
Distinct(q) == \A i, j \in DOMAIN q : q[i] = q[j] => i = j
In(u, q) == \E i \in DOMAIN q : q[i] = u

(* Dropping the head of a queue without duplicates removes just the head.  *)
LEMMA TailOfQueue ==
  ASSUME NEW q \in Seq(Tasks), q # <<>>, Distinct(q)
  PROVE  /\ Distinct(Tail(q))
         /\ ~ In(Head(q), Tail(q))
         /\ \A u \in Tasks : u # Head(q) => (In(u, Tail(q)) <=> In(u, q))
<1>1. /\ Len(q) \in Nat \ {0}
      /\ Len(Tail(q)) = Len(q) - 1
      /\ DOMAIN q = 1..Len(q)
      /\ DOMAIN Tail(q) = 1..(Len(q) - 1)
      /\ \A i \in 1..(Len(q) - 1) : Tail(q)[i] = q[i + 1]
      /\ Head(q) = q[1]
  OBVIOUS
<1>2. Distinct(Tail(q)) /\ ~ In(Head(q), Tail(q))
  BY <1>1 DEF Distinct, In
<1>3. ASSUME NEW u \in Tasks, u # Head(q)
      PROVE  In(u, Tail(q)) <=> In(u, q)
  <2>1. ASSUME NEW i \in DOMAIN q, q[i] = u
        PROVE  In(u, Tail(q))
    <3>1. i - 1 \in DOMAIN Tail(q) /\ Tail(q)[i - 1] = u
      BY <1>1, <1>3, <2>1
    <3>2. QED
      BY <3>1 DEF In
  <2>2. ASSUME NEW i \in DOMAIN Tail(q), Tail(q)[i] = u
        PROVE  In(u, q)
    BY <1>1, <2>2 DEF In
  <2>3. QED
    BY <2>1, <2>2 DEF In
<1>4. QED
  BY <1>2, <1>3

(* Waiting at the end of a queue.                                          *)
LEMMA AppendToQueue ==
  ASSUME NEW q \in Seq(Tasks), Distinct(q), NEW t \in Tasks, ~ In(t, q)
  PROVE  /\ Distinct(Append(q, t))
         /\ In(t, Append(q, t))
         /\ \A u \in Tasks : u # t => (In(u, Append(q, t)) <=> In(u, q))
         /\ q # <<>> => Append(q, t) # <<>> /\ Head(Append(q, t)) = Head(q)
<1>1. /\ Len(q) \in Nat
      /\ DOMAIN q = 1..Len(q)
      /\ DOMAIN Append(q, t) = 1..(Len(q) + 1)
      /\ \A i \in 1..Len(q) : Append(q, t)[i] = q[i]
      /\ Append(q, t)[Len(q) + 1] = t
  OBVIOUS
<1>2. Distinct(Append(q, t)) /\ In(t, Append(q, t))
  BY <1>1 DEF Distinct, In
<1>3. ASSUME NEW u \in Tasks, u # t
      PROVE  In(u, Append(q, t)) <=> In(u, q)
  <2>1. In(u, q) => In(u, Append(q, t))
    BY <1>1 DEF In
  <2>2. In(u, Append(q, t)) => In(u, q)
    BY <1>1, <1>3 DEF In
  <2>3. QED
    BY <2>1, <2>2
<1>4. q # <<>> => Append(q, t) # <<>> /\ Head(Append(q, t)) = Head(q)
  OBVIOUS
<1>5. QED
  BY <1>2, <1>3, <1>4

(* ModeLock in the words of this section.                                  *)
LEMMA ModeLockForm ==
  ModeLock <=> /\ Distinct(lockq)
               /\ \A t \in Tasks : pc[t] = "mode_hook" => lockq # <<>> /\ Head(lockq) = t
               /\ \A t \in Tasks : pc[t] \in Inside <=> In(t, lockq)
  BY DEF ModeLock, Distinct, Inside, In

(* A step that leaves the queue alone and moves one task outside it.       *)
LEMMA OutsideLock ==
  ASSUME TypeOK, ModeLock, NEW t \in Tasks, pc[t] \notin Inside,
         UNCHANGED lockq,
         \/ UNCHANGED pc
         \/ \E point \in PCs \ Inside : pc' = [pc EXCEPT ![t] = point]
  PROVE  ModeLock'
<1>1. \A u \in Tasks : /\ pc'[u] \in Inside <=> pc[u] \in Inside
                       /\ pc'[u] = "mode_hook" <=> pc[u] = "mode_hook"
  BY DEF TypeOK, Inside
<1>2. QED
  BY <1>1 DEF ModeLock, Inside

(* The body of switch_mode, at the head of a queue of the tasks inside.    *)
LEMMA SwitchBodyLock ==
  ASSUME TypeOK, NEW t \in Tasks, NEW q \in Seq(Tasks), q # <<>>, Head(q) = t,
         Distinct(q),
         \A u \in Tasks : u # t => (pc[u] \in Inside <=> In(u, q)),
         \A u \in Tasks : u # t => pc[u] # "mode_hook",
         NEW target, NEW trigger, NEW pre, SwitchBody(t, q, target, trigger, pre)
  PROVE  ModeLock'
<1>1. CASE lockq' = Tail(q) /\ Return(t)
  <2>1. pc' = [pc EXCEPT ![t] = "idle"]
    BY <1>1 DEF Return, Suspend
  <2>2. \A u \in Tasks : pc'[u] = IF u = t THEN "idle" ELSE pc[u]
    BY <2>1 DEF TypeOK
  <2>3. /\ Distinct(lockq')
        /\ ~ In(t, lockq')
        /\ \A u \in Tasks : u # t => (In(u, lockq') <=> In(u, q))
    BY <1>1, TailOfQueue
  <2>4. \A u \in Tasks : pc'[u] \in Inside <=> In(u, lockq')
    BY <2>2, <2>3 DEF Inside
  <2>5. QED
    BY <2>2, <2>3, <2>4 DEF ModeLock, Distinct, Inside, In
<1>2. CASE lockq' = q /\ Suspend(t, "mode_hook", NoContext)
  <2>1. \A u \in Tasks : pc'[u] = IF u = t THEN "mode_hook" ELSE pc[u]
    BY <1>2 DEF Suspend, TypeOK
  <2>2. In(t, q)
    <3>1. 1 \in DOMAIN q /\ q[1] = t
      OBVIOUS
    <3>2. QED
      BY <3>1 DEF In
  <2>3. \A u \in Tasks : pc'[u] \in Inside <=> In(u, lockq')
    BY <1>2, <2>1, <2>2 DEF Inside
  <2>4. QED
    BY <1>2, <2>1, <2>3 DEF ModeLock, Distinct, Inside, In
<1>3. QED
  BY <1>1, <1>2 DEF SwitchBody

LEMMA SwitchModeLock ==
  ASSUME TypeOK, ModeLock, NEW t \in Tasks, pc[t] \notin Inside,
         NEW target, NEW trigger, NEW pre, SwitchMode(t, target, trigger, pre)
  PROVE  ModeLock'
<1>1. CASE lockq = <<>> /\ SwitchBody(t, <<t>>, target, trigger, pre)
  <2>1. /\ <<t>> \in Seq(Tasks) /\ <<t>> # <<>> /\ Head(<<t>>) = t
        /\ DOMAIN <<t>> = {1} /\ <<t>>[1] = t
    OBVIOUS
  <2>2. \A u \in Tasks : pc[u] \notin Inside
    BY <1>1 DEF ModeLock, Inside
  <2>3. /\ Distinct(<<t>>)
        /\ \A u \in Tasks : u # t => (pc[u] \in Inside <=> In(u, <<t>>))
    BY <2>1, <2>2 DEF Distinct, In
  <2>4. \A u \in Tasks : u # t => pc[u] # "mode_hook"
    BY <2>2 DEF Inside
  <2>5. QED
    BY <1>1, <2>1, <2>3, <2>4, SwitchBodyLock
<1>2. CASE /\ lockq # <<>>
           /\ lockq' = Append(lockq, t)
           /\ Suspend(t, "lock_wait", [NoContext EXCEPT !.target = target,
                                                        !.trigger = trigger])
  <2>1. \A u \in Tasks : pc'[u] = IF u = t THEN "lock_wait" ELSE pc[u]
    BY <1>2 DEF Suspend, TypeOK
  <2>2. lockq \in Seq(Tasks) /\ Distinct(lockq) /\ ~ In(t, lockq)
    BY ModeLockForm DEF TypeOK
  <2>3. /\ Distinct(lockq')
        /\ In(t, lockq')
        /\ \A u \in Tasks : u # t => (In(u, lockq') <=> In(u, lockq))
        /\ lockq' # <<>> /\ Head(lockq') = Head(lockq)
    BY <1>2, <2>2, AppendToQueue
  <2>4. \A u \in Tasks : pc'[u] \in Inside <=> In(u, lockq')
    BY <2>1, <2>3, ModeLockForm DEF Inside
  <2>5. \A u \in Tasks : pc'[u] = "mode_hook" => lockq' # <<>> /\ Head(lockq') = u
    BY <2>1, <2>3, ModeLockForm
  <2>6. QED
    BY <2>3, <2>4, <2>5 DEF ModeLock, Distinct, Inside, In
<1>3. QED
  BY <1>1, <1>2 DEF SwitchMode

LEMMA GrantedOrReleasedLock ==
  ASSUME TypeOK, ModeLock, NEW t \in Tasks, LockGranted(t) \/ ModeHooksReturn(t)
  PROVE  ModeLock'
<1>1. /\ lockq \in Seq(Tasks)
      /\ Distinct(lockq)
      /\ \A u \in Tasks : pc[u] = "mode_hook" => lockq # <<>> /\ Head(lockq) = u
      /\ \A u \in Tasks : pc[u] \in Inside <=> In(u, lockq)
  BY ModeLockForm DEF TypeOK
<1>2. pc[t] \in Inside
  BY DEF LockGranted, ModeHooksReturn, Resumes, Inside
<1>3. In(t, lockq) /\ lockq # <<>>
  BY <1>1, <1>2 DEF In
<1>4. CASE LockGranted(t)
  <2>1. Head(lockq) = t /\ pc[t] = "lock_wait"
    BY <1>4 DEF LockGranted, Resumes
  <2>2. \A u \in Tasks : u # t => pc[u] # "mode_hook"
    BY <1>1, <2>1
  <2>3. SwitchBody(t, lockq, ctx[t].target, ctx[t].trigger, <<>>)
    BY <1>4 DEF LockGranted
  <2>4. QED
    BY <1>1, <1>3, <2>1, <2>2, <2>3, SwitchBodyLock
<1>5. CASE ModeHooksReturn(t)
  <2>1. Head(lockq) = t /\ lockq' = Tail(lockq)
    BY <1>1, <1>5 DEF ModeHooksReturn, Resumes
  <2>2. \A u \in Tasks : pc'[u] = IF u = t THEN "idle" ELSE pc[u]
    BY <1>5 DEF ModeHooksReturn, Return, Suspend, TypeOK
  <2>3. /\ Distinct(lockq')
        /\ ~ In(t, lockq')
        /\ \A u \in Tasks : u # t => (In(u, lockq') <=> In(u, lockq))
    BY <1>1, <1>3, <2>1, TailOfQueue
  <2>4. \A u \in Tasks : pc'[u] \in Inside <=> In(u, lockq')
    BY <1>1, <2>2, <2>3 DEF Inside
  <2>5. \A u \in Tasks : pc'[u] # "mode_hook"
    BY <1>1, <2>1, <2>2
  <2>6. QED
    BY <2>3, <2>4, <2>5 DEF ModeLock, Distinct, Inside, In
<1>6. QED
  BY <1>4, <1>5

LEMMA NextLock ==
  ASSUME TypeOK, ModeLock, Next
  PROVE  ModeLock'
<1>1. PICK t \in Tasks : Call(t) \/ Resume(t) \/ HookFails(t)
  BY DEF Next
<1> USE DEF Inside
<1>2. CASE LockGranted(t) \/ ModeHooksReturn(t)
  BY <1>2, GrantedOrReleasedLock
<1>3. CASE CreateConversation(t)
  BY <1>3, OutsideLock DEF CreateConversation, CanStart, Suspend, PCs, HookPoints
<1>4. CASE \E score \in Scores : SetCsat(t, score)
  BY <1>4, OutsideLock DEF SetCsat, CanStart, Suspend, PCs, HookPoints
<1>5. CASE \E p \in Participants : Join(t, p)
  BY <1>5, OutsideLock DEF Join, CanStart, Suspend, PCs, HookPoints
<1>6. CASE JoinHooksReturn(t)
  <2>1. pc[t] \notin Inside
    BY <1>6 DEF JoinHooksReturn, Resumes
  <2>2. CASE SwitchMode(t, "copilot", "operator_join", <<>>)
    BY <2>1, <2>2, SwitchModeLock
  <2>3. CASE Return(t) /\ UNCHANGED lockq
    BY <2>1, <2>3, OutsideLock DEF Return, Suspend, PCs
  <2>4. QED
    BY <1>6, <2>2, <2>3 DEF JoinHooksReturn
<1>7. CASE \E p \in Participants : Leave(t, p)
  <2>1. pc[t] \notin Inside
    BY <1>7 DEF Leave, CanStart
  <2>2. CASE SwitchMode(t, "auto", "last_operator_left", <<Ev("participant.left")>>)
    BY <2>1, <2>2, SwitchModeLock
  <2>3. CASE UNCHANGED <<lockq, pc>>
    BY <2>1, <2>3, OutsideLock
  <2>4. QED
    BY <1>7, <2>2, <2>3 DEF Leave
<1>8. CASE \E p \in Participants, requested \in Requested : SendMessage(t, p, requested)
  BY <1>8, OutsideLock DEF SendMessage, CanStart, Suspend, PCs, HookPoints
<1>9. CASE MessageHooksReturn(t)
  BY <1>9, OutsideLock DEF MessageHooksReturn, Resumes, Return, Suspend, PCs
<1>10. CASE \E p \in Participants, c \in Commands : HandleCommand(t, p, c)
  <2>1. PICK p \in Participants, c \in Commands : HandleCommand(t, p, c)
    BY <1>10
  <2>2. pc[t] \notin Inside
    BY <2>1 DEF HandleCommand, CanStart
  <2>3. CASE SwitchMode(t, CommandTarget[c], "command", <<>>)
    BY <2>2, <2>3, SwitchModeLock
  <2>4. CASE CloseConversation(t, CommandOutcome[c], p)
    BY <2>2, <2>4, OutsideLock DEF CloseConversation, Suspend, PCs, HookPoints
  <2>5. QED
    BY <2>1, <2>3, <2>4 DEF HandleCommand
<1>11. CASE \E m \in msgs : EditMessage(t, m) \/ DeleteMessage(t, m)
  BY <1>11, OutsideLock DEF EditMessage, DeleteMessage, CanStart
<1>12. CASE \E name \in TimerNames :
              (\E action \in OnExpire : SetTimer(t, name, action)) \/ CancelTimer(t, name)
  BY <1>12, OutsideLock DEF SetTimer, CancelTimer, CanStart
<1>13. CASE \E name \in TimerNames : TimerExpires(t, name)
  <2>1. PICK name \in TimerNames : TimerExpires(t, name)
    BY <1>13
  <2> DEFINE fired == IF name \in SlaTimers
                      THEN <<Ev("timer.expired"), Ev("sla.breach")>>
                      ELSE <<Ev("timer.expired")>>
  <2>2. pc[t] \notin Inside
    BY <2>1 DEF TimerExpires, CanStart
  <2>3. CASE SwitchMode(t, timers[name], "timer", fired)
    BY <2>2, <2>3, SwitchModeLock
  <2>4. CASE UNCHANGED <<lockq, pc>>
    BY <2>2, <2>4, OutsideLock
  <2>5. CASE Suspend(t, "timer_hook", NoContext) /\ UNCHANGED lockq
    BY <2>2, <2>5, OutsideLock DEF Suspend, PCs, HookPoints
  <2>6. QED
    BY <2>1, <2>3, <2>4, <2>5 DEF TimerExpires
<1>14. CASE HookFails(t)
  BY <1>14, OutsideLock DEF HookFails, HookPoints, ModeLock
<1>15. CASE HooksReturn(t)
  BY <1>15, OutsideLock DEF HooksReturn, Resumes, Return, Suspend, PCs
<1>16. QED
  BY <1>1, <1>2, <1>3, <1>4, <1>5, <1>6, <1>7, <1>8, <1>9, <1>10, <1>11, <1>12,
     <1>13, <1>14, <1>15
  DEF Call, Resume

-----------------------------------------------------------------------------
(* The inductive invariants.  TypeOK needs ModeLock, which says that the   *)
(* queue a lock is passed on from is not empty, and ModeLock needs the     *)
(* types.                                                                  *)

LEMMA InitTyped == Init => TypeOK /\ ModeLock
<1> SUFFICES ASSUME Init PROVE TypeOK /\ ModeLock
  OBVIOUS
<1>1. TypeOK
  <2>1. NoResolution \in Resolutions
    BY DEF NoResolution, Resolutions
  <2>2. NoContext \in Contexts
    BY DEF NoContext, Contexts, Modes
  <2>3. QED
    BY <2>1, <2>2 DEF Init, TypeOK, States, Modes, PCs
<1>2. ModeLock
  BY DEF Init, ModeLock
<1>3. QED
  BY <1>1, <1>2

LEMMA StepTyped == TypeOK /\ ModeLock /\ [Next]_vars => TypeOK' /\ ModeLock'
<1>1. ASSUME TypeOK, ModeLock, Next PROVE TypeOK' /\ ModeLock'
  BY <1>1, NextTyped, NextLock
<1>2. ASSUME TypeOK, ModeLock, UNCHANGED vars PROVE TypeOK' /\ ModeLock'
  BY <1>2 DEF vars, TypeOK, ModeLock
<1>3. QED
  BY <1>1, <1>2

(* Every variable keeps its type, whatever calls interleave.               *)
THEOREM TypeCorrect == Spec => []TypeOK
<1>1. QED
  BY InitTyped, StepTyped, PTL DEF Spec

(* The queue of the mode lock holds exactly the calls inside switch_mode,  *)
(* once each, and only its head announces a change to the hooks: the lock  *)
(* is mutual exclusion, and no path out of switch_mode keeps it.           *)
THEOREM LockCorrect == Spec => []ModeLock
<1>1. QED
  BY InitTyped, StepTyped, PTL DEF Spec

-----------------------------------------------------------------------------
(* Only the holder of the mode lock changes the mode.                      *)

LEMMA SwitchNeedsLock ==
  ASSUME TypeOK, ModeLock, NEW t \in Tasks, NEW u \in Tasks, pc[u] = "mode_hook",
         NEW target, NEW trigger, NEW pre, SwitchMode(t, target, trigger, pre)
  PROVE  mode' = mode
  BY DEF SwitchMode, ModeLock

LEMMA NextModeStable ==
  ASSUME TypeOK, ModeLock, Next, NEW u \in Tasks, pc[u] = "mode_hook",
         incarnation' = incarnation
  PROVE  mode' = mode
<1>1. PICK t \in Tasks : Call(t) \/ Resume(t) \/ HookFails(t)
  BY DEF Next
<1>2. CASE CreateConversation(t)
  BY <1>2 DEF CreateConversation, TypeOK
<1>3. CASE \E score \in Scores : SetCsat(t, score)
  BY <1>3 DEF SetCsat
<1>4. CASE \E p \in Participants :
             Join(t, p) \/ \E requested \in Requested : SendMessage(t, p, requested)
  BY <1>4 DEF Join, SendMessage
<1>5. CASE \E p \in Participants : Leave(t, p)
  BY <1>5, SwitchNeedsLock DEF Leave
<1>6. CASE \E p \in Participants, c \in Commands : HandleCommand(t, p, c)
  BY <1>6, SwitchNeedsLock DEF HandleCommand, CloseConversation
<1>7. CASE \E m \in msgs : EditMessage(t, m) \/ DeleteMessage(t, m)
  BY <1>7 DEF EditMessage, DeleteMessage
<1>8. CASE \E name \in TimerNames :
             (\E action \in OnExpire : SetTimer(t, name, action)) \/ CancelTimer(t, name)
  BY <1>8 DEF SetTimer, CancelTimer
<1>9. CASE \E name \in TimerNames : TimerExpires(t, name)
  BY <1>9, SwitchNeedsLock DEF TimerExpires
<1>10. CASE LockGranted(t)
  BY <1>10 DEF LockGranted, Resumes, ModeLock
<1>11. CASE JoinHooksReturn(t)
  BY <1>11, SwitchNeedsLock DEF JoinHooksReturn
<1>12. CASE ModeHooksReturn(t) \/ MessageHooksReturn(t) \/ HooksReturn(t) \/ HookFails(t)
  BY <1>12 DEF ModeHooksReturn, MessageHooksReturn, HooksReturn, HookFails
<1>13. QED
  BY <1>1, <1>2, <1>3, <1>4, <1>5, <1>6, <1>7, <1>8, <1>9, <1>10, <1>11, <1>12
  DEF Call, Resume

(* While a call announces its mode change to the hooks, no other call      *)
(* changes the mode of that Conversation under it.                         *)
THEOREM ModeHeldWhileAnnounced == Spec => ModeStableWhileAnnounced
<1> DEFINE Step == \A t \in Tasks :
                     pc[t] = "mode_hook" /\ incarnation' = incarnation => mode' = mode
<1>1. TypeOK /\ ModeLock /\ [Next]_vars => [Step]_vars
  BY NextModeStable
<1>2. QED
  BY <1>1, TypeCorrect, LockCorrect, PTL DEF Spec, ModeStableWhileAnnounced

-----------------------------------------------------------------------------
(* The numbers of events.                                                  *)

LEMMA LogDense ==
  ASSUME TypeOK, LogStep, EventsDense
  PROVE  EventsDense'
<1>1. events \in Seq(Events) /\ eseq \in Nat
  BY DEF TypeOK
<1>2. CASE UNCHANGED logVars
  BY <1>2 DEF logVars, EventsDense
<1>3. CASE \E new \in Seq(Events) : Publish(new)
  BY <1>1, <1>3, PublishDense
<1>4. CASE /\ events' = Numbered(<<Ev("conversation.created")>>)
           /\ eseq' = eseq + 1
  <2> DEFINE new == <<Ev("conversation.created")>>
  <2>1. new \in Seq(Events) /\ Len(new) = 1
    BY EvTyped DEF EventTypes
  <2> HIDE DEF new
  <2>2. /\ Numbered(new) \in Seq(Events)
        /\ Len(Numbered(new)) = 1
        /\ \A i \in 1..1 : Numbered(new)[i].n = eseq + i
    BY <1>1, <2>1, NumberedTyped
  <2>3. events' = Numbered(new) /\ eseq' = eseq + 1
    BY <1>4 DEF new
  <2>4. DOMAIN events' = 1..1 /\ Len(events') = 1
    BY <2>2, <2>3
  <2>5. \A i \in 1..1 : events'[i].n = eseq' - Len(events') + i
    <3>1. eseq' - Len(events') = eseq /\ events' = Numbered(new)
      BY <1>1, <2>3, <2>4
    <3>2. QED
      BY <2>2, <3>1
  <2>6. Len(events') <= eseq'
    BY <1>1, <2>3, <2>4
  <2>7. QED
    BY <2>4, <2>5, <2>6 DEF EventsDense
<1>5. QED
  BY <1>2, <1>3, <1>4 DEF LogStep

(* The events of a conversation are numbered without a gap, over any       *)
(* number of re-creations and any interleaving of its calls.               *)
THEOREM LogIsDense == Spec => []EventsDense
<1>1. Init => EventsDense
  BY DEF Init, EventsDense
<1>2. TypeOK /\ ModeLock /\ EventsDense /\ [Next]_vars => EventsDense'
  <2>1. ASSUME TypeOK, ModeLock, EventsDense, Next PROVE EventsDense'
    BY <2>1, NextTyped, LogDense
  <2>2. ASSUME EventsDense, UNCHANGED vars PROVE EventsDense'
    BY <2>2 DEF vars, EventsDense
  <2>3. QED
    BY <2>1, <2>2
<1>3. QED
  BY <1>1, <1>2, TypeCorrect, LockCorrect, PTL DEF Spec

-----------------------------------------------------------------------------
(* Timers of a closed conversation.                                        *)

LEMMA NextNoTimer ==
  ASSUME TypeOK, NoTimerOnClosed, Next, state' = "closed"
  PROVE  \A name \in TimerNames : timers'[name] = Off
<1>1. PICK t \in Tasks : Call(t) \/ Resume(t) \/ HookFails(t)
  BY DEF Next
<1>2. CASE UNCHANGED <<state, timers>>
  BY <1>2 DEF NoTimerOnClosed
<1>3. CASE \E outcome, by : CloseConversation(t, outcome, by)
  BY <1>3 DEF CloseConversation
<1>4. CASE CreateConversation(t)
  BY <1>4 DEF CreateConversation
<1>5. CASE MessageHooksReturn(t)
  BY <1>2, <1>5 DEF MessageHooksReturn
<1>6. CASE \E name \in TimerNames, action \in OnExpire : SetTimer(t, name, action)
  BY <1>6 DEF SetTimer
<1>7. CASE \E name \in TimerNames : CancelTimer(t, name) \/ TimerExpires(t, name)
  <2>1. PICK name \in TimerNames :
          timers' = [timers EXCEPT ![name] = Off] /\ UNCHANGED state
    BY <1>7 DEF CancelTimer, TimerExpires
  <2>2. QED
    BY <2>1 DEF NoTimerOnClosed, TypeOK
<1>8. CASE \E p \in Participants, c \in Commands : HandleCommand(t, p, c)
  BY <1>2, <1>3, <1>8 DEF HandleCommand
<1>9. CASE \/ \E score \in Scores : SetCsat(t, score)
           \/ \E p \in Participants : Join(t, p) \/ Leave(t, p)
           \/ \E p \in Participants, requested \in Requested : SendMessage(t, p, requested)
           \/ \E m \in msgs : EditMessage(t, m) \/ DeleteMessage(t, m)
  BY <1>2, <1>9 DEF SetCsat, Join, Leave, SendMessage, EditMessage, DeleteMessage
<1>10. CASE LockGranted(t) \/ ModeHooksReturn(t) \/ JoinHooksReturn(t) \/ HooksReturn(t)
            \/ HookFails(t)
  BY <1>2, <1>10 DEF LockGranted, ModeHooksReturn, JoinHooksReturn, HooksReturn, HookFails
<1>11. QED
  BY <1>1, <1>4, <1>5, <1>6, <1>7, <1>8, <1>9, <1>10 DEF Call, Resume

(* A closed conversation never has a timer left, whatever set_timer,       *)
(* expiry, close and re-creation do around it.                             *)
THEOREM ClosedHasNoTimer == Spec => []NoTimerOnClosed
<1>1. Init => NoTimerOnClosed
  BY DEF Init, NoTimerOnClosed
<1>2. TypeOK /\ NoTimerOnClosed /\ [Next]_vars => NoTimerOnClosed'
  <2>1. ASSUME TypeOK, NoTimerOnClosed, Next PROVE NoTimerOnClosed'
    BY <2>1, NextNoTimer DEF NoTimerOnClosed
  <2>2. ASSUME NoTimerOnClosed, UNCHANGED vars PROVE NoTimerOnClosed'
    BY <2>2 DEF vars, NoTimerOnClosed
  <2>3. QED
    BY <2>1, <2>2
<1>3. QED
  BY <1>1, <1>2, TypeCorrect, PTL DEF Spec

-----------------------------------------------------------------------------
(* Messages.                                                               *)

(* The strengthening GateIrreversible needs: a number names one message,   *)
(* and a number not given yet names none.                                  *)
MessageIds == /\ \A m \in msgs : m.n <= seq
              /\ \A m, k \in msgs : m.n = k.n => m = k

(* What a step may do to the messages.                                     *)
NewMessage == /\ seq' = seq + 1
              /\ \E m \in Messages : m.n = seq + 1 /\ msgs' = msgs \union {m}
MessageStep == \/ UNCHANGED <<msgs, seq>>
               \/ msgs' = {} /\ UNCHANGED seq
               \/ NewMessage
               \/ \E m \in msgs : /\ msgs' = (msgs \ {m}) \union {[m EXCEPT !.edited = TRUE]}
                                  /\ UNCHANGED seq
               \/ \E m \in msgs : msgs' = msgs \ {m} /\ UNCHANGED seq

LEMMA NextMessages ==
  ASSUME TypeOK, Next
  PROVE  MessageStep
<1>1. PICK t \in Tasks : Call(t) \/ Resume(t) \/ HookFails(t)
  BY DEF Next
<1>2. CASE UNCHANGED <<msgs, seq>>
  BY <1>2 DEF MessageStep
<1>3. CASE CreateConversation(t)
  BY <1>3 DEF CreateConversation, MessageStep
<1>4. CASE \E p \in Participants, requested \in Requested : SendMessage(t, p, requested)
  <2>1. PICK p \in Participants, requested \in Requested : SendMessage(t, p, requested)
    BY <1>4
  <2> DEFINE vis == ApplyGate(mode, Role[p], requested)
             msg == [n |-> seq + 1, src |-> p, vis |-> vis, edited |-> FALSE]
  <2>2. vis \in Visibilities
    BY EngineAssumption DEF ApplyGate, Visibilities
  <2>3. msg \in Messages /\ msg.n = seq + 1
    BY <2>2 DEF TypeOK, Messages
  <2>4. msgs' = msgs \union {msg} /\ seq' = seq + 1
    BY <2>1 DEF SendMessage
  <2>5. QED
    BY <2>3, <2>4 DEF MessageStep, NewMessage
<1>5. CASE \E m \in msgs : EditMessage(t, m)
  BY <1>5 DEF EditMessage, MessageStep
<1>6. CASE \E m \in msgs : DeleteMessage(t, m)
  BY <1>6 DEF DeleteMessage, MessageStep
<1>7. CASE \E name \in TimerNames : TimerExpires(t, name)
  <2> DEFINE msg == [n |-> seq + 1, src |-> System, vis |-> "system", edited |-> FALSE]
  <2>1. msg \in Messages /\ msg.n = seq + 1
    BY DEF TypeOK, Messages, Visibilities
  <2>2. CASE seq' = seq + 1 /\ msgs' = msgs \union {msg}
    BY <2>1, <2>2 DEF MessageStep, NewMessage
  <2>3. QED
    BY <1>2, <1>7, <2>2 DEF TimerExpires
<1>8. CASE \E p \in Participants, c \in Commands : HandleCommand(t, p, c)
  BY <1>2, <1>8 DEF HandleCommand, CloseConversation
<1>9. CASE \/ \E score \in Scores : SetCsat(t, score)
           \/ \E p \in Participants : Join(t, p) \/ Leave(t, p)
           \/ \E name \in TimerNames :
                (\E action \in OnExpire : SetTimer(t, name, action)) \/ CancelTimer(t, name)
  BY <1>2, <1>9 DEF SetCsat, Join, Leave, SetTimer, CancelTimer
<1>10. CASE Resume(t) \/ HookFails(t)
  BY <1>2, <1>10
  DEF Resume, LockGranted, ModeHooksReturn, JoinHooksReturn, MessageHooksReturn,
      HooksReturn, HookFails
<1>11. QED
  BY <1>1, <1>3, <1>4, <1>5, <1>6, <1>7, <1>8, <1>9, <1>10 DEF Call

(* No edit, deletion, new message or re-creation changes the visibility    *)
(* under a number, and none gives a number to two messages.                *)
LEMMA MessageStepKeeps ==
  ASSUME TypeOK, MessageIds, MessageStep
  PROVE  /\ MessageIds'
         /\ \A m \in msgs, k \in msgs' : m.n = k.n => k.vis = m.vis
<1>1. \A m \in msgs : m \in Messages /\ m.n \in Nat
  BY DEF TypeOK, Messages
<1>2. seq \in Nat
  BY DEF TypeOK
<1>3. CASE NewMessage
  <2>1. PICK new \in Messages : new.n = seq + 1 /\ msgs' = msgs \union {new} /\ seq' = seq + 1
    BY <1>3 DEF NewMessage
  <2>2. \A m \in msgs : m.n # new.n
    BY <1>1, <1>2, <2>1 DEF MessageIds
  <2>3. QED
    BY <1>1, <1>2, <2>1, <2>2 DEF MessageIds
<1>4. CASE \E m \in msgs : /\ msgs' = (msgs \ {m}) \union {[m EXCEPT !.edited = TRUE]}
                           /\ UNCHANGED seq
  <2>1. PICK m \in msgs : /\ msgs' = (msgs \ {m}) \union {[m EXCEPT !.edited = TRUE]}
                          /\ UNCHANGED seq
    BY <1>4
  <2> DEFINE new == [m EXCEPT !.edited = TRUE]
  <2>2. new.n = m.n /\ new.vis = m.vis
    BY <1>1 DEF Messages
  <2> HIDE DEF new
  <2>3. msgs' = (msgs \ {m}) \union {new}
    BY <2>1 DEF new
  <2>4. QED
    BY <1>1, <1>2, <2>1, <2>2, <2>3 DEF MessageIds
<1>5. CASE UNCHANGED seq /\ msgs' \subseteq msgs
  BY <1>5 DEF MessageIds
<1>6. QED
  BY <1>3, <1>4, <1>5 DEF MessageStep

(* A message that the gate lowered, or that was sent to the side, is never *)
(* shown to the public later.                                              *)
THEOREM GateNeverUndone == Spec => GateIrreversible
<1> DEFINE Step == \A m \in msgs, k \in msgs' : m.n = k.n /\ m.vis # "public"
                     => k.vis = m.vis
<1>1. Init => MessageIds
  BY DEF Init, MessageIds
<1>2. TypeOK /\ MessageIds /\ [Next]_vars => MessageIds' /\ [Step]_vars
  <2>1. ASSUME TypeOK, MessageIds, Next PROVE MessageIds' /\ Step
    BY <2>1, NextMessages, MessageStepKeeps
  <2>2. ASSUME MessageIds, UNCHANGED vars PROVE MessageIds' /\ [Step]_vars
    BY <2>2 DEF vars, MessageIds
  <2>3. QED
    BY <2>1, <2>2
<1>3. QED
  BY <1>1, <1>2, TypeCorrect, PTL DEF Spec, GateIrreversible

-----------------------------------------------------------------------------
(* What the log says.                                                      *)

(* A report about message n has its place in the log as it is.             *)
Placeable(n) == n <= seq /\ (Announced(n, Len(events)) \/ OfEarlierLife(n))

(* The invariant: besides LogIsFaithful, the numbers of messages stay      *)
(* below the counter; a call at the hooks of message.sent may still report *)
(* a downgrade; and there are participants and messages only after the     *)
(* first create.                                                           *)
LogInv ==
  /\ LogIsFaithful
  /\ MessageIds
  /\ \A i \in DOMAIN events : events[i].type \in {"message.sent", "message.gated"} => events[i].msg <= seq
  /\ \A t \in Tasks : pc[t] = "message_hook" => Placeable(ctx[t].msg)
  /\ state # "none" \/ parts # {} \/ (\E t \in Tasks : pc[t] = "message_hook") => incarnation > 0

(* The published events leave the log of before alone.                     *)
LEMMA LogGrows ==
  ASSUME TypeOK, NEW new \in Seq(Events), Publish(new)
  PROVE  /\ Len(events) \in Nat /\ Len(new) \in Nat
         /\ DOMAIN events = 1..Len(events) /\ DOMAIN new = 1..Len(new)
         /\ Len(events') = Len(events) + Len(new) /\ DOMAIN events' = 1..(Len(events) + Len(new))
         /\ \A i \in 1..Len(events) : events'[i] = events[i]
         /\ \A i \in 1..Len(new) : /\ events'[Len(events) + i].type = new[i].type
                                   /\ events'[Len(events) + i].msg = new[i].msg
                                   /\ events'[Len(events) + i].old = new[i].old
                                   /\ events'[Len(events) + i].new = new[i].new
<1>1. events \in Seq(Events) /\ eseq \in Nat
  BY DEF TypeOK
<1>2. /\ Numbered(new) \in Seq(Events) /\ Len(Numbered(new)) = Len(new)
      /\ events' = events \o Numbered(new)
  BY <1>1, NumberedTyped DEF Publish
<1>3. /\ Len(events) \in Nat /\ Len(new) \in Nat
      /\ DOMAIN events = 1..Len(events) /\ DOMAIN new = 1..Len(new)
  BY <1>1
<1>4. /\ Len(events') = Len(events) + Len(new)
      /\ DOMAIN events' = 1..(Len(events) + Len(new))
      /\ \A i \in 1..Len(events) : events'[i] = events[i]
      /\ \A i \in 1..Len(new) : events'[Len(events) + i] = Numbered(new)[i]
  <2> DEFINE num == Numbered(new)
  <2>1. num \in Seq(Events) /\ Len(num) = Len(new) /\ events' = events \o num
    BY <1>2
  <2> HIDE DEF num
  <2>2. /\ Len(events \o num) = Len(events) + Len(num)
        /\ \A i \in 1..(Len(events) + Len(num)) :
             (events \o num)[i] = IF i <= Len(events) THEN events[i] ELSE num[i - Len(events)]
    BY <1>1, <2>1, ConcatProperties
  <2>3. events' \in Seq(Events)
    BY <1>1, <2>1
  <2>4. \A i \in 1..Len(events) : events'[i] = events[i]
    BY <1>3, <2>1, <2>2
  <2>5. ASSUME NEW i \in 1..Len(new) PROVE events'[Len(events) + i] = num[i]
    <3>1. /\ Len(events) + i \in 1..(Len(events) + Len(num)) /\ ~ (Len(events) + i <= Len(events))
          /\ (Len(events) + i) - Len(events) = i
      BY <1>3, <2>1
    <3> QED
      BY <2>1, <2>2, <3>1
  <2> QED
    BY <1>3, <2>1, <2>2, <2>3, <2>4, <2>5 DEF num
<1>5. ASSUME NEW i \in 1..Len(new)
      PROVE  /\ Numbered(new)[i].type = new[i].type /\ Numbered(new)[i].msg = new[i].msg
             /\ Numbered(new)[i].old = new[i].old /\ Numbered(new)[i].new = new[i].new
  <2>1. new[i] \in Events
    BY <1>3
  <2>2. Numbered(new)[i] = [new[i] EXCEPT !.n = eseq + i]
    BY DEF Numbered
  <2> QED
    BY <2>1, <2>2 DEF Events
<1> QED
  BY <1>3, <1>4, <1>5

(* What published events may say of the mode, of messages, of downgrades.  *)
OnlyLast(new, type) == \A i \in DOMAIN new : new[i].type = type <=> i = Len(new)
Without(new, type) == \A i \in DOMAIN new : new[i].type # type

OfMode(new) ==
  \/ Without(new, "mode.changed") /\ mode' = mode
  \/ /\ Len(new) > 0 /\ OnlyLast(new, "mode.changed")
     /\ new[Len(new)].old = mode /\ new[Len(new)].new = mode'

OfMessages(new) ==
  \/ /\ Without(new, "message.sent") /\ seq' = seq
     /\ \A m \in msgs' : \E k \in msgs : k.n = m.n
  \/ /\ Len(new) > 0 /\ OnlyLast(new, "message.sent")
     /\ new[Len(new)].msg = seq + 1 /\ seq' = seq + 1
     /\ \A m \in msgs' : m.n = seq + 1 \/ \E k \in msgs : k.n = m.n

OfReports(new) == \A i \in DOMAIN new : new[i].type = "message.gated" => Placeable(new[i].msg)

LEMMA ChainGrows ==
  ASSUME TypeOK, ModeChain, NEW new \in Seq(Events), Publish(new), OfMode(new)
  PROVE  ModeChain'
<1> DEFINE L == Len(events)
<1>1. /\ L \in Nat /\ Len(new) \in Nat /\ DOMAIN events = 1..L /\ DOMAIN new = 1..Len(new)
      /\ Len(events') = L + Len(new) /\ DOMAIN events' = 1..(L + Len(new))
      /\ \A i \in 1..L : events'[i] = events[i]
      /\ \A i \in 1..Len(new) : /\ events'[L + i].type = new[i].type
                                /\ events'[L + i].old = new[i].old
                                /\ events'[L + i].new = new[i].new
  BY LogGrows
<1> HIDE DEF L
<1>2. \A i \in ModeChanges' : i \in ModeChanges \/ (i > L /\ i - L \in 1..Len(new) /\ new[i - L].type = "mode.changed")
  <2> SUFFICES ASSUME NEW i \in ModeChanges', i \notin ModeChanges
               PROVE  i > L /\ i - L \in 1..Len(new) /\ new[i - L].type = "mode.changed"
    OBVIOUS
  <2>1. i \in 1..(L + Len(new)) /\ events'[i].type = "mode.changed"
    BY <1>1 DEF ModeChanges
  <2>2. i > L
    BY <1>1, <2>1 DEF ModeChanges
  <2>3. i - L \in 1..Len(new) /\ L + (i - L) = i
    BY <1>1, <2>1, <2>2
  <2>4. events'[L + (i - L)].type = new[i - L].type
    BY <1>1, <2>3
  <2> QED
    BY <2>1, <2>2, <2>3, <2>4
<1>3. \A i \in ModeChanges : i \in ModeChanges' /\ i \in 1..L /\ events'[i] = events[i]
  BY <1>1 DEF ModeChanges
<1> DEFINE After(k, m) == \/ m = "auto" /\ \A i \in ModeChanges' : i > k
                          \/ \E j \in ModeChanges' : /\ j <= k /\ events'[j].new = m
                                                     /\ \A i \in ModeChanges' : i <= j \/ i > k
<1>4. ASSUME NEW k \in 0..L, NEW m, ModeAfter(k, m), \A i \in ModeChanges' : i \in ModeChanges \/ i > k
      PROVE  After(k, m)
  BY <1>3, <1>4 DEF ModeAfter
<1>5. ASSUME NEW i \in ModeChanges PROVE After(i - 1, events'[i].old)
  <2>1. i \in 1..L /\ i - 1 \in 0..L /\ ModeAfter(i - 1, events[i].old)
    BY <1>1, <1>3 DEF ModeChain
  <2>2. ASSUME NEW l \in ModeChanges' PROVE l \in ModeChanges \/ l > i - 1
    <3>1. l \in ModeChanges \/ (l > L /\ l - L \in 1..Len(new))
      BY <1>2
    <3>2. l \in 1..(L + Len(new))
      BY <1>1 DEF ModeChanges
    <3> QED
      BY <1>1, <2>1, <3>1, <3>2
  <2>3. events'[i] = events[i]
    BY <1>3
  <2> HIDE DEF After
  <2> QED
    BY <1>4, <2>1, <2>2, <2>3
<1>6. ASSUME After(Len(events'), mode'), \A i \in ModeChanges' : After(i - 1, events'[i].old)
      PROVE  ModeChain'
  BY <1>6 DEF ModeChain, ModeAfter
<1>7. CASE Without(new, "mode.changed") /\ mode' = mode
  <2>1. ModeChanges' = ModeChanges
    BY <1>1, <1>2, <1>3, <1>7 DEF Without
  <2>2. \A i \in ModeChanges : i <= L /\ i \in Nat
    BY <1>1, <1>3
  <2>3. ModeAfter(L, mode)
    BY DEF ModeChain, L
  <2>4. After(Len(events'), mode')
    BY <1>1, <1>3, <1>7, <2>1, <2>2, <2>3 DEF ModeAfter
  <2> QED
    BY <1>5, <1>6, <2>1, <2>4
<1>8. CASE /\ Len(new) > 0 /\ OnlyLast(new, "mode.changed")
           /\ new[Len(new)].old = mode /\ new[Len(new)].new = mode'
  <2>1. PICK z \in Nat : z = L + Len(new)
    BY <1>1
  <2>2. z \in ModeChanges' /\ events'[z].old = mode /\ events'[z].new = mode' /\ Len(events') = z
    BY <1>1, <1>8, <2>1 DEF ModeChanges, OnlyLast
  <2>3. ASSUME NEW i \in ModeChanges' PROVE i \in ModeChanges \/ i = z
    <3>1. i \in ModeChanges \/ (i - L \in 1..Len(new) /\ new[i - L].type = "mode.changed")
      BY <1>2
    <3>2. i \in 1..(L + Len(new))
      BY <1>1 DEF ModeChanges
    <3>3. CASE i - L \in 1..Len(new) /\ new[i - L].type = "mode.changed"
      <4>1. i - L = Len(new)
        BY <1>1, <1>8, <3>3 DEF OnlyLast
      <4> QED
        BY <1>1, <2>1, <3>2, <4>1
    <3> QED
      BY <3>1, <3>3
  <2>4. \A i \in ModeChanges : i < z /\ i \in Nat /\ i <= L /\ i <= z - 1
    BY <1>1, <1>3, <1>8, <2>1
  <2>5. After(Len(events'), mode')
    BY <2>2, <2>3, <2>4
  <2>6. After(z - 1, mode)
    <3>1. ModeAfter(L, mode)
      BY DEF ModeChain, L
    <3>2. CASE mode = "auto" /\ \A i \in ModeChanges : i > L
      <4>1. \A i \in ModeChanges' : i = z
        BY <1>1, <2>3, <2>4, <3>2
      <4> QED
        BY <3>2, <4>1
    <3>3. CASE \E j \in ModeChanges : /\ j <= L /\ events[j].new = mode
                                      /\ \A i \in ModeChanges : i <= j \/ i > L
      <4>1. PICK j \in ModeChanges : /\ j <= L /\ events[j].new = mode
                                     /\ \A i \in ModeChanges : i <= j \/ i > L
        BY <3>3
      <4>2. j \in ModeChanges' /\ events'[j].new = mode /\ j <= z - 1
        BY <1>3, <2>4, <4>1
      <4>3. \A i \in ModeChanges' : i <= j \/ i > z - 1
        BY <1>1, <2>3, <2>4, <4>1
      <4> QED
        BY <4>2, <4>3
    <3> QED
      BY <3>1, <3>2, <3>3 DEF ModeAfter
  <2>7. \A i \in ModeChanges' : After(i - 1, events'[i].old)
    <3> HIDE DEF After
    <3> QED
      BY <1>5, <2>2, <2>3, <2>6
  <2> HIDE DEF After
  <2> QED
    BY <1>6, <2>5, <2>7
<1> QED
  BY <1>7, <1>8 DEF OfMode

LEMMA MessagesGrow ==
  ASSUME TypeOK, LogInv, NEW new \in Seq(Events), Publish(new), OfMessages(new),
         \A i \in DOMAIN new : new[i].type = "message.gated" => new[i].msg <= seq
  PROVE  /\ LogAccountsForMessages'
         /\ \A i \in DOMAIN events' : events'[i].type \in {"message.sent", "message.gated"} => events'[i].msg <= seq'
<1> DEFINE L == Len(events)
<1>1. /\ L \in Nat /\ Len(new) \in Nat /\ DOMAIN events = 1..L /\ DOMAIN new = 1..Len(new)
      /\ Len(events') = L + Len(new) /\ DOMAIN events' = 1..(L + Len(new))
      /\ \A i \in 1..L : events'[i] = events[i]
      /\ \A i \in 1..Len(new) : events'[L + i].type = new[i].type /\ events'[L + i].msg = new[i].msg
  BY LogGrows
<1> HIDE DEF L
<1>2. ASSUME NEW i \in DOMAIN events'
      PROVE  \/ i \in 1..L
             \/ \E k \in 1..Len(new) : i = L + k
  <2>1. CASE i > L
    <3>1. i - L \in 1..Len(new) /\ i = L + (i - L)
      BY <1>1, <2>1
    <3> QED
      BY <3>1
  <2> QED
    BY <1>1, <2>1
<1>3. seq \in Nat /\ (\A i \in 1..L : events[i] \in Events /\ events[i].msg \in Nat)
  <2>1. seq \in Nat /\ events \in Seq(Events)
    BY DEF TypeOK
  <2>2. \A i \in 1..L : events[i] \in Events
    BY <1>1, <2>1
  <2> QED
    BY <2>1, <2>2, EventTyped
<1>4. \A i \in 1..L : events[i].type \in {"message.sent", "message.gated"} => events[i].msg <= seq
  BY <1>1 DEF LogInv
<1>5. /\ \A m \in msgs : \E i \in SentEvents : events[i].msg = m.n
      /\ \A i, j \in SentEvents : i < j => events[i].msg < events[j].msg
  BY DEF LogInv, LogIsFaithful, LogAccountsForMessages
<1>6. \A i \in SentEvents : i \in 1..L /\ i \in SentEvents' /\ events'[i] = events[i]
  BY <1>1 DEF SentEvents
<1>7. CASE /\ Without(new, "message.sent") /\ seq' = seq
           /\ \A m \in msgs' : \E k \in msgs : k.n = m.n
  <2>1. SentEvents' = SentEvents
    BY <1>1, <1>2, <1>6, <1>7 DEF SentEvents, Without
  <2>2. LogAccountsForMessages'
    BY <1>5, <1>6, <1>7, <2>1 DEF LogAccountsForMessages
  <2>3. ASSUME NEW i \in DOMAIN events', events'[i].type \in {"message.sent", "message.gated"}
        PROVE  events'[i].msg <= seq'
    <3>1. CASE i \in 1..L
      <4>1. events'[i] = events[i] /\ events[i].msg <= seq
        BY <1>1, <1>4, <2>3, <3>1
      <4> QED
        BY <1>7, <4>1
    <3>2. CASE \E k \in 1..Len(new) : i = L + k
      <4>1. PICK k \in 1..Len(new) : i = L + k
        BY <3>2
      <4>2. events'[i].type = new[k].type /\ events'[i].msg = new[k].msg
        BY <1>1, <4>1
      <4>3. new[k].type = "message.gated"
        BY <1>1, <1>7, <2>3, <4>2 DEF Without
      <4>4. new[k].msg <= seq
        BY <1>1, <4>3
      <4> QED
        BY <1>7, <4>2, <4>4
    <3> QED
      BY <1>2, <3>1, <3>2
  <2> QED
    BY <2>2, <2>3
<1>8. CASE /\ Len(new) > 0 /\ OnlyLast(new, "message.sent")
           /\ new[Len(new)].msg = seq + 1 /\ seq' = seq + 1
           /\ \A m \in msgs' : m.n = seq + 1 \/ \E k \in msgs : k.n = m.n
  <2>1. PICK z \in Nat : z = L + Len(new)
    BY <1>1
  <2>2. z \in SentEvents' /\ events'[z].msg = seq + 1
    BY <1>1, <1>8, <2>1 DEF SentEvents, OnlyLast
  <2>3. ASSUME NEW i \in SentEvents' PROVE i \in SentEvents \/ i = z
    <3>1. i \in DOMAIN events' /\ events'[i].type = "message.sent"
      BY DEF SentEvents
    <3>2. CASE i \in 1..L
      BY <1>1, <3>1, <3>2 DEF SentEvents
    <3>3. CASE \E k \in 1..Len(new) : i = L + k
      BY <1>1, <1>8, <2>1, <3>1, <3>3 DEF OnlyLast
    <3> QED
      BY <1>2, <3>1, <3>2, <3>3
  <2>4. ASSUME NEW i \in SentEvents
        PROVE  /\ i < z /\ i \in Nat /\ events'[i].msg = events[i].msg
               /\ events[i].msg < seq + 1
    <3>1. i \in 1..L /\ events'[i] = events[i] /\ events[i].type = "message.sent"
      BY <1>6 DEF SentEvents
    <3> QED
      BY <1>1, <1>3, <1>4, <1>8, <2>1, <3>1
  <2>5. \A i, j \in SentEvents' : i < j => events'[i].msg < events'[j].msg
    BY <1>5, <2>1, <2>2, <2>3, <2>4
  <2>6. \A m \in msgs' : \E i \in SentEvents' : events'[i].msg = m.n
    BY <1>5, <1>6, <1>8, <2>2
  <2>7. ASSUME NEW i \in DOMAIN events', events'[i].type \in {"message.sent", "message.gated"}
        PROVE  events'[i].msg <= seq'
    <3>1. CASE i \in 1..L
      BY <1>1, <1>3, <1>4, <1>8, <2>7, <3>1
    <3>2. CASE \E k \in 1..Len(new) : i = L + k
      <4>1. PICK k \in 1..Len(new) : i = L + k
        BY <3>2
      <4>2. events'[i].type = new[k].type /\ events'[i].msg = new[k].msg /\ new[k] \in Events /\ new[k].msg \in Nat
        <5>1. new[k] \in Events
          BY <1>1
        <5> QED
          BY <1>1, <4>1, <5>1, EventTyped
      <4>3. CASE new[k].type = "message.sent"
        <5>1. k = Len(new)
          BY <1>1, <1>8, <4>3 DEF OnlyLast
        <5>2. events'[i].msg = seq + 1
          BY <1>8, <4>2, <5>1
        <5> QED
          BY <1>3, <1>8, <5>2
      <4>4. CASE new[k].type = "message.gated"
        <5>1. new[k].msg <= seq
          BY <1>1, <4>4
        <5>2. events'[i].msg \in Nat /\ events'[i].msg <= seq
          BY <4>2, <5>1
        <5> QED
          BY ONLY <1>3, <1>8, <5>2
      <4> QED
        BY <2>7, <4>2, <4>3, <4>4
    <3> QED
      BY <1>2, <3>1, <3>2
  <2> QED
    BY <2>5, <2>6, <2>7 DEF LogAccountsForMessages
<1> QED
  BY <1>7, <1>8 DEF OfMessages

LEMMA PlaceKept ==
  ASSUME TypeOK, NEW new \in Seq(Events), Publish(new), OfMessages(new), incarnation' = incarnation,
         NEW n \in Nat, Placeable(n)
  PROVE  /\ Placeable(n)'
         /\ \A k \in Nat : Len(events) <= k => Announced(n, k)' \/ OfEarlierLife(n)'
<1> DEFINE L == Len(events)
<1>1. /\ L \in Nat /\ Len(new) \in Nat /\ DOMAIN events = 1..L /\ DOMAIN new = 1..Len(new)
      /\ Len(events') = L + Len(new) /\ DOMAIN events' = 1..(L + Len(new))
      /\ \A i \in 1..L : events'[i] = events[i]
      /\ \A i \in 1..Len(new) : events'[L + i].type = new[i].type /\ events'[L + i].msg = new[i].msg
  BY LogGrows
<1>2. seq \in Nat /\ n <= seq /\ n <= seq'
  BY DEF TypeOK, Placeable, OfMessages
<1> HIDE DEF L
<1>3. ASSUME Announced(n, L), NEW k \in Nat, L <= k PROVE Announced(n, k)'
  <2>1. PICK j \in SentEvents : j <= L /\ events[j].msg = n
    BY <1>3 DEF Announced
  <2>2. j \in 1..L /\ events'[j] = events[j] /\ j \in SentEvents' /\ j <= k
    BY <1>1, <1>3, <2>1 DEF SentEvents
  <2> QED
    BY <2>1, <2>2 DEF Announced
<1>4. ASSUME OfEarlierLife(n) PROVE OfEarlierLife(n)'
  <2>1. incarnation' > 1
    BY <1>4 DEF OfEarlierLife
  <2>2. ASSUME NEW j \in SentEvents' PROVE events'[j].msg > n
    <3>1. j \in 1..(L + Len(new)) /\ events'[j].type = "message.sent"
      BY <1>1 DEF SentEvents
    <3>2. CASE j <= L
      <4>1. j \in SentEvents /\ events'[j] = events[j]
        BY <1>1, <3>1, <3>2 DEF SentEvents
      <4> QED
        BY <1>4, <4>1 DEF OfEarlierLife
    <3>3. CASE j > L
      <4>1. PICK i \in 1..Len(new) : j = L + i
        <5>1. j - L \in 1..Len(new) /\ j = L + (j - L)
          BY <1>1, <3>1, <3>3
        <5> QED
          BY <5>1
      <4>2. new[i].type = "message.sent" /\ events'[j].msg = new[i].msg
        BY <1>1, <3>1, <4>1
      <4>3. new[i].msg = seq + 1
        BY <1>1, <4>1, <4>2 DEF OfMessages, Without, OnlyLast
      <4> QED
        BY <1>2, <4>2, <4>3
    <3> QED
      BY <1>1, <3>1, <3>2, <3>3
  <2> QED
    BY <2>1, <2>2 DEF OfEarlierLife
<1>5. Announced(n, L) \/ OfEarlierLife(n)
  BY DEF Placeable, L
<1>6. \A k \in Nat : L <= k => Announced(n, k)' \/ OfEarlierLife(n)'
  BY <1>3, <1>4, <1>5
<1>7. PICK z \in Nat : z = Len(events') /\ L <= z
  BY <1>1
<1>8. Announced(n, Len(events))' \/ OfEarlierLife(n)'
  <2>1. Announced(n, z)' => Announced(n, Len(events))'
    BY <1>7 DEF Announced
  <2> QED
    BY <1>6, <1>7, <2>1
<1> QED
  BY <1>2, <1>6, <1>8 DEF Placeable, L

LEMMA ReportsGrow ==
  ASSUME TypeOK, LogInv, NEW new \in Seq(Events), Publish(new), OfMessages(new), OfReports(new),
         incarnation' = incarnation
  PROVE  GatedAfterSent'
<1> DEFINE L == Len(events)
<1>1. /\ L \in Nat /\ Len(new) \in Nat /\ DOMAIN events = 1..L /\ DOMAIN new = 1..Len(new)
      /\ Len(events') = L + Len(new) /\ DOMAIN events' = 1..(L + Len(new))
      /\ \A i \in 1..L : events'[i] = events[i]
      /\ \A i \in 1..Len(new) : events'[L + i].type = new[i].type /\ events'[L + i].msg = new[i].msg
  BY LogGrows
<1> HIDE DEF L
<1>2. SUFFICES ASSUME NEW i \in DOMAIN events', events'[i].type = "message.gated"
               PROVE  Announced(events[i].msg, i - 1)' \/ OfEarlierLife(events[i].msg)'
  BY DEF GatedAfterSent
<1>3. i \in 1..(L + Len(new))
  BY <1>1
<1>4. CASE i <= L
  <2>1. i \in DOMAIN events /\ events'[i] = events[i] /\ events[i] \in Events /\ events[i].msg \in Nat
    <3>1. events \in Seq(Events) /\ i \in 1..L
      BY <1>1, <1>3, <1>4 DEF TypeOK
    <3>2. events[i] \in Events
      BY <1>1, <3>1
    <3> QED
      BY <1>1, <3>1, <3>2, EventTyped
  <2>2. events[i].msg <= seq /\ (Announced(events[i].msg, i - 1) \/ OfEarlierLife(events[i].msg))
    BY <1>2, <2>1 DEF LogInv, LogIsFaithful, GatedAfterSent
  <2>3. PICK n \in Nat : n = events[i].msg
    BY <2>1
  <2>4. CASE Announced(n, i - 1)
    <3>1. PICK j \in SentEvents : j <= i - 1 /\ events[j].msg = n
      BY <2>4 DEF Announced
    <3>2. j \in SentEvents' /\ events'[j] = events[j]
      BY <1>1, <3>1 DEF SentEvents
    <3> QED
      BY <2>1, <2>3, <3>1, <3>2 DEF Announced
  <2>5. CASE OfEarlierLife(n)
    <3>1. Placeable(n)
      BY <2>2, <2>3, <2>5 DEF Placeable
    <3> PICK l \in Nat : l = L
      BY <1>1
    <3>2. Announced(n, l)' \/ OfEarlierLife(n)'
      BY <3>1, PlaceKept DEF L
    <3>3. CASE Announced(n, l)'
      <4>1. PICK j \in SentEvents' : j <= L /\ events'[j].msg = n
        BY <3>3 DEF Announced
      <4>2. j \in SentEvents /\ events'[j] = events[j]
        BY <1>1, <4>1 DEF SentEvents
      <4>3. n > n
        BY <2>5, <4>1, <4>2 DEF OfEarlierLife
      <4> QED
        BY <4>3
    <3> QED
      BY <2>1, <2>3, <3>2, <3>3 DEF OfEarlierLife
  <2> QED
    BY <2>2, <2>3, <2>4, <2>5
<1>5. CASE i > L
  <2>1. PICK k \in 1..Len(new) : i = L + k
    <3>1. i - L \in 1..Len(new) /\ i = L + (i - L)
      BY <1>1, <1>3, <1>5
    <3> QED
      BY <3>1
  <2>2. events'[i].msg = new[k].msg /\ new[k].type = "message.gated" /\ new[k] \in Events /\ new[k].msg \in Nat
    <3>1. new[k] \in Events
      BY <1>1
    <3> QED
      BY <1>1, <1>2, <2>1, <3>1, EventTyped
  <2>3. PICK n \in Nat : n = new[k].msg
    BY <2>2
  <2>4. Placeable(n)
    BY <1>1, <2>2, <2>3 DEF OfReports
  <2>5. i - 1 \in Nat /\ L <= i - 1
    BY <1>1, <2>1
  <2>6. Announced(n, i - 1)' \/ OfEarlierLife(n)'
    BY <2>4, <2>5, PlaceKept DEF L
  <2> QED
    BY <2>2, <2>3, <2>6 DEF Announced, OfEarlierLife
<1> QED
  BY <1>1, <1>3, <1>4, <1>5

(* A step that publishes new in the life the conversation has.             *)
LogMove(new) ==
  /\ Publish(new) /\ OfMode(new) /\ OfMessages(new) /\ OfReports(new)
  /\ incarnation' = incarnation
  /\ \A u \in Tasks : pc'[u] = "message_hook" =>
       \/ pc[u] = "message_hook" /\ ctx'[u] = ctx[u]
       \/ ctx'[u].msg = seq + 1 /\ Len(new) > 0 /\ OnlyLast(new, "message.sent")

LEMMA MoveKeepsPlaces ==
  ASSUME TypeOK, LogInv, NEW new \in Seq(Events), LogMove(new),
         NEW u \in Tasks, pc'[u] = "message_hook"
  PROVE  Placeable(ctx[u].msg)'
<1>1. Publish(new) /\ OfMessages(new) /\ incarnation' = incarnation
  BY DEF LogMove
<1>2. CASE pc[u] = "message_hook" /\ ctx'[u] = ctx[u]
  <2>1. Placeable(ctx[u].msg) /\ ctx[u].msg \in Nat
    BY <1>2 DEF LogInv, TypeOK, Contexts
  <2>2. PICK n \in Nat : n = ctx[u].msg
    BY <2>1
  <2>3. Placeable(n)'
    BY <1>1, <2>1, <2>2, PlaceKept
  <2> QED
    BY <1>2, <2>2, <2>3 DEF Placeable, Announced, OfEarlierLife
<1>3. CASE ctx'[u].msg = seq + 1 /\ Len(new) > 0 /\ OnlyLast(new, "message.sent")
  <2>1. /\ Len(events) \in Nat /\ Len(new) \in Nat /\ DOMAIN new = 1..Len(new)
        /\ Len(events') = Len(events) + Len(new) /\ DOMAIN events' = 1..(Len(events) + Len(new))
        /\ events'[Len(events) + Len(new)].type = new[Len(new)].type
        /\ events'[Len(events) + Len(new)].msg = new[Len(new)].msg
    BY <1>1, <1>3, LogGrows
  <2>2. new[Len(new)].type = "message.sent" /\ Len(new) \in DOMAIN new
    BY <1>3, <2>1 DEF OnlyLast
  <2>3. new[Len(new)].msg = seq + 1 /\ seq' = seq + 1
    BY <1>1, <2>2 DEF OfMessages, Without
  <2>4. seq \in Nat
    BY DEF TypeOK
  <2> DEFINE z == Len(events) + Len(new)
  <2>5. z \in DOMAIN events' /\ events'[z].type = "message.sent" /\ events'[z].msg = seq + 1
        /\ z <= Len(events')
    BY <1>3, <2>1, <2>2, <2>3
  <2> HIDE DEF z
  <2>6. z \in SentEvents'
    BY <2>5 DEF SentEvents
  <2> QED
    BY <1>3, <2>3, <2>4, <2>5, <2>6 DEF Placeable, Announced
<1> QED
  BY <1>2, <1>3 DEF LogMove

LEMMA MoveKeeps ==
  ASSUME TypeOK, LogInv, MessageIds', NEW new \in Seq(Events), LogMove(new),
         state' # "none" \/ parts' # {} \/ (\E t \in Tasks : pc'[t] = "message_hook") => incarnation' > 0
  PROVE  LogInv'
<1>1. Publish(new) /\ OfMode(new) /\ OfMessages(new) /\ OfReports(new) /\ incarnation' = incarnation
  BY DEF LogMove
<1>2. ModeChain'
  BY <1>1, ChainGrows DEF LogInv, LogIsFaithful
<1>3. /\ LogAccountsForMessages'
      /\ \A i \in DOMAIN events' : events'[i].type \in {"message.sent", "message.gated"} => events'[i].msg <= seq'
  BY <1>1, MessagesGrow DEF OfReports, Placeable
<1>4. GatedAfterSent'
  BY <1>1, ReportsGrow
<1>5. \A u \in Tasks : pc'[u] = "message_hook" => Placeable(ctx[u].msg)'
  BY MoveKeepsPlaces
<1> QED
  BY <1>2, <1>3, <1>4, <1>5 DEF LogInv, LogIsFaithful

(* Events that say nothing of modes, messages and downgrades.              *)
Silent(new) == Without(new, "message.sent") /\ Without(new, "message.gated")
Calm(new) == Silent(new) /\ Without(new, "mode.changed")

Waits == \A u \in Tasks : pc'[u] = "message_hook" => pc[u] = "message_hook" /\ ctx'[u] = ctx[u]

LEMMA AppendLast ==
  ASSUME NEW pre \in Seq(Events), NEW e \in Events, NEW type, Without(pre, type)
  PROVE  /\ Append(pre, e) \in Seq(Events) /\ Len(Append(pre, e)) > 0
         /\ Append(pre, e)[Len(Append(pre, e))] = e
         /\ e.type # type => Without(Append(pre, e), type)
         /\ e.type = type => OnlyLast(Append(pre, e), type)
<1> DEFINE s == Append(pre, e)
<1>1. /\ s \in Seq(Events) /\ Len(pre) \in Nat /\ Len(s) = Len(pre) + 1 /\ s[Len(s)] = e
      /\ DOMAIN s = 1..Len(s) /\ DOMAIN pre = 1..Len(pre)
      /\ \A i \in 1..Len(pre) : s[i] = pre[i]
  OBVIOUS
<1> HIDE DEF s
<1>2. \A i \in DOMAIN s : i # Len(s) => i \in DOMAIN pre /\ s[i] = pre[i]
  BY <1>1
<1>3. Len(s) > 0
  BY <1>1
<1> QED
  BY <1>1, <1>2, <1>3 DEF Without, OnlyLast, s

LEMMA OneEvent ==
  ASSUME NEW e \in Events, NEW type
  PROVE  /\ <<e>> \in Seq(Events) /\ Len(<<e>>) = 1 /\ <<e>>[1] = e
         /\ e.type # type => Without(<<e>>, type)
         /\ e.type = type => OnlyLast(<<e>>, type)
  BY DEF Without, OnlyLast

LEMMA PublishNothing ==
  ASSUME TypeOK, UNCHANGED logVars
  PROVE  <<>> \in Seq(Events) /\ Publish(<<>>) /\ Calm(<<>>)
<1>1. <<>> \in Seq(Events) /\ eseq \in Nat /\ events \in Seq(Events)
  BY DEF TypeOK
<1>2. Numbered(<<>>) \in Seq(Events) /\ Len(Numbered(<<>>)) = 0
  BY <1>1, NumberedTyped
<1>3. Numbered(<<>>) = <<>>
  BY <1>2
<1>4. events \o <<>> = events
  BY <1>1
<1> QED
  BY <1>1, <1>3, <1>4 DEF Publish, logVars, Calm, Silent, Without

LEMMA SilentMove ==
  ASSUME NEW new \in Seq(Events), Publish(new), OfMode(new), Silent(new), Waits,
         seq' = seq, incarnation' = incarnation,
         \A m \in msgs' : \E k \in msgs : k.n = m.n
  PROVE  LogMove(new)
  BY DEF LogMove, OfMessages, OfReports, Silent, Without, Waits

LEMMA SwitchBodyLog ==
  ASSUME TypeOK, NEW t \in Tasks, NEW q, NEW target \in Modes,
         NEW trigger \in Triggers \union {NoTrigger}, NEW pre \in Seq(Events), Calm(pre),
         SwitchBody(t, q, target, trigger, pre)
  PROVE  Waits /\ \E new \in Seq(Events) : Publish(new) /\ OfMode(new) /\ Silent(new)
<1>1. Waits
  <2>1. CASE Return(t)
    BY <2>1 DEF Return, Suspend, Waits, TypeOK
  <2>2. CASE Suspend(t, "mode_hook", NoContext)
    BY <2>2 DEF Suspend, Waits, TypeOK
  <2> QED
    BY <2>1, <2>2 DEF SwitchBody
<1> DEFINE noop == ModeEv("mode.noop", mode, target, trigger)
           change == ModeEv("mode.changed", mode, target, trigger)
<1>2. /\ noop \in Events /\ noop.type = "mode.noop"
      /\ change \in Events /\ change.type = "mode.changed" /\ change.old = mode /\ change.new = target
  <2>1. mode \in Modes /\ {"mode.noop", "mode.changed"} \subseteq EventTypes
    BY DEF TypeOK, EventTypes
  <2>2. noop \in Events /\ change \in Events
    BY <2>1, EvTyped
  <2>3. /\ noop.type = "mode.noop"
        /\ change.type = "mode.changed" /\ change.old = mode /\ change.new = target
    BY DEF ModeEv, Ev
  <2> QED
    BY <2>2, <2>3
<1> HIDE DEF noop, change
<1>3. CASE Publish(pre) /\ UNCHANGED mode
  BY <1>1, <1>3 DEF OfMode, Calm
<1>4. CASE Publish(Append(pre, noop)) /\ UNCHANGED mode
  <2>1. Append(pre, noop) \in Seq(Events) /\ Calm(Append(pre, noop))
    BY <1>2, AppendLast DEF Calm, Silent
  <2> QED
    BY <1>1, <1>4, <2>1 DEF OfMode, Calm
<1>5. CASE Publish(Append(pre, change)) /\ mode' = target
  <2> DEFINE s == Append(pre, change)
  <2>1. s \in Seq(Events) /\ Silent(s) /\ OnlyLast(s, "mode.changed") /\ Len(s) > 0 /\ s[Len(s)] = change
    BY <1>2, AppendLast DEF Calm, Silent
  <2> HIDE DEF s
  <2>2. OfMode(s)
    BY <1>2, <1>5, <2>1 DEF OfMode
  <2>3. Publish(s)
    BY <1>5 DEF s
  <2> QED
    BY <1>1, <2>1, <2>2, <2>3
<1> QED
  BY <1>3, <1>4, <1>5 DEF SwitchBody, noop, change

LEMMA SwitchModeLog ==
  ASSUME TypeOK, NEW t \in Tasks, NEW target \in Modes,
         NEW trigger \in Triggers, NEW pre \in Seq(Events), Calm(pre),
         SwitchMode(t, target, trigger, pre)
  PROVE  Waits /\ \E new \in Seq(Events) : Publish(new) /\ OfMode(new) /\ Silent(new)
<1>1. CASE SwitchBody(t, <<t>>, target, trigger, pre)
  BY <1>1, SwitchBodyLog
<1>2. CASE /\ Publish(pre)
           /\ Suspend(t, "lock_wait", [NoContext EXCEPT !.target = target, !.trigger = trigger])
           /\ UNCHANGED mode
  <2>1. Waits
    BY <1>2 DEF Suspend, Waits, TypeOK
  <2> QED
    BY <1>2, <2>1 DEF OfMode, Calm
<1> QED
  BY <1>1, <1>2 DEF SwitchMode

(* Who is there, or about to report, was there before.                     *)
Existed == state' # "none" \/ parts' # {} \/ (\E t \in Tasks : pc'[t] = "message_hook")
             => state # "none" \/ parts # {} \/ \E t \in Tasks : pc[t] = "message_hook"
Moves == Existed /\ \E new \in Seq(Events) : LogMove(new)

LEMMA CalmEvents ==
  /\ \A type \in EventTypes \ {"message.sent", "message.gated", "mode.changed"} :
       <<Ev(type)>> \in Seq(Events) /\ Calm(<<Ev(type)>>)
  /\ \A type \in {"message.edited", "message.deleted"}, n \in Nat :
       <<MessageEv(type, n)>> \in Seq(Events) /\ Calm(<<MessageEv(type, n)>>)
<1>1. \A type \in EventTypes : Ev(type) \in Events /\ Ev(type).type = type
  BY EvTyped DEF Ev
<1>2. ASSUME NEW type \in EventTypes, NEW n \in Nat
      PROVE  MessageEv(type, n) \in Events /\ MessageEv(type, n).type = type
  BY EvTyped DEF MessageEv, Ev
<1>3. {"message.edited", "message.deleted"} \subseteq EventTypes
  BY DEF EventTypes
<1>4. ASSUME NEW e \in Events, e.type \notin {"message.sent", "message.gated", "mode.changed"}
      PROVE  <<e>> \in Seq(Events) /\ Calm(<<e>>)
  BY <1>4, OneEvent DEF Calm, Silent
<1>5. \A type \in EventTypes \ {"message.sent", "message.gated", "mode.changed"} :
        <<Ev(type)>> \in Seq(Events) /\ Calm(<<Ev(type)>>)
  BY <1>1, <1>4
<1>6. ASSUME NEW type \in {"message.edited", "message.deleted"}, NEW n \in Nat
      PROVE  <<MessageEv(type, n)>> \in Seq(Events) /\ Calm(<<MessageEv(type, n)>>)
  <2>1. MessageEv(type, n) \in Events /\ MessageEv(type, n).type = type
    BY <1>2, <1>3
  <2>2. type \notin {"message.sent", "message.gated", "mode.changed"}
    OBVIOUS
  <2> QED
    BY <1>4, <2>1, <2>2
<1> QED
  BY <1>5, <1>6

LEMMA CalmPair ==
  ASSUME NEW a \in Events, NEW b \in Events,
         a.type \notin {"message.sent", "message.gated", "mode.changed"},
         b.type \notin {"message.sent", "message.gated", "mode.changed"}
  PROVE  <<a, b>> \in Seq(Events) /\ Calm(<<a, b>>)
  BY DEF Calm, Silent, Without

(* A step that publishes calm events, or nothing.                          *)
LEMMA CalmMove ==
  ASSUME TypeOK, (\E new \in Seq(Events) : Publish(new) /\ Calm(new)) \/ UNCHANGED logVars,
         Waits, mode' = mode, seq' = seq, incarnation' = incarnation,
         \A m \in msgs' : \E k \in msgs : k.n = m.n
  PROVE  \E new \in Seq(Events) : LogMove(new)
<1>1. PICK new \in Seq(Events) : Publish(new) /\ Calm(new)
  BY PublishNothing
<1>2. OfMode(new) /\ Silent(new)
  BY <1>1 DEF OfMode, Calm
<1> QED
  BY <1>1, <1>2, SilentMove

LEMMA ElsewhereWaits ==
  ASSUME TypeOK, NEW t \in Tasks, NEW point, NEW locals,
         UNCHANGED <<pc, ctx>> \/ Return(t) \/ (Suspend(t, point, locals) /\ point # "message_hook")
  PROVE  Waits
<1>1. CASE UNCHANGED <<pc, ctx>>
  BY <1>1 DEF Waits
<1>2. CASE Return(t)
  BY <1>2 DEF Waits, Return, Suspend, TypeOK
<1>3. CASE Suspend(t, point, locals) /\ point # "message_hook"
  BY <1>3 DEF Waits, Suspend, TypeOK
<1> QED
  BY <1>1, <1>2, <1>3

LEMMA CloseMoves ==
  ASSUME TypeOK, NEW t \in Tasks, NEW outcome, NEW p \in parts, CloseConversation(t, outcome, p)
  PROVE  Moves
<1>1. /\ Ev("conversation.resolved") \in Events /\ Ev("conversation.closed") \in Events
      /\ Ev("conversation.resolved").type = "conversation.resolved"
      /\ Ev("conversation.closed").type = "conversation.closed"
  BY EvTyped DEF EventTypes, Ev
<1>2. LET new == <<Ev("conversation.resolved"), Ev("conversation.closed")>> IN
        new \in Seq(Events) /\ Calm(new)
  BY <1>1, CalmPair
<1>3. Waits
  BY ElsewhereWaits DEF CloseConversation
<1>4. \E new \in Seq(Events) : Publish(new) /\ Calm(new)
  BY <1>2 DEF CloseConversation
<1>5. mode' = mode /\ seq' = seq /\ incarnation' = incarnation /\ msgs' = msgs
  BY DEF CloseConversation
<1>6. \E new \in Seq(Events) : LogMove(new)
  BY <1>3, <1>4, <1>5, CalmMove
<1>7. Existed
  BY DEF Existed
<1> QED
  BY <1>6, <1>7 DEF Moves

LEMMA CallsMoveCalmly ==
  ASSUME TypeOK, NEW t \in Tasks,
         \/ \E score \in Scores : SetCsat(t, score)
         \/ \E p \in Participants : Join(t, p)
         \/ \E m \in msgs : EditMessage(t, m) \/ DeleteMessage(t, m)
         \/ \E name \in TimerNames :
              (\E action \in OnExpire : SetTimer(t, name, action)) \/ CancelTimer(t, name)
         \/ HookFails(t)
  PROVE  Moves
<1>1. \A m \in msgs : m \in Messages /\ m.n \in Nat /\ [m EXCEPT !.edited = TRUE].n = m.n
  BY DEF TypeOK, Messages
<1>2. Waits
  <2>1. ASSUME NEW score \in Scores, SetCsat(t, score) PROVE Waits
    BY <2>1, ElsewhereWaits DEF SetCsat
  <2>2. ASSUME NEW p \in Participants, Join(t, p) PROVE Waits
    <3>1. PICK locals : Suspend(t, "joined_hook", locals)
      BY <2>2 DEF Join
    <3> QED
      BY <3>1, ElsewhereWaits
  <2>3. UNCHANGED <<pc, ctx>> => Waits
    BY DEF Waits
  <2> QED
    BY <2>1, <2>2, <2>3 DEF EditMessage, DeleteMessage, SetTimer, CancelTimer, HookFails
<1>3. mode' = mode /\ seq' = seq /\ incarnation' = incarnation
  BY DEF SetCsat, Join, EditMessage, DeleteMessage, SetTimer, CancelTimer, HookFails
<1>4. \A m \in msgs' : \E k \in msgs : k.n = m.n
  <2>1. CASE \E m \in msgs : EditMessage(t, m)
    BY <1>1, <2>1 DEF EditMessage
  <2>2. CASE msgs' \subseteq msgs
    BY <2>2
  <2> QED
    BY <2>1, <2>2 DEF SetCsat, Join, DeleteMessage, SetTimer, CancelTimer, HookFails
<1>5. \E new \in Seq(Events) : Publish(new) /\ Calm(new)
  <2>1. {"conversation.csat_recorded", "participant.joined", "timer.set", "timer.cancelled", "hook.failed"}
          \subseteq EventTypes \ {"message.sent", "message.gated", "mode.changed"}
    BY DEF EventTypes
  <2>2. ASSUME NEW type \in {"conversation.csat_recorded", "participant.joined", "timer.set",
                             "timer.cancelled", "hook.failed"}, Publish(<<Ev(type)>>)
        PROVE  \E new \in Seq(Events) : Publish(new) /\ Calm(new)
    BY <2>1, <2>2, CalmEvents
  <2>3. ASSUME NEW m \in msgs, NEW type \in {"message.edited", "message.deleted"}, Publish(<<MessageEv(type, m.n)>>)
        PROVE  \E new \in Seq(Events) : Publish(new) /\ Calm(new)
    BY <1>1, <2>3, CalmEvents
  <2> QED
    BY <2>2, <2>3 DEF SetCsat, Join, EditMessage, DeleteMessage, SetTimer, CancelTimer, HookFails
<1>6. \E new \in Seq(Events) : LogMove(new)
  BY <1>2, <1>3, <1>4, <1>5, CalmMove
<1>7. Existed
  BY <1>2 DEF Existed, Waits, SetCsat, Join, EditMessage, DeleteMessage, SetTimer, CancelTimer, HookFails
<1> QED
  BY <1>6, <1>7 DEF Moves

LEMMA SwitchMoves ==
  ASSUME TypeOK, NEW t \in Tasks, NEW target \in Modes, NEW pre \in Seq(Events), Calm(pre),
         (\E trigger \in Triggers : SwitchMode(t, target, trigger, pre))
           \/ (\E q : \E trigger \in Triggers \union {NoTrigger} : SwitchBody(t, q, target, trigger, pre)),
         UNCHANGED <<msgs, seq, incarnation, state>>, parts' \subseteq parts
  PROVE  Moves
<1>1. Waits /\ \E new \in Seq(Events) : Publish(new) /\ OfMode(new) /\ Silent(new)
  BY SwitchModeLog, SwitchBodyLog
<1>2. \E new \in Seq(Events) : LogMove(new)
  BY <1>1, SilentMove
<1>3. Existed
  BY <1>1 DEF Existed, Waits
<1> QED
  BY <1>2, <1>3 DEF Moves

LEMMA LeaveMoves ==
  ASSUME TypeOK, NEW t \in Tasks, NEW p \in Participants, Leave(t, p)
  PROVE  Moves
<1>1. <<Ev("participant.left")>> \in Seq(Events) /\ Calm(<<Ev("participant.left")>>)
  BY CalmEvents DEF EventTypes
<1>2. UNCHANGED <<msgs, seq, incarnation, state>> /\ parts' \subseteq parts
  BY DEF Leave
<1>3. CASE SwitchMode(t, "auto", "last_operator_left", <<Ev("participant.left")>>)
  <2>1. "auto" \in Modes /\ "last_operator_left" \in Triggers
    BY DEF Modes, Triggers
  <2> QED
    BY <1>1, <1>2, <1>3, <2>1, SwitchMoves
<1>4. CASE Publish(<<Ev("participant.left")>>) /\ UNCHANGED <<mode, pc, ctx>>
  <2>1. Waits
    BY <1>4 DEF Waits
  <2>2. \E new \in Seq(Events) : LogMove(new)
    BY <1>1, <1>2, <1>4, <2>1, CalmMove
  <2>3. Existed
    BY <1>2, <1>4 DEF Existed
  <2> QED
    BY <2>2, <2>3 DEF Moves
<1> QED
  BY <1>3, <1>4 DEF Leave

LEMMA SendMoves ==
  ASSUME TypeOK, NEW t \in Tasks, NEW p \in Participants, NEW requested, SendMessage(t, p, requested)
  PROVE  Moves
<1> DEFINE e == MessageEv("message.sent", seq + 1)
<1>1. e \in Events /\ e.type = "message.sent" /\ e.msg = seq + 1
  <2>1. seq + 1 \in Nat /\ "message.sent" \in EventTypes
    BY DEF TypeOK, EventTypes
  <2>2. e \in Events
    BY <2>1, EvTyped
  <2> QED
    BY <2>2 DEF MessageEv, Ev
<1>2. Publish(<<e>>) /\ mode' = mode /\ seq' = seq + 1 /\ incarnation' = incarnation
      /\ UNCHANGED <<state, parts>> /\ p \in parts
  BY DEF SendMessage
<1> HIDE DEF e
<1>3. /\ <<e>> \in Seq(Events) /\ Len(<<e>>) = 1 /\ <<e>>[1] = e
      /\ OnlyLast(<<e>>, "message.sent") /\ Without(<<e>>, "message.gated") /\ Without(<<e>>, "mode.changed")
  BY <1>1, OneEvent
<1>4. \A m \in msgs' : m.n = seq + 1 \/ \E k \in msgs : k.n = m.n
  BY DEF SendMessage
<1> DEFINE new == <<e>>
<1>5. OfMode(new) /\ OfMessages(new) /\ OfReports(new)
  <2>1. new \in Seq(Events) /\ Len(new) = 1 /\ new[Len(new)].msg = seq + 1
    BY <1>1, <1>3
  <2>2. Without(new, "mode.changed") /\ Without(new, "message.gated") /\ OnlyLast(new, "message.sent")
    BY <1>3
  <2> HIDE DEF new
  <2>3. OfMode(new)
    BY <1>2, <2>2 DEF OfMode
  <2>4. OfMessages(new)
    BY <1>2, <1>4, <2>1, <2>2 DEF OfMessages
  <2> QED
    BY <2>2, <2>3, <2>4 DEF OfReports, Without
<1>6. ASSUME NEW u \in Tasks, pc'[u] = "message_hook"
      PROVE  (pc[u] = "message_hook" /\ ctx'[u] = ctx[u]) \/ ctx'[u].msg = seq + 1
  <2>1. PICK locals : locals.msg = seq + 1 /\ Suspend(t, "message_hook", locals)
    <3> DEFINE vis == ApplyGate(mode, Role[p], requested)
               locals == [NoContext EXCEPT !.seenCreated = (state = "created"),
                                           !.gated = (vis # requested),
                                           !.msg = seq + 1]
    <3>1. locals.msg = seq + 1
      <4>1. "msg" \in DOMAIN NoContext
        BY DEF NoContext
      <4> QED
        BY <4>1 DEF NoContext
    <3> QED
      BY <3>1 DEF SendMessage
  <2>2. pc' = [pc EXCEPT ![t] = "message_hook"] /\ ctx' = [ctx EXCEPT ![t] = locals]
    BY <2>1 DEF Suspend
  <2>3. u # t => pc'[u] = pc[u] /\ ctx'[u] = ctx[u]
    BY <2>2 DEF TypeOK
  <2>4. ctx'[t] = locals
    BY <2>2 DEF TypeOK
  <2> QED
    BY <1>6, <2>1, <2>3, <2>4
<1>7. LogMove(new)
  <2>1. Publish(new) /\ Len(new) > 0 /\ OnlyLast(new, "message.sent")
    BY <1>2, <1>3
  <2> HIDE DEF new
  <2> QED
    BY <1>2, <1>5, <1>6, <2>1 DEF LogMove
<1>8. Existed
  BY <1>2 DEF Existed
<1> QED
  BY <1>3, <1>7, <1>8 DEF Moves

LEMMA MessageHooksMove ==
  ASSUME TypeOK, LogInv, NEW t \in Tasks, MessageHooksReturn(t)
  PROVE  Moves
<1>1. Placeable(ctx[t].msg) /\ ctx[t].msg \in Nat /\ pc[t] = "message_hook"
  BY DEF LogInv, MessageHooksReturn, Resumes, TypeOK, Contexts
<1> DEFINE e == MessageEv("message.gated", ctx[t].msg)
           a == Ev("conversation.activated")
<1>2. /\ e \in Events /\ e.type = "message.gated" /\ e.msg = ctx[t].msg
      /\ a \in Events /\ a.type = "conversation.activated"
  <2>1. e \in Events /\ a \in Events
    BY <1>1, EvTyped DEF EventTypes
  <2> QED
    BY <2>1 DEF MessageEv, Ev
<1>3. \E new \in {<<>>, <<e>>, <<a>>, <<e, a>>} : Publish(new)
  <2> HIDE DEF e, a
  <2>1. Append(<<>>, a) = <<a>> /\ Append(<<e>>, a) = <<e, a>>
    <3>1. e \in Events /\ a \in Events
      BY <1>2
    <3>2. Append(<<>>, a) = <<a>>
      BY <3>1
    <3>3. Append(<<e>>, a) = <<e, a>>
      <4>1. <<e>> \in Seq(Events) /\ Len(<<e>>) = 1 /\ <<e>>[1] = e
        BY <3>1
      <4>2. Append(<<e>>, a) \in Seq(Events) /\ Len(Append(<<e>>, a)) = 2
            /\ Append(<<e>>, a)[1] = e /\ Append(<<e>>, a)[2] = a
        BY <3>1, <4>1
      <4>3. <<e, a>> \in Seq(Events) /\ Len(<<e, a>>) = 2 /\ <<e, a>>[1] = e /\ <<e, a>>[2] = a
        BY <3>1
      <4> DEFINE one == Append(<<e>>, a)
                 two == <<e, a>>
      <4> HIDE DEF one, two
      <4>4. one \in Seq(Events) /\ two \in Seq(Events) /\ Len(one) = Len(two)
            /\ \A i \in 1..Len(one) : one[i] = two[i]
        BY <4>2, <4>3 DEF one, two
      <4>5. one = two
        BY ONLY <4>4, SeqEqual
      <4> QED
        BY <4>5 DEF one, two
    <3> QED
      BY <3>2, <3>3
  <2>2. Publish(<<>>) \/ Publish(<<e>>) \/ Publish(Append(<<>>, a)) \/ Publish(Append(<<e>>, a))
    BY DEF MessageHooksReturn, e, a
  <2> QED
    BY <2>1, <2>2
<1> HIDE DEF e, a
<1>4. PICK new \in {<<>>, <<e>>, <<a>>, <<e, a>>} : Publish(new)
  BY <1>3
<1>5. /\ new \in Seq(Events)
      /\ \A i \in DOMAIN new : new[i] = e \/ new[i] = a
  <2>1. CASE new = <<>>
    BY <2>1
  <2>2. CASE new = <<e>>
    BY <1>2, <2>2
  <2>3. CASE new = <<a>>
    BY <1>2, <2>3
  <2>4. CASE new = <<e, a>>
    BY <1>2, <2>4
  <2> QED
    BY <2>1, <2>2, <2>3, <2>4
<1>6. Without(new, "message.sent") /\ Without(new, "mode.changed") /\ OfReports(new)
  BY <1>1, <1>2, <1>5 DEF Without, OfReports
<1>7. /\ mode' = mode /\ seq' = seq /\ msgs' = msgs /\ incarnation' = incarnation /\ parts' = parts
  BY DEF MessageHooksReturn
<1>8. Waits
  BY ElsewhereWaits DEF MessageHooksReturn
<1>9. OfMode(new) /\ OfMessages(new)
  BY <1>6, <1>7 DEF OfMode, OfMessages
<1>10. LogMove(new)
  BY <1>4, <1>6, <1>7, <1>8, <1>9 DEF LogMove, Waits
<1>11. Existed
  BY <1>1 DEF Existed
<1> QED
  BY <1>5, <1>10, <1>11 DEF Moves

LEMMA TimerMoves ==
  ASSUME TypeOK, NEW t \in Tasks, NEW name \in TimerNames, TimerExpires(t, name)
  PROVE  Moves
<1> DEFINE fired == IF name \in SlaTimers
                    THEN <<Ev("timer.expired"), Ev("sla.breach")>>
                    ELSE <<Ev("timer.expired")>>
<1>1. fired \in Seq(Events) /\ Calm(fired)
  <2>1. /\ Ev("timer.expired") \in Events /\ Ev("sla.breach") \in Events
        /\ Ev("timer.expired").type = "timer.expired" /\ Ev("sla.breach").type = "sla.breach"
    BY EvTyped DEF EventTypes, Ev
  <2>2. LET pair == <<Ev("timer.expired"), Ev("sla.breach")>> IN pair \in Seq(Events) /\ Calm(pair)
    BY <2>1, CalmPair
  <2>3. <<Ev("timer.expired")>> \in Seq(Events) /\ Calm(<<Ev("timer.expired")>>)
    BY CalmEvents DEF EventTypes
  <2> QED
    BY <2>2, <2>3
<1>2. incarnation' = incarnation /\ state' = state /\ parts' = parts
  BY DEF TimerExpires
<1>3. \/ timers[name] \in Modes /\ SwitchMode(t, timers[name], "timer", fired) /\ UNCHANGED <<msgs, seq>>
      \/ /\ seq' = seq + 1
         /\ msgs' = msgs \union {[n |-> seq + 1, src |-> System, vis |-> "system", edited |-> FALSE]}
         /\ Publish(Append(fired, MessageEv("message.sent", seq + 1)))
         /\ UNCHANGED <<mode, lockq, pc, ctx>>
      \/ /\ Publish(fired)
         /\ Suspend(t, "timer_hook", NoContext)
         /\ UNCHANGED <<mode, msgs, seq, lockq>>
  BY DEF TimerExpires
<1> HIDE DEF fired
<1>4. CASE timers[name] \in Modes /\ SwitchMode(t, timers[name], "timer", fired) /\ UNCHANGED <<msgs, seq>>
  <2>1. "timer" \in Triggers
    BY DEF Triggers
  <2> QED
    BY <1>1, <1>2, <1>4, <2>1, SwitchMoves
<1>5. CASE /\ seq' = seq + 1
           /\ msgs' = msgs \union {[n |-> seq + 1, src |-> System, vis |-> "system", edited |-> FALSE]}
           /\ Publish(Append(fired, MessageEv("message.sent", seq + 1)))
           /\ UNCHANGED <<mode, lockq, pc, ctx>>
  <2> DEFINE e == MessageEv("message.sent", seq + 1)
             new == Append(fired, e)
  <2>1. e \in Events /\ e.type = "message.sent" /\ e.msg = seq + 1
    <3>1. seq + 1 \in Nat /\ "message.sent" \in EventTypes
      BY DEF TypeOK, EventTypes
    <3>2. e \in Events
      BY <3>1, EvTyped
    <3> QED
      BY <3>2 DEF MessageEv, Ev
  <2> HIDE DEF e
  <2>2. /\ new \in Seq(Events) /\ Len(new) > 0 /\ new[Len(new)] = e
        /\ OnlyLast(new, "message.sent") /\ Without(new, "message.gated") /\ Without(new, "mode.changed")
    BY <1>1, <2>1, AppendLast DEF Calm, Silent
  <2>3. Publish(new)
    BY <1>5 DEF e
  <2> HIDE DEF new
  <2>4. \A m \in msgs' : m.n = seq + 1 \/ \E k \in msgs : k.n = m.n
    BY <1>5
  <2>5. OfMode(new) /\ OfMessages(new) /\ OfReports(new)
    BY <1>5, <2>1, <2>2, <2>4 DEF OfMode, OfMessages, OfReports, Without
  <2>6. LogMove(new)
    BY <1>2, <1>5, <2>3, <2>5 DEF LogMove
  <2>7. Existed
    BY <1>2, <1>5 DEF Existed
  <2> QED
    BY <2>2, <2>6, <2>7 DEF Moves
<1>6. CASE /\ Publish(fired)
           /\ Suspend(t, "timer_hook", NoContext)
           /\ UNCHANGED <<mode, msgs, seq, lockq>>
  <2>1. Waits
    BY <1>6, ElsewhereWaits
  <2>2. \E new \in Seq(Events) : LogMove(new)
    BY <1>1, <1>2, <1>6, <2>1, CalmMove
  <2>3. Existed
    BY <1>2, <2>1 DEF Existed, Waits
  <2> QED
    BY <2>2, <2>3 DEF Moves
<1> QED
  BY <1>3, <1>4, <1>5, <1>6

LEMMA NextMoves ==
  ASSUME TypeOK, LogInv, ModeLock, Next
  PROVE  Moves \/ \E t \in Tasks : CreateConversation(t)
<1>1. PICK t \in Tasks : Call(t) \/ Resume(t) \/ HookFails(t)
  BY DEF Next
<1>2. <<>> \in Seq(Events) /\ Calm(<<>>)
  BY DEF Calm, Silent, Without
<1>3. CASE \/ \E score \in Scores : SetCsat(t, score)
           \/ \E p \in Participants : Join(t, p)
           \/ \E m \in msgs : EditMessage(t, m) \/ DeleteMessage(t, m)
           \/ \E name \in TimerNames :
                (\E action \in OnExpire : SetTimer(t, name, action)) \/ CancelTimer(t, name)
           \/ HookFails(t)
  BY <1>3, CallsMoveCalmly
<1>4. CASE \E p \in Participants, c \in Commands : HandleCommand(t, p, c)
  <2>1. PICK p \in Participants, c \in Commands : HandleCommand(t, p, c)
    BY <1>4
  <2>2. CASE c \in ModeCommands /\ SwitchMode(t, CommandTarget[c], "command", <<>>)
             /\ UNCHANGED <<state, resolution, incarnation, parts, msgs, seq, timers>>
    <3>1. CommandTarget[c] \in Modes /\ "command" \in Triggers
      BY <2>2 DEF CommandTarget, ModeCommands, Modes, Triggers
    <3>2. \E trigger \in Triggers : SwitchMode(t, CommandTarget[c], trigger, <<>>)
      BY <2>2, <3>1
    <3>3. UNCHANGED <<msgs, seq, incarnation, state>> /\ parts' \subseteq parts
      BY <2>2
    <3> QED
      BY <1>2, <3>1, <3>2, <3>3, SwitchMoves
  <2>3. CASE CloseConversation(t, CommandOutcome[c], p)
    BY <2>1, <2>3, CloseMoves DEF HandleCommand
  <2> QED
    BY <2>1, <2>2, <2>3 DEF HandleCommand
<1>5. CASE LockGranted(t)
  <2>1. SwitchBody(t, lockq, ctx[t].target, ctx[t].trigger, <<>>)
        /\ UNCHANGED <<msgs, seq, incarnation, state>> /\ parts' \subseteq parts
    BY <1>5 DEF LockGranted
  <2>2. ctx[t].target \in Modes /\ ctx[t].trigger \in Triggers \union {NoTrigger}
    BY DEF TypeOK, Contexts
  <2> QED
    BY <1>2, <2>1, <2>2, SwitchMoves
<1>6. CASE JoinHooksReturn(t)
  <2>1. UNCHANGED <<msgs, seq, incarnation, state>> /\ parts' = parts
    BY <1>6 DEF JoinHooksReturn
  <2>2. CASE SwitchMode(t, "copilot", "operator_join", <<>>)
    <3>1. "copilot" \in Modes /\ "operator_join" \in Triggers
      BY DEF Modes, Triggers
    <3> QED
      BY <1>2, <2>1, <2>2, <3>1, SwitchMoves
  <2>3. CASE Return(t) /\ UNCHANGED <<mode, events, eseq, lockq>>
    <3>1. Waits
      BY <2>3, ElsewhereWaits
    <3>2. \E new \in Seq(Events) : LogMove(new)
      BY <2>1, <2>3, <3>1, CalmMove DEF logVars
    <3>3. Existed
      BY <2>1, <3>1 DEF Existed, Waits
    <3> QED
      BY <3>2, <3>3 DEF Moves
  <2> QED
    BY <1>6, <2>2, <2>3 DEF JoinHooksReturn
<1>7. CASE ModeHooksReturn(t) \/ HooksReturn(t)
  <2>1. UNCHANGED <<msgs, seq, incarnation, state, mode, parts, events, eseq>> /\ Return(t)
    BY <1>7 DEF ModeHooksReturn, HooksReturn
  <2>2. Waits
    BY <2>1, ElsewhereWaits
  <2>3. \E new \in Seq(Events) : LogMove(new)
    BY <2>1, <2>2, CalmMove DEF logVars
  <2>4. Existed
    BY <2>1, <2>2 DEF Existed, Waits
  <2> QED
    BY <2>3, <2>4 DEF Moves
<1>8. CASE \/ \E p \in Participants : Leave(t, p)
           \/ \E p \in Participants, requested \in Requested : SendMessage(t, p, requested)
           \/ MessageHooksReturn(t)
           \/ \E name \in TimerNames : TimerExpires(t, name)
  BY <1>8, LeaveMoves, SendMoves, MessageHooksMove, TimerMoves
<1> QED
  BY <1>1, <1>3, <1>4, <1>5, <1>6, <1>7, <1>8 DEF Call, Resume

(* A new life: its log holds the create event alone, and reports that are  *)
(* still to come are about messages of an earlier one.                     *)
LEMMA CreateKeepsLog ==
  ASSUME TypeOK, LogInv, MessageIds', NEW t \in Tasks, CreateConversation(t)
  PROVE  LogInv'
<1> DEFINE new == <<Ev("conversation.created")>>
<1>1. new \in Seq(Events) /\ Len(new) = 1 /\ Calm(new) /\ new[1].type = "conversation.created"
  BY CalmEvents DEF EventTypes, Ev
<1> HIDE DEF new
<1>2. Numbered(new) \in Seq(Events) /\ Len(Numbered(new)) = 1 /\ Numbered(new)[1].type = "conversation.created"
  <2>1. eseq \in Nat
    BY DEF TypeOK
  <2>2. Numbered(new) \in Seq(Events) /\ Len(Numbered(new)) = 1
    BY <1>1, <2>1, NumberedTyped
  <2>3. new[1] \in Events /\ Numbered(new)[1] = [new[1] EXCEPT !.n = eseq + 1]
    BY <1>1 DEF Numbered
  <2> QED
    BY <1>1, <2>2, <2>3 DEF Events
<1>3. events' = Numbered(new) /\ mode' = "auto" /\ msgs' = {} /\ seq' = seq /\ incarnation' = incarnation + 1
  BY DEF CreateConversation, new
<1>4. \A i \in DOMAIN events' : i = 1 /\ events'[i].type = "conversation.created"
  BY <1>2, <1>3
<1>5. SentEvents' = {} /\ ModeChanges' = {}
  BY <1>4 DEF SentEvents, ModeChanges
<1>6. ModeChain' /\ LogAccountsForMessages' /\ GatedAfterSent'
  BY <1>3, <1>4, <1>5 DEF ModeChain, ModeAfter, LogAccountsForMessages, GatedAfterSent
<1>7. incarnation \in Nat /\ incarnation' > 0
  BY <1>3 DEF TypeOK
<1>8. ASSUME NEW u \in Tasks, pc'[u] = "message_hook" PROVE Placeable(ctx[u].msg)'
  <2>1. pc[u] = "message_hook" /\ ctx'[u] = ctx[u]
    BY <1>8 DEF CreateConversation, Suspend, TypeOK
  <2>2. incarnation > 0 /\ Placeable(ctx[u].msg)
    BY <2>1 DEF LogInv
  <2>3. incarnation' > 1 /\ ctx[u].msg <= seq
    BY <1>3, <1>7, <2>2 DEF Placeable
  <2> QED
    BY <1>3, <1>5, <2>1, <2>3 DEF Placeable, OfEarlierLife
<1>9. \A i \in DOMAIN events' : events'[i].type \in {"message.sent", "message.gated"} => events'[i].msg <= seq'
  BY <1>4
<1> QED
  BY <1>6, <1>7, <1>8, <1>9 DEF LogInv, LogIsFaithful

(* Who replays the log ends with the engine's mode, accounts for every     *)
(* message that can be fetched, and places every downgrade of this life.   *)
THEOREM LogTellsTheTruth == Spec => []LogIsFaithful
<1>1. Init => LogInv
  BY DEF Init, LogInv, LogIsFaithful, ModeChain, ModeChanges, ModeAfter, LogAccountsForMessages,
         SentEvents, GatedAfterSent, MessageIds
<1>2. TypeOK /\ TypeOK' /\ ModeLock /\ LogInv /\ [Next]_vars => LogInv'
  <2>1. ASSUME TypeOK, ModeLock, LogInv, Next PROVE LogInv'
    <3>1. MessageIds'
      BY <2>1, NextMessages, MessageStepKeeps DEF LogInv
    <3>2. CASE Moves
      <4>1. PICK new \in Seq(Events) : LogMove(new)
        BY <3>2 DEF Moves
      <4>2. state' # "none" \/ parts' # {} \/ (\E t \in Tasks : pc'[t] = "message_hook") => incarnation' > 0
        BY <2>1, <3>2, <4>1 DEF Moves, Existed, LogInv, LogMove
      <4> QED
        BY <2>1, <3>1, <4>1, <4>2, MoveKeeps
    <3>3. CASE \E t \in Tasks : CreateConversation(t)
      BY <2>1, <3>1, <3>3, CreateKeepsLog
    <3> QED
      BY <2>1, <3>2, <3>3, NextMoves
  <2>2. ASSUME LogInv, UNCHANGED vars PROVE LogInv'
    BY <2>2 DEF vars, LogInv, LogIsFaithful, ModeChain, ModeChanges, ModeAfter, LogAccountsForMessages,
         SentEvents, GatedAfterSent, Announced, OfEarlierLife, MessageIds, Placeable
  <2> QED
    BY <2>1, <2>2
<1>3. LogInv => LogIsFaithful
  BY DEF LogInv
<1> QED
  BY <1>1, <1>2, <1>3, TypeCorrect, LockCorrect, PTL DEF Spec

-----------------------------------------------------------------------------
(* The contract.                                                           *)

(* The hooks of the shipped plugins: only those of cc_pool_plugin.py for   *)
(* created and closed conversations await anything.                        *)
ShippedHooks == {"mode_hook", "joined_hook", "message_hook"} \cap SuspendingHooks = {}

(* With them nobody ever waits for the mode lock, and what a call read     *)
(* before its hooks still holds after them.                                *)
Undisturbed ==
  /\ \A t \in Tasks : pc[t] # "lock_wait"
  /\ \A t \in Tasks : pc[t] = "joined_hook" => ctx[t].who \in parts /\ state # "none"
  /\ \A t \in Tasks : pc[t] = "message_hook" /\ ctx[t].seenCreated => state = "created"

(* Before the first create nobody is there; a resolution has its outcome.  *)
Orderly ==
  /\ state = "none" => parts = {} /\ \A name \in TimerNames : timers[name] = Off
  /\ resolution # NoResolution => resolution.outcome \in Outcomes

LEMMA OnlyMover ==
  ASSUME ShippedHooks, NEW t \in Tasks, NEW u \in Tasks, LoopFree(t),
         pc[u] \in {"mode_hook", "joined_hook", "message_hook"}
  PROVE  u = t
  BY DEF ShippedHooks, LoopFree, HookPoints

LEMMA LockIsFree ==
  ASSUME ShippedHooks, TypeOK, ModeLock, Undisturbed, NEW t \in Tasks, LoopFree(t), pc[t] # "mode_hook"
  PROVE  lockq = <<>>
<1> SUFFICES ASSUME lockq # <<>> PROVE FALSE
  OBVIOUS
<1>1. 1 \in DOMAIN lockq /\ lockq[1] \in Tasks
  BY DEF TypeOK
<1>2. pc[lockq[1]] = "mode_hook"
  BY <1>1 DEF ModeLock, Undisturbed
<1> QED
  BY <1>1, <1>2, OnlyMover

(* What switch_mode does to the conversation: nothing, or, if it is open,  *)
(* it sets the mode.                                                       *)
Switches(target) == \/ mode' = mode /\ (state = "closed" \/ mode = target)
                    \/ mode' = target /\ state # "closed"

LEMMA SwitchesAtOnce ==
  ASSUME ShippedHooks, TypeOK, ModeLock, Undisturbed, NEW t \in Tasks, LoopFree(t), pc[t] # "mode_hook",
         NEW target, NEW trigger, NEW pre, SwitchMode(t, target, trigger, pre)
  PROVE  /\ Switches(target)
         /\ \A u \in Tasks : u # t => pc'[u] = pc[u] /\ ctx'[u] = ctx[u]
         /\ pc'[t] \in {"idle", "mode_hook"}
<1>1. SwitchBody(t, <<t>>, target, trigger, pre)
  BY LockIsFree DEF SwitchMode
<1>2. Switches(target)
  BY <1>1 DEF SwitchBody, Switches
<1>3. Return(t) \/ Suspend(t, "mode_hook", NoContext)
  BY <1>1 DEF SwitchBody
<1> QED
  BY <1>2, <1>3 DEF Return, Suspend, TypeOK

(* A step of one call: the others stay where they are, and it takes its    *)
(* place with nothing to remember unless it joined or sent a message.      *)
Alone(t) ==
  /\ \A u \in Tasks : u # t => pc'[u] = pc[u] /\ ctx'[u] = ctx[u]
  /\ pc'[t] # "lock_wait"
  /\ pc'[t] \in {"joined_hook", "message_hook"} => pc'[t] = pc[t] /\ ctx'[t] = ctx[t]

LEMMA AloneUndisturbed ==
  ASSUME ShippedHooks, TypeOK, Undisturbed, NEW t \in Tasks, LoopFree(t), Alone(t),
         pc[t] \in {"joined_hook", "message_hook"} /\ pc'[t] = pc[t] => UNCHANGED <<parts, state>>
  PROVE  Undisturbed'
<1> SUFFICES ASSUME NEW u \in Tasks
             PROVE  /\ pc'[u] # "lock_wait"
                    /\ pc'[u] = "joined_hook" => ctx'[u].who \in parts' /\ state' # "none"
                    /\ pc'[u] = "message_hook" /\ ctx'[u].seenCreated => state' = "created"
  BY DEF Undisturbed
<1>1. CASE u # t
  <2>1. pc'[u] = pc[u] /\ pc[u] \notin {"joined_hook", "message_hook"}
    BY <1>1, OnlyMover DEF Alone
  <2> QED
    BY <2>1 DEF Undisturbed
<1>2. CASE u = t
  BY <1>2 DEF Alone, Undisturbed
<1> QED
  BY <1>1, <1>2

LEMMA StaysAlone ==
  ASSUME TypeOK, NEW t \in Tasks, NEW point, NEW locals,
         UNCHANGED <<pc, ctx>> \/ Return(t)
           \/ (Suspend(t, point, locals) /\ point \notin {"lock_wait", "joined_hook", "message_hook"}),
         pc[t] # "lock_wait"
  PROVE  Alone(t)
<1>1. CASE UNCHANGED <<pc, ctx>>
  BY <1>1 DEF Alone
<1>2. CASE Return(t)
  BY <1>2 DEF Alone, Return, Suspend, TypeOK
<1>3. CASE Suspend(t, point, locals) /\ point \notin {"lock_wait", "joined_hook", "message_hook"}
  BY <1>3 DEF Alone, Suspend, TypeOK
<1> QED
  BY <1>1, <1>2, <1>3

(* Copilot without an operator may also be asked for.                      *)
Unattended == "copilot" \in OnExpire \/ \E p \in Participants : Role[p] = "observer"

(* How one step looks to a client, when no call is disturbed.              *)
Operators == {p \in parts : Role[p] = "operator"}

ClientView ==
  \/ UNCHANGED <<state, mode, resolution, incarnation, parts>>
  \/ /\ state \in {"none", "closed"} /\ state' = "created" /\ mode' = "auto"
     /\ resolution' = NoResolution /\ incarnation' = incarnation + 1 /\ parts' = {}
  \/ /\ state = "created" /\ state' = "active"
     /\ UNCHANGED <<mode, resolution, incarnation, parts>>
  \/ /\ state \in {"created", "active"} /\ state' = "closed" /\ resolution'.outcome \in Outcomes
     /\ UNCHANGED <<mode, incarnation, parts>>
  \/ /\ resolution # NoResolution /\ \E score \in Scores : resolution' = [resolution EXCEPT !.csat = score]
     /\ UNCHANGED <<state, mode, incarnation, parts>>
  \/ /\ state # "none"
     /\ \E target \in Modes : Switches(target) /\ (target = "copilot" => Operators # {} \/ Unattended)
     /\ UNCHANGED <<state, resolution, incarnation, parts>>
  \/ /\ state # "none" /\ parts \subseteq parts'
     /\ UNCHANGED <<state, mode, resolution, incarnation>>
  \/ /\ parts' \subseteq parts /\ state # "none"
     /\ \/ mode = "copilot" /\ Operators' = {} /\ Switches("auto")
        \/ mode' = mode /\ (mode # "copilot" \/ Operators' # {})
     /\ UNCHANGED <<state, resolution, incarnation>>

LEMMA OrderlyKept ==
  ASSUME Orderly,
         \/ state' # "none"
         \/ /\ state = "none" /\ parts' \subseteq parts
            /\ \A name \in TimerNames : timers'[name] \in {timers[name], Off},
         resolution' \in {resolution, NoResolution} \/ resolution'.outcome \in Outcomes
  PROVE  Orderly'
  BY DEF Orderly

(* What each operation does to the invariant and to a client's view.       *)
ClientStep == Undisturbed' /\ Orderly' /\ ClientView

Steady == ShippedHooks /\ TypeOK /\ ModeLock /\ Undisturbed /\ Orderly

LEMMA PlainSteps ==
  ASSUME Steady, NEW t \in Tasks,
         \/ \E m \in msgs : EditMessage(t, m) \/ DeleteMessage(t, m)
         \/ \E name \in TimerNames :
              (\E action \in OnExpire : SetTimer(t, name, action)) \/ CancelTimer(t, name)
         \/ HookFails(t)
         \/ ModeHooksReturn(t) \/ HooksReturn(t)
  PROVE  ClientStep
<1>1. /\ UNCHANGED <<state, mode, resolution, incarnation, parts>> /\ LoopFree(t)
      /\ UNCHANGED <<pc, ctx>> \/ Return(t)
      /\ pc[t] # "lock_wait"
  BY DEF EditMessage, DeleteMessage, SetTimer, CancelTimer, HookFails, ModeHooksReturn, HooksReturn,
         CanStart, Resumes, HookPoints
<1>2. Alone(t)
  BY <1>1, StaysAlone DEF Steady
<1>3. Undisturbed'
  BY <1>1, <1>2, AloneUndisturbed DEF Steady
<1>4. state' # "none" \/ \A name \in TimerNames : timers'[name] \in {timers[name], Off}
  <2>1. CASE \E name \in TimerNames, action \in OnExpire : SetTimer(t, name, action)
    BY <2>1 DEF SetTimer
  <2>2. CASE \E name \in TimerNames : CancelTimer(t, name)
    BY <2>2 DEF CancelTimer, Steady, TypeOK
  <2>3. CASE timers' = timers
    BY <2>3
  <2> QED
    BY <2>1, <2>2, <2>3 DEF EditMessage, DeleteMessage, HookFails, ModeHooksReturn, HooksReturn
<1>5. Orderly'
  BY <1>1, <1>4, OrderlyKept DEF Steady
<1> QED
  BY <1>1, <1>3, <1>5 DEF ClientStep, ClientView

LEMMA CreateStep ==
  ASSUME Steady, NEW t \in Tasks, CreateConversation(t)
  PROVE  ClientStep
<1>1. Alone(t) /\ LoopFree(t) /\ pc'[t] # pc[t]
  <2>1. Suspend(t, "created_hook", NoContext) /\ pc[t] = "idle" /\ LoopFree(t)
    BY DEF CreateConversation, CanStart
  <2>2. Alone(t)
    BY <2>1, StaysAlone DEF Steady
  <2> QED
    BY <2>1, <2>2 DEF Suspend, Steady, TypeOK
<1>2. Undisturbed'
  BY <1>1, AloneUndisturbed DEF Steady
<1>3. Orderly'
  BY OrderlyKept DEF Steady, CreateConversation
<1> QED
  BY <1>2, <1>3 DEF ClientStep, ClientView, CreateConversation

LEMMA CloseStep ==
  ASSUME Steady, NEW t \in Tasks, NEW outcome \in Outcomes, NEW p \in parts,
         pc[t] = "idle", LoopFree(t), CloseConversation(t, outcome, p)
  PROVE  ClientStep
<1>1. Alone(t) /\ pc'[t] # pc[t]
  <2>1. Suspend(t, "closed_hook", NoContext)
    BY DEF CloseConversation
  <2>2. Alone(t)
    BY <2>1, StaysAlone DEF Steady
  <2> QED
    BY <2>1, <2>2 DEF Suspend, Steady, TypeOK
<1>2. Undisturbed'
  BY <1>1, AloneUndisturbed DEF Steady
<1>3. state' = "closed" /\ resolution'.outcome \in Outcomes /\ UNCHANGED <<mode, incarnation, parts>>
  BY DEF CloseConversation
<1>4. Orderly'
  BY <1>3, OrderlyKept DEF Steady
<1>5. state \in {"created", "active"}
  BY DEF Steady, Orderly, TypeOK, States, CloseConversation
<1> QED
  BY <1>2, <1>3, <1>4, <1>5 DEF ClientStep, ClientView

LEMMA CsatStep ==
  ASSUME Steady, NEW t \in Tasks, NEW score \in Scores, SetCsat(t, score)
  PROVE  ClientStep
<1>1. Alone(t) /\ LoopFree(t) /\ pc'[t] # pc[t]
  <2>1. Suspend(t, "csat_hook", NoContext) /\ pc[t] = "idle" /\ LoopFree(t)
    BY DEF SetCsat, CanStart
  <2>2. Alone(t)
    BY <2>1, StaysAlone DEF Steady
  <2> QED
    BY <2>1, <2>2 DEF Suspend, Steady, TypeOK
<1>2. Undisturbed'
  BY <1>1, AloneUndisturbed DEF Steady
<1>3. /\ resolution # NoResolution /\ resolution' = [resolution EXCEPT !.csat = score]
      /\ UNCHANGED <<state, mode, incarnation, parts, timers>> /\ state # "none"
  BY DEF SetCsat
<1>4. resolution'.outcome \in Outcomes
  <2>1. resolution \in Resolutions
    BY DEF Steady, TypeOK
  <2>2. resolution'.outcome = resolution.outcome
    BY <1>3, <2>1 DEF Resolutions
  <2> QED
    BY <1>3, <2>2 DEF Steady, Orderly
<1>5. Orderly'
  BY <1>3, <1>4, OrderlyKept DEF Steady
<1> QED
  BY <1>2, <1>3, <1>5 DEF ClientStep, ClientView

LEMMA JoinStep ==
  ASSUME Steady, NEW t \in Tasks, NEW p \in Participants, Join(t, p)
  PROVE  ClientStep
<1>1. /\ pc[t] = "idle" /\ LoopFree(t) /\ state # "none" /\ parts' = parts \union {p}
      /\ UNCHANGED <<state, mode, resolution, incarnation, timers>>
      /\ Suspend(t, "joined_hook", [NoContext EXCEPT !.who = p, !.seenMode = mode])
  BY DEF Join, CanStart
<1>2. PICK locals : locals.who = p /\ Suspend(t, "joined_hook", locals)
  <2> DEFINE locals == [NoContext EXCEPT !.who = p, !.seenMode = mode]
  <2>1. locals.who = p
    BY DEF NoContext
  <2> QED
    BY <1>1, <2>1
<1>3. /\ pc' = [pc EXCEPT ![t] = "joined_hook"] /\ ctx' = [ctx EXCEPT ![t] = locals]
  BY <1>2 DEF Suspend
<1>4. /\ \A u \in Tasks : u # t => pc'[u] = pc[u] /\ ctx'[u] = ctx[u]
      /\ pc'[t] = "joined_hook" /\ ctx'[t].who \in parts'
  BY <1>1, <1>2, <1>3 DEF Steady, TypeOK
<1>5. \A u \in Tasks : u # t => pc[u] \notin {"joined_hook", "message_hook"}
  BY <1>1, OnlyMover DEF Steady
<1>6. Undisturbed'
  BY <1>1, <1>4, <1>5 DEF Undisturbed, Steady
<1>7. Orderly'
  BY <1>1, OrderlyKept DEF Steady
<1> QED
  BY <1>1, <1>6, <1>7 DEF ClientStep, ClientView

LEMMA SendStep ==
  ASSUME Steady, NEW t \in Tasks, NEW p \in Participants, NEW requested, SendMessage(t, p, requested)
  PROVE  ClientStep
<1>1. /\ pc[t] = "idle" /\ LoopFree(t)
      /\ UNCHANGED <<state, mode, resolution, incarnation, parts, timers>>
  BY DEF SendMessage, CanStart
<1>2. PICK locals : locals.seenCreated = (state = "created") /\ Suspend(t, "message_hook", locals)
  <2> DEFINE vis == ApplyGate(mode, Role[p], requested)
             locals == [NoContext EXCEPT !.seenCreated = (state = "created"),
                                         !.gated = (vis # requested),
                                         !.msg = seq + 1]
  <2>1. locals.seenCreated = (state = "created")
    BY DEF NoContext
  <2> QED
    BY <2>1 DEF SendMessage
<1>3. /\ pc' = [pc EXCEPT ![t] = "message_hook"] /\ ctx' = [ctx EXCEPT ![t] = locals]
  BY <1>2 DEF Suspend
<1>4. /\ \A u \in Tasks : u # t => pc'[u] = pc[u] /\ ctx'[u] = ctx[u]
      /\ pc'[t] = "message_hook" /\ (ctx'[t].seenCreated = (state = "created"))
  BY <1>1, <1>2, <1>3 DEF Steady, TypeOK
<1>5. \A u \in Tasks : u # t => pc[u] \notin {"joined_hook", "message_hook"}
  BY <1>1, OnlyMover DEF Steady
<1>6. Undisturbed'
  BY <1>1, <1>4, <1>5 DEF Undisturbed, Steady
<1>7. Orderly'
  BY <1>1, OrderlyKept DEF Steady
<1> QED
  BY <1>1, <1>6, <1>7 DEF ClientStep, ClientView

LEMMA MessageHooksStep ==
  ASSUME Steady, NEW t \in Tasks, MessageHooksReturn(t)
  PROVE  ClientStep
<1>1. /\ pc[t] = "message_hook" /\ LoopFree(t) /\ Return(t)
      /\ UNCHANGED <<mode, resolution, incarnation, parts, timers>>
      /\ (ctx[t].seenCreated /\ state' = "active") \/ (~ ctx[t].seenCreated /\ state' = state)
  BY DEF MessageHooksReturn, Resumes
<1>2. Alone(t) /\ pc'[t] # pc[t]
  <2>1. Alone(t)
    BY <1>1, StaysAlone DEF Steady
  <2> QED
    BY <1>1, <2>1 DEF Return, Suspend, Steady, TypeOK
<1>3. Undisturbed'
  BY <1>1, <1>2, AloneUndisturbed DEF Steady
<1>4. state' = state \/ (state = "created" /\ state' = "active")
  BY <1>1 DEF Steady, Undisturbed
<1>5. Orderly'
  BY <1>1, <1>4, OrderlyKept DEF Steady
<1> QED
  BY <1>1, <1>3, <1>4, <1>5 DEF ClientStep, ClientView

LEMMA SwitchStep ==
  ASSUME Steady, NEW t \in Tasks, LoopFree(t), pc[t] # "mode_hook", pc[t] # "lock_wait",
         NEW target, NEW trigger, NEW pre, SwitchMode(t, target, trigger, pre)
  PROVE  Switches(target) /\ Undisturbed' /\ Alone(t)
<1>1. /\ Switches(target)
      /\ \A u \in Tasks : u # t => pc'[u] = pc[u] /\ ctx'[u] = ctx[u]
      /\ pc'[t] \in {"idle", "mode_hook"}
  BY SwitchesAtOnce DEF Steady
<1>2. Alone(t)
  BY <1>1 DEF Alone
<1>3. pc[t] \in {"joined_hook", "message_hook"} => pc'[t] # pc[t]
  BY <1>1
<1>4. Undisturbed'
  BY <1>2, <1>3, AloneUndisturbed DEF Steady
<1> QED
  BY <1>1, <1>2, <1>4

LEMMA LeaveStep ==
  ASSUME Steady, NEW t \in Tasks, NEW p \in Participants, Leave(t, p)
  PROVE  ClientStep
<1>1. /\ pc[t] = "idle" /\ LoopFree(t) /\ p \in parts /\ parts' = parts \ {p}
      /\ UNCHANGED <<state, resolution, incarnation, timers>>
  BY DEF Leave, CanStart
<1>2. state # "none" /\ Orderly'
  BY <1>1, OrderlyKept DEF Steady, Orderly
<1>3. HasOperator' <=> Operators' # {}
  BY DEF HasOperator, Operators
<1>4. CASE /\ mode = "copilot" /\ ~ HasOperator'
           /\ SwitchMode(t, "auto", "last_operator_left", <<Ev("participant.left")>>)
  <2>1. Switches("auto") /\ Undisturbed'
    BY <1>1, <1>4, SwitchStep
  <2> QED
    BY <1>1, <1>2, <1>3, <1>4, <2>1 DEF ClientStep, ClientView
<1>5. CASE /\ mode # "copilot" \/ HasOperator'
           /\ UNCHANGED <<mode, pc, ctx>>
  <2>1. Alone(t)
    BY <1>1, <1>5, StaysAlone DEF Steady
  <2>2. Undisturbed'
    BY <1>1, <2>1, AloneUndisturbed DEF Steady
  <2> QED
    BY <1>1, <1>2, <1>3, <1>5, <2>2 DEF ClientStep, ClientView
<1> QED
  BY <1>4, <1>5 DEF Leave

LEMMA CommandStep ==
  ASSUME Steady, NEW t \in Tasks, NEW p \in Participants, NEW c, HandleCommand(t, p, c)
  PROVE  ClientStep
<1>1. pc[t] = "idle" /\ LoopFree(t) /\ p \in parts /\ Role[p] \in {"operator", "observer"}
  BY DEF HandleCommand, CanStart
<1>2. CASE /\ c \in ModeCommands
           /\ SwitchMode(t, CommandTarget[c], "command", <<>>)
           /\ UNCHANGED <<state, resolution, incarnation, parts, msgs, seq, timers>>
  <2>1. Switches(CommandTarget[c]) /\ Undisturbed'
    BY <1>1, <1>2, SwitchStep
  <2>2. state # "none" /\ Orderly'
    BY <1>1, <1>2, OrderlyKept DEF Steady, Orderly
  <2>3. CommandTarget[c] \in Modes
    BY <1>2 DEF CommandTarget, ModeCommands, Modes
  <2>4. Operators # {} \/ Unattended
    BY <1>1 DEF Operators, Unattended
  <2> QED
    BY <1>2, <2>1, <2>2, <2>3, <2>4 DEF ClientStep, ClientView
<1>3. CASE c \in CloseCommands /\ CloseConversation(t, CommandOutcome[c], p)
  <2>1. CommandOutcome[c] \in Outcomes
    BY <1>3 DEF CommandOutcome, CloseCommands, Outcomes
  <2> QED
    BY <1>1, <1>3, <2>1, CloseStep
<1> QED
  BY <1>2, <1>3 DEF HandleCommand

LEMMA TimerStep ==
  ASSUME Steady, NEW t \in Tasks, NEW name \in TimerNames, TimerExpires(t, name)
  PROVE  ClientStep
<1>1. /\ pc[t] = "idle" /\ LoopFree(t) /\ timers[name] # Off /\ timers' = [timers EXCEPT ![name] = Off]
      /\ UNCHANGED <<state, resolution, incarnation, parts>>
  BY DEF TimerExpires, CanStart
<1>2. state # "none" /\ timers[name] \in OnExpire
  BY <1>1 DEF Steady, Orderly, TypeOK
<1>3. Orderly'
  BY <1>1, <1>2, OrderlyKept DEF Steady
<1>4. CASE \E fired : timers[name] \in Modes /\ SwitchMode(t, timers[name], "timer", fired)
  <2>1. Switches(timers[name]) /\ Undisturbed'
    BY <1>1, <1>4, SwitchStep
  <2> QED
    BY <1>1, <1>2, <1>3, <1>4, <2>1 DEF ClientStep, ClientView, Unattended
<1>5. CASE mode' = mode /\ (UNCHANGED <<pc, ctx>> \/ Suspend(t, "timer_hook", NoContext))
  <2>1. Alone(t)
    BY <1>1, <1>5, StaysAlone DEF Steady
  <2>2. Undisturbed'
    BY <1>1, <2>1, AloneUndisturbed DEF Steady
  <2> QED
    BY <1>1, <1>3, <1>5, <2>2 DEF ClientStep, ClientView
<1> QED
  BY <1>4, <1>5 DEF TimerExpires

LEMMA JoinHooksStep ==
  ASSUME Steady, NEW t \in Tasks, JoinHooksReturn(t)
  PROVE  ClientStep
<1>1. /\ pc[t] = "joined_hook" /\ LoopFree(t)
      /\ UNCHANGED <<state, resolution, incarnation, parts, timers>>
  BY DEF JoinHooksReturn, Resumes
<1>2. state # "none" /\ ctx[t].who \in parts
  BY <1>1 DEF Steady, Undisturbed
<1>3. Orderly'
  BY <1>1, OrderlyKept DEF Steady
<1>4. CASE Role[ctx[t].who] = "operator" /\ SwitchMode(t, "copilot", "operator_join", <<>>)
  <2>1. Switches("copilot") /\ Undisturbed'
    BY <1>1, <1>4, SwitchStep
  <2>2. Operators # {} /\ "copilot" \in Modes
    BY <1>2, <1>4 DEF Operators, Modes
  <2> QED
    BY <1>1, <1>2, <1>3, <2>1, <2>2 DEF ClientStep, ClientView
<1>5. CASE Return(t) /\ mode' = mode
  <2>1. Alone(t) /\ pc'[t] # pc[t]
    BY <1>1, <1>5, StaysAlone DEF Steady, Return, Suspend, TypeOK
  <2>2. Undisturbed'
    BY <1>1, <2>1, AloneUndisturbed DEF Steady
  <2> QED
    BY <1>1, <1>3, <1>5, <2>2 DEF ClientStep, ClientView
<1> QED
  BY <1>4, <1>5 DEF JoinHooksReturn

LEMMA NextClientStep ==
  ASSUME Steady, Next
  PROVE  ClientStep
<1>1. PICK t \in Tasks : Call(t) \/ Resume(t) \/ HookFails(t)
  BY DEF Next
<1>2. ~ LockGranted(t)
  BY DEF LockGranted, Resumes, Steady, Undisturbed
<1> QED
  BY <1>1, <1>2, PlainSteps, CreateStep, CsatStep, JoinStep, SendStep, MessageHooksStep, LeaveStep,
     CommandStep, TimerStep, JoinHooksStep DEF Call, Resume

(* With the shipped hooks no call is disturbed.                            *)
LEMMA StaysSteady ==
  ASSUME ShippedHooks
  PROVE  Spec => [](Undisturbed /\ Orderly) /\ [][ClientStep]_vars
<1>1. Init => Undisturbed /\ Orderly
  BY DEF Init, Undisturbed, Orderly
<1>2. TypeOK /\ ModeLock /\ Undisturbed /\ Orderly /\ [Next]_vars
        => (Undisturbed /\ Orderly)' /\ [ClientStep]_vars
  <2>1. ASSUME TypeOK, ModeLock, Undisturbed, Orderly, Next PROVE (Undisturbed /\ Orderly)' /\ ClientStep
    BY <2>1, NextClientStep DEF Steady, ClientStep
  <2>2. ASSUME Undisturbed, Orderly, UNCHANGED vars PROVE (Undisturbed /\ Orderly)'
    BY <2>2 DEF vars, Undisturbed, Orderly
  <2> QED
    BY <2>1, <2>2
<1> QED
  BY <1>1, <1>2, TypeCorrect, LockCorrect, PTL DEF Spec

(* When no hook around modes, joins and messages suspends, no timer asks   *)
(* for copilot and only operators give commands, an open conversation in   *)
(* copilot has an operator in it: joins put it there, the last one to      *)
(* leave takes it back to auto.                                            *)
THEOREM CopilotIsAttended ==
  ASSUME ShippedHooks, ~ Unattended
  PROVE  Spec => []CopilotHasOperator
<1> DEFINE Attended == state # "closed" /\ mode = "copilot" => Operators # {}
<1>1. Init => Attended
  BY DEF Init
<1>2. Attended /\ [ClientStep]_vars => Attended'
  <2>1. ASSUME Attended, ClientStep PROVE Attended'
    <3> SUFFICES ASSUME state' # "closed", mode' = "copilot" PROVE Operators' # {}
      OBVIOUS
    <3>1. parts' = parts => Operators' = Operators
      BY DEF Operators
    <3>2. parts \subseteq parts' => Operators \subseteq Operators'
      BY DEF Operators
    <3> QED
      BY <2>1, <3>1, <3>2 DEF ClientStep, ClientView, Switches
  <2>2. ASSUME Attended, UNCHANGED vars PROVE Attended'
    BY <2>2 DEF vars, Operators
  <2> QED
    BY <2>1, <2>2
<1>3. Attended => CopilotHasOperator
  BY DEF CopilotHasOperator, HasOperator, Operators
<1> QED
  BY <1>1, <1>2, <1>3, StaysSteady, PTL DEF Spec

(* With the shipped hooks the engine implements the contract its clients   *)
(* rely on: every step is one of the contract's, or changes nothing it     *)
(* speaks of.                                                              *)
THEOREM EngineKeepsContract ==
  ASSUME ShippedHooks
  PROVE  Spec => ContractSpec
<1>1. Init => Contract!Init
  BY DEF Init, Contract!Init, NoResolution
<1>2. TypeOK /\ Orderly /\ [ClientStep]_vars => [Contract!Next]_(Contract!cvars)
  <2>1. ASSUME TypeOK, Orderly, ClientView PROVE Contract!Next \/ UNCHANGED Contract!cvars
    <3>1. CASE UNCHANGED <<state, mode, resolution, incarnation, parts>>
      BY <3>1 DEF Contract!cvars
    <3>2. CASE /\ state \in {"none", "closed"} /\ state' = "created" /\ mode' = "auto"
               /\ resolution' = NoResolution /\ incarnation' = incarnation + 1 /\ parts' = {}
      <4>1. incarnation' # incarnation
        BY <2>1, <3>2 DEF TypeOK
      <4> QED
        BY <3>2, <4>1 DEF Contract!Next, Contract!Create, Contract!Open, NoResolution
    <3>3. CASE /\ state = "created" /\ state' = "active"
               /\ UNCHANGED <<mode, resolution, incarnation, parts>>
      BY <3>3 DEF Contract!Next, Contract!Activate
    <3>4. CASE /\ state \in {"created", "active"} /\ state' = "closed" /\ resolution'.outcome \in Outcomes
               /\ UNCHANGED <<mode, incarnation, parts>>
      BY <3>4 DEF Contract!Next, Contract!Close, Contract!Open, Outcomes
    <3>5. CASE /\ state # "none"
               /\ \E target \in Modes : Switches(target)
               /\ UNCHANGED <<state, resolution, incarnation, parts>>
      <4>1. CASE mode' = mode
        BY <3>5, <4>1 DEF Contract!cvars
      <4>2. CASE mode' \in Modes /\ state # "closed"
        <5>1. state \in {"created", "active"}
          BY <2>1, <3>5, <4>2 DEF TypeOK, States
        <5> QED
          BY <3>5, <4>2, <5>1 DEF Contract!Next, Contract!SwitchMode, Contract!Open, Modes
      <4> QED
        BY <3>5, <4>1, <4>2 DEF Switches
    <3>6. CASE /\ state # "none" /\ parts \subseteq parts'
               /\ UNCHANGED <<state, mode, resolution, incarnation>>
      BY <3>6 DEF Contract!Next, Contract!OperatorJoins
    <3>7. CASE /\ parts' \subseteq parts /\ state # "none"
               /\ \/ mode = "copilot" /\ Operators' = {} /\ Switches("auto")
                  \/ mode' = mode /\ (mode # "copilot" \/ Operators' # {})
               /\ UNCHANGED <<state, resolution, incarnation>>
      <4>1. state # "closed" => state \in {"created", "active"}
        BY <2>1, <3>7 DEF TypeOK, States
      <4> QED
        BY <3>7, <4>1 DEF Contract!Next, Contract!OperatorLeaves, Contract!Open, Operators, Switches
    <3>8. CASE /\ resolution # NoResolution /\ \E score \in Scores : resolution' = [resolution EXCEPT !.csat = score]
               /\ UNCHANGED <<state, mode, incarnation, parts>>
      <4>1. PICK score \in Scores : resolution' = [resolution EXCEPT !.csat = score]
        BY <3>8
      <4>2. resolution \in Resolutions /\ resolution.outcome \in Outcomes
        BY <2>1, <3>8 DEF TypeOK, Orderly
      <4>3. resolution' = [resolution EXCEPT !.csat = resolution'.csat]
        <5>1. resolution'.csat = score
          BY <4>1, <4>2 DEF Resolutions
        <5> QED
          BY <4>1, <5>1
      <4> QED
        BY <3>8, <4>2, <4>3 DEF Contract!Next, Contract!Rate, Outcomes
    <3> QED
      BY <2>1, <3>1, <3>2, <3>3, <3>4, <3>5, <3>6, <3>7, <3>8 DEF ClientView
  <2>2. UNCHANGED vars => UNCHANGED Contract!cvars
    BY DEF vars, Contract!cvars
  <2> QED
    BY <2>1, <2>2 DEF ClientStep
<1> QED
  BY <1>1, <1>2, StaysSteady, TypeCorrect, PTL DEF Spec, ContractSpec, Contract!Spec
=============================================================================
