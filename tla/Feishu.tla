-------------------------------- MODULE Feishu --------------------------------
(* The Feishu side of the channel server. A thread of the Feishu client     *)
(* takes messages in, drops those it has seen, and puts the others on the   *)
(* event loop's queue, with the mode their chat is in. One consumer handles *)
(* them in turn: administrators' commands itself, the rest by route_message.*)
(* A chat routed to the pool has a task per message, which shows the reply  *)
(* while it is generated: a Feishu message is sent with the first pieces    *)
(* and edited with the next ones, and the tool call that ends the reply     *)
(* sets the final text. The tasks of a chat share one instance of the pool  *)
(* and read one stream of its messages. Feishu is called from threads:      *)
(* calls end in any order, and may fail.                                    *)
EXTENDS Integers, Sequences, FiniteSets, SequencesExt

CONSTANTS Chats, AdminChats,  \* chats; those that may give commands
          Contents,           \* what is written: [chat, text]
          Routes,             \* where route_message leads: "pool", "instance"
          Pieces,             \* pieces a reply is generated in
          MaxMessages,        \* bound on the messages written
          MaxSeen,            \* messages remembered before all are forgotten
          MaxForgets,         \* bound on that, for messages delivered again
          MaxFailures         \* bound on the failing calls of Feishu

ASSUME FeishuAssumption ==
  /\ \A w \in Contents : w.chat \in Chats
  /\ "none" \notin Chats
  /\ Pieces \in Nat /\ MaxMessages \in Nat /\ MaxFailures \in Nat

VARIABLES
  content,   \* per message, history: what was written, [chat, text]
  seen,      \* _seen
  forgets,   \* history: how often it was cleared
  known,     \* _known_chats
  modes,     \* _chat_modes
  prev,      \* _discuss_prev_modes
  discuss,   \* _discuss_sessions: "none", "fresh", "idle" by its timestamp
  queue,     \* the queue to the event loop
  consumer,  \* what the consumer does: waits for "nothing", a "route" or the
             \* "end" of a discussion, lists the chats for "status", "inject";
             \* "ended" by an exception
  at,        \* the chat it waits for
  handled,   \* history, per message: how often the consumer handled it
  idlers,    \* the chats the idle checker has still to remind
  turn,      \* per message: its pool task, [phase, waits, called]
  prompts,   \* per chat: the prompts sent whose output is not all read
  read,      \* per chat: how much of the first one's output is read
  stream,    \* per chat: _stream_states, [turn, live, begun, last]
  calls,     \* calls of Feishu in progress
  reached,   \* history: replies whose final text was shown
  gaveUp,    \* history: replies whose last resort, a plain send, failed
  failures

intake == <<content, seen, forgets, known>>
admin  == <<modes, prev, discuss, consumer, at, handled, idlers>>
prompting == <<prompts, read>>
replies == <<turn, prompting, stream, calls, reached, gaveUp, failures>>
feishuVars == <<intake, admin, queue, replies>>

Msgs     == 1..MaxMessages
Nobody   == 0
Nothing  == [of |-> Nobody, upto |-> 0]
Text(m, n) == [of |-> m, upto |-> n]
Final(m) == Text(m, Pieces)
NoTurn   == [phase |-> "none", waits |-> FALSE, called |-> "no"]
NoStream == [turn |-> Nobody, live |-> FALSE, begun |-> FALSE, last |-> Nothing]

FeishuInit ==
  /\ content = <<>> /\ seen = {} /\ forgets = 0 /\ known = {}
  /\ modes = [c \in Chats |-> "production"]
  /\ prev = [c \in Chats |-> "none"]
  /\ discuss = [c \in Chats |-> "none"]
  /\ queue = <<>> /\ consumer = "nothing" /\ at = "none"
  /\ handled = [m \in Msgs |-> 0] /\ idlers = {}
  /\ turn = [m \in Msgs |-> NoTurn]
  /\ prompts = [c \in Chats |-> <<>>] /\ read = [c \in Chats |-> 0]
  /\ stream = [c \in Chats |-> NoStream]
  /\ calls = {} /\ reached = {} /\ gaveUp = {} /\ failures = 0

-------------------------------------------------------------------------------
(* on_message, in Feishu's thread                                           *)

Item(m, mode) == [m |-> m, mode |-> mode]
Notice        == Item(Nobody, "notice")

(* A defect: messages are not remembered.                                   *)
RememberNothing(m) == seen' = seen /\ forgets' = forgets

Remember(m) == IF Cardinality(seen) > MaxSeen
               THEN seen' = {m} /\ forgets' = forgets + 1
               ELSE seen' = seen \cup {m} /\ UNCHANGED forgets

(* A chat that becomes known while the event loop lists the known ones      *)
(* (_known_chats.items()) changes the dictionary under that iteration: the  *)
(* RuntimeError ends the consumer, which catches only its cancellation.     *)
Listing == consumer \in {"status", "inject"}

(* A message carries the mode of its chat when it comes in; /improve and    *)
(* /production set it. A chat's first message is told to the administrator. *)
TakesIn(m, c, text) ==
  /\ m \notin seen
  /\ Remember(m)
  /\ known' = known \cup {c}
  /\ consumer' = IF Listing /\ c \notin known THEN "ended" ELSE consumer
  /\ IF text \in {"improve", "production"}
     THEN modes' = [modes EXCEPT ![c] = text] /\ queue' = Append(queue, Item(m, text))
     ELSE /\ UNCHANGED modes
          /\ queue' = Append(queue, Item(m, modes[c]))
                      \o (IF c \in known \cup AdminChats THEN <<>> ELSE <<Notice>>)
  /\ UNCHANGED <<prev, discuss, at, handled, idlers, replies>>

Arrives == \E w \in Contents :
  /\ Len(content) < MaxMessages
  /\ content' = Append(content, w)
  /\ TakesIn(Len(content'), w.chat, w.text)

(* Feishu delivers a message again, which may take it in again once _seen   *)
(* was cleared: not while it waits or something of it is in progress, which *)
(* is a bound.                                                              *)
Settled(m) ==
  /\ turn[m].phase \in {"none", "done"}
  /\ ~ \E i \in DOMAIN queue : queue[i].m = m
  /\ ~ \E i \in DOMAIN prompts[content[m].chat] : prompts[content[m].chat][i] = m
  /\ \A k \in calls : m \notin {k.m, k.for}

ArrivesAgain == \E m \in 1..Len(content) :
  /\ forgets < MaxForgets
  /\ Settled(m)
  /\ TakesIn(m, content[m].chat, content[m].text)
  /\ UNCHANGED content

-------------------------------------------------------------------------------
(* The consumer, the commands and the discussions                           *)

(* route_message of a message of a chat, in a mode: a discussion's activity *)
(* is noted, and a pool task may start. The consumer waits for its end.     *)
RouteMessage(m, c, mode) ==
  /\ discuss' = IF mode = "discuss" THEN [discuss EXCEPT ![c] = "fresh"] ELSE discuss
  /\ at' = c
  /\ \E r \in Routes :
       turn' = IF r = "pool" /\ m # Nobody /\ turn[m].phase \in {"none", "done"}
               THEN [turn EXCEPT ![m] = [NoTurn EXCEPT !.phase = "created"]] ELSE turn

(* _handle_admin_message. What a command answers itself is left out.        *)
Command(m, c, text) ==
  \/ /\ text = "discuss"
     /\ prev' = [prev EXCEPT ![c] = modes[c]]
     /\ modes' = [modes EXCEPT ![c] = "discuss"]
     /\ RouteMessage(Nobody, c, "discuss")
     /\ consumer' = "route"
  \/ /\ text = "discuss_end"
     /\ RouteMessage(Nobody, c, "discuss")
     /\ consumer' = "end"
     /\ UNCHANGED <<prev, modes>>
  \/ /\ text = "discuss_status"
     /\ RouteMessage(Nobody, c, "discuss")
     /\ consumer' = "route"
     /\ UNCHANGED <<prev, modes>>
  \/ /\ text = "inject"                         \* with the id of a chat
     /\ \E d \in Chats : RouteMessage(Nobody, d, "production")
     /\ consumer' = "route"
     /\ UNCHANGED <<prev, modes>>
  \/ /\ text \in {"inject_number", "status"}
     /\ consumer' = IF text = "status" THEN "status" ELSE "inject"
     /\ UNCHANGED <<prev, modes, discuss, at, turn>>
  \/ /\ text = "help"
     /\ UNCHANGED <<prev, modes, discuss, consumer, at, turn>>

Commands == {"discuss", "discuss_end", "discuss_status", "inject", "inject_number",
             "status", "help"}

Consumes ==
  /\ consumer = "nothing"
  /\ queue # <<>>
  /\ queue' = Tail(queue)
  /\ LET i == Head(queue) IN
     \/ /\ i = Notice
        /\ UNCHANGED <<admin, turn>>
     \/ /\ i # Notice
        /\ handled' = [handled EXCEPT ![i.m] = @ + 1]
        /\ UNCHANGED idlers
        /\ LET w == content[i.m] IN
           IF w.chat \in AdminChats /\ w.text \in Commands
           THEN Command(i.m, w.chat, w.text)
           ELSE /\ RouteMessage(i.m, w.chat, i.mode)
                /\ consumer' = "route"
                /\ UNCHANGED <<prev, modes>>
  /\ UNCHANGED <<intake, prompting, stream, calls, reached, gaveUp, failures>>

(* The chats are listed (_chat_index): for /status, and that is all, or to  *)
(* find the one an /inject means, if there is such a one. The event loop    *)
(* does nothing else meanwhile; what else the model lets it do commutes.    *)
Lists ==
  /\ Listing
  /\ \/ consumer' = "nothing" /\ UNCHANGED <<discuss, at, turn>>
     \/ /\ consumer = "inject"
        /\ \E d \in known : RouteMessage(Nobody, d, "production")
        /\ consumer' = "route"
  /\ UNCHANGED <<intake, modes, prev, handled, idlers, queue, prompting, stream, calls,
                 reached, gaveUp, failures>>

(* route_message returns; the end of a discussion restores the chat's mode. *)
RouteReturns ==
  /\ consumer = "route"
  /\ consumer' = "nothing" /\ at' = "none"
  /\ UNCHANGED <<intake, modes, prev, discuss, handled, idlers, queue, replies>>

DiscussEnds ==
  /\ consumer = "end"
  /\ consumer' = "nothing" /\ at' = "none"
  /\ modes' = [modes EXCEPT ![at] = IF prev[at] = "none" THEN "production" ELSE prev[at]]
  /\ prev' = [prev EXCEPT ![at] = "none"]
  /\ discuss' = [discuss EXCEPT ![at] = "none"]
  /\ UNCHANGED <<intake, handled, idlers, queue, replies>>

(* DISCUSS_IDLE_TIMEOUT passes without a message.                           *)
TimePasses(c) ==
  /\ discuss[c] = "fresh"
  /\ discuss' = [discuss EXCEPT ![c] = "idle"]
  /\ UNCHANGED <<intake, modes, prev, consumer, at, handled, idlers, queue, replies>>

(* _check_discuss_idle: the idle chats of one moment are reminded in turn;  *)
(* after the sends the clock of each is set, ended meanwhile or not.        *)
ChecksIdle ==
  /\ idlers = {}
  /\ idlers' = {c \in Chats : discuss[c] = "idle"}
  /\ idlers' # {}
  /\ UNCHANGED <<intake, modes, prev, discuss, consumer, at, handled, queue, replies>>

(* A defect: the clock goes on.                                             *)
ClockStays(c) == discuss
ClockIsSet(c) == [discuss EXCEPT ![c] = "fresh"]

Reminds(c) ==
  /\ c \in idlers
  /\ idlers' = idlers \ {c}
  /\ discuss' = ClockIsSet(c)
  /\ UNCHANGED <<intake, modes, prev, consumer, at, handled, queue, replies>>

-------------------------------------------------------------------------------
(* _handle_pool_message: a task per message                                 *)

Chat(m) == content[m].chat
Call(m, kind, text, for) == [m |-> m, kind |-> kind, text |-> text, for |-> for]

TaskStarts(m) ==
  /\ turn[m].phase = "created"
  /\ turn' = [turn EXCEPT ![m].phase = "waiting"]
  /\ stream' = [stream EXCEPT ![Chat(m)] = [NoStream EXCEPT !.turn = m]]
  /\ UNCHANGED <<intake, admin, queue, prompting, calls, reached, gaveUp, failures>>

(* session_query: the prompt goes to the instance the chat is bound to, also*)
(* while it works on an earlier one; it takes its prompts in their order.   *)
Asks(m) ==
  /\ turn[m].phase = "waiting"
  /\ turn' = [turn EXCEPT ![m].phase = "running"]
  /\ prompts' = [prompts EXCEPT ![Chat(m)] = Append(@, m)]
  /\ UNCHANGED <<intake, admin, queue, read, stream, calls, reached, gaveUp, failures>>

(* Per prompt the instance puts out the start of a reply, its pieces and its*)
(* stop, calls the tool, and puts out its result. The tasks of the chat read*)
(* one stream: each event goes to one of them, whoever's prompt it is for.  *)
Stop == Pieces + 2

Cleared(s) == [s EXCEPT !.begun = FALSE, !.last = Nothing]

CanRead(m) == turn[m].phase = "running" /\ ~turn[m].waits /\ prompts[Chat(m)] # <<>>

(* _handle_stream_event: the state of the chat, which the task of a later   *)
(* message may have replaced.                                               *)
Takes(m) ==
  LET c == Chat(m)
      e == read[c] + 1
      s == stream[c]
      b == Text(Head(prompts[c]), e - 1)
      Waits(kind) ==
        /\ calls' = calls \cup {Call(m, kind, b, s.turn)}
        /\ turn' = [turn EXCEPT ![m].waits = TRUE]
      Moves == UNCHANGED <<turn, calls>>
  IN
  /\ CanRead(m)
  /\ e <= Stop
  /\ read' = [read EXCEPT ![c] = e]
  /\ \/ /\ e = 1
        /\ stream' = [stream EXCEPT ![c] = [Cleared(s) EXCEPT !.live = TRUE]]
        /\ Moves
     \/ e \in 2..(Pieces + 1) /\ ~s.live /\ Moves /\ UNCHANGED stream
     \/ /\ e \in 2..(Pieces + 1) /\ s.live /\ UNCHANGED stream
        /\ \/ Moves                                        \* too short yet, or too soon
           \/ Waits(IF s.begun THEN "edit" ELSE "send")
     \/ e = Stop /\ stream' = [stream EXCEPT ![c].live = FALSE] /\ Moves
  /\ UNCHANGED <<intake, admin, queue, prompts, reached, gaveUp, failures>>

(* The task that takes the result of a prompt ends, its own or another's.   *)
TakesResult(m) ==
  LET c == Chat(m) IN
  /\ CanRead(m)
  /\ read[c] = Stop
  /\ turn[Head(prompts[c])].called = "done"
  /\ prompts' = [prompts EXCEPT ![c] = Tail(@)]
  /\ read' = [read EXCEPT ![c] = 0]
  /\ turn' = [turn EXCEPT ![m].phase = "done"]
  /\ UNCHANGED <<intake, admin, queue, stream, calls, reached, gaveUp, failures>>

(* session_query raises: no instance, a prompt that does not get through,   *)
(* messages that do not come; the task logs it and ends.                    *)
TaskFails(m) ==
  /\ turn[m].phase \in {"waiting", "running", "cut"}
  /\ ~turn[m].waits
  /\ turn' = [turn EXCEPT ![m].phase = "done"]
  /\ UNCHANGED <<intake, admin, queue, prompting, stream, calls, reached, gaveUp, failures>>

(* The instance dies, and its stream ends for all who read it: they cannot  *)
(* go on with the instance the chat is bound to next.                       *)
InstanceDies(c) ==
  /\ prompts[c] # <<>>
  /\ prompts' = [prompts EXCEPT ![c] = <<>>]
  /\ read' = [read EXCEPT ![c] = 0]
  /\ turn' = [m \in Msgs |-> IF turn[m].phase = "running" /\ Chat(m) = c
                             THEN [turn[m] EXCEPT !.phase = "cut"] ELSE turn[m]]
  /\ UNCHANGED <<intake, admin, queue, stream, calls, reached, gaveUp, failures>>

(* _pool_reply_callback, called by the instance when the reply to a prompt  *)
(* is complete, whether a task reads its output or not: a message begun is  *)
(* edited, otherwise one is sent.                                           *)
WorksOn(m) ==
  \E i \in DOMAIN prompts[Chat(m)] :
    /\ prompts[Chat(m)][i] = m
    /\ \A j \in 1..(i - 1) : turn[prompts[Chat(m)][j]].called = "done"

Replies(m) ==
  LET c == Chat(m)
      s == stream[c]
      Goes(kind) == calls' = calls \cup {Call(m, kind, Final(m), s.turn)}
  IN
  /\ m \in 1..Len(content) /\ WorksOn(m)
  /\ turn[m].called = "no"
  /\ \/ /\ s.begun /\ s.last # Final(m)
        /\ Goes("finish")
        /\ turn' = [turn EXCEPT ![m].called = "waits"]
        /\ UNCHANGED stream
     \/ /\ s.begun /\ s.last = Final(m)
        /\ stream' = [stream EXCEPT ![c] = Cleared(s)]
        /\ turn' = [turn EXCEPT ![m].called = "done"]
        /\ UNCHANGED calls
     \/ /\ ~s.begun
        /\ Goes("reply")
        /\ turn' = [turn EXCEPT ![m].called = "done"]
        /\ UNCHANGED stream
  /\ UNCHANGED <<intake, admin, queue, prompting, reached, gaveUp, failures>>

-------------------------------------------------------------------------------
(* Calls of Feishu                                                          *)

Shows(k) == reached' = IF k.text.upto = Pieces THEN reached \cup {k.text.of} ELSE reached

(* What the code does with the result: only the state the call was for, if  *)
(* it is still the chat's, is of use.                                       *)
Mine(k) == stream[Chat(k.m)].turn = k.for

(* A defect: the text counts as shown before the edit has succeeded.        *)
AfterFailureShown(k) == [stream EXCEPT ![Chat(k.m)].last = k.text]
AfterFailure(k)      == stream

CallEnds(k) ==
  /\ k \in calls
  /\ Shows(k)
  /\ calls' = calls \ {k}
  /\ stream' = IF ~Mine(k) THEN stream
               ELSE CASE k.kind = "send" -> [stream EXCEPT ![Chat(k.m)].begun = TRUE,
                                                           ![Chat(k.m)].last = k.text]
                      [] k.kind = "edit" -> [stream EXCEPT ![Chat(k.m)].last = k.text]
                      [] k.kind = "finish" -> [stream EXCEPT ![Chat(k.m)] = Cleared(@)]
                      [] k.kind = "reply" -> stream
  /\ turn' = CASE k.kind \in {"send", "edit"} -> [turn EXCEPT ![k.m].waits = FALSE]
               [] k.kind = "finish" -> [turn EXCEPT ![k.m].called = "done"]
               [] k.kind = "reply" -> turn
  /\ UNCHANGED <<intake, admin, queue, prompting, gaveUp, failures>>

(* A final edit that fails is sent as a new message.                        *)
CallFails(k) ==
  /\ k \in calls
  /\ failures < MaxFailures
  /\ failures' = failures + 1
  /\ calls' = (calls \ {k}) \cup (IF k.kind = "finish" THEN {[k EXCEPT !.kind = "reply"]} ELSE {})
  /\ stream' = IF ~Mine(k) THEN stream
               ELSE IF k.kind = "finish" THEN [stream EXCEPT ![Chat(k.m)] = Cleared(@)]
               ELSE IF k.kind = "edit" THEN AfterFailure(k) ELSE stream
  /\ turn' = CASE k.kind \in {"send", "edit"} -> [turn EXCEPT ![k.m].waits = FALSE]
               [] k.kind = "finish" -> [turn EXCEPT ![k.m].called = "done"]
               [] k.kind = "reply" -> turn
  /\ gaveUp' = IF k.kind = "reply" THEN gaveUp \cup {k.m} ELSE gaveUp
  /\ UNCHANGED <<intake, admin, queue, prompting, reached>>

-------------------------------------------------------------------------------
FeishuNext ==
  \/ Arrives \/ ArrivesAgain
  \/ Consumes \/ Lists \/ RouteReturns \/ DiscussEnds
  \/ \E c \in Chats : TimePasses(c) \/ Reminds(c) \/ InstanceDies(c)
  \/ ChecksIdle
  \/ \E m \in Msgs : \/ TaskStarts(m) \/ Asks(m) \/ Takes(m) \/ TakesResult(m)
                     \/ TaskFails(m) \/ Replies(m)
  \/ \E k \in calls : CallEnds(k) \/ CallFails(k)

(* The consumer and the idle checker are loops of their own.                *)
FeishuFairness ==
  /\ WF_feishuVars(Consumes) /\ WF_feishuVars(Lists)
  /\ WF_feishuVars(RouteReturns) /\ WF_feishuVars(DiscussEnds)
  /\ WF_feishuVars(ChecksIdle) /\ \A c \in Chats : WF_feishuVars(Reminds(c))
FeishuSpec == FeishuInit /\ [][FeishuNext]_feishuVars /\ FeishuFairness

-------------------------------------------------------------------------------
(* Properties                                                               *)

(* Every variable has its type.                                             *)
Mode  == {"production", "improve", "discuss"}
Texts == [of : {Nobody} \cup Msgs, upto : 0..Pieces]
FeishuTypeOK ==
  /\ content \in Seq(Contents) /\ Len(content) <= MaxMessages
  /\ seen \subseteq Msgs /\ forgets \in Nat /\ known \subseteq Chats
  /\ modes \in [Chats -> Mode] /\ prev \in [Chats -> Mode \cup {"none"}]
  /\ discuss \in [Chats -> {"none", "fresh", "idle"}] /\ idlers \subseteq Chats
  /\ queue \in Seq([m : {Nobody} \cup Msgs, mode : Mode \cup {"notice"}])
  /\ consumer \in {"nothing", "route", "end", "status", "inject", "ended"} /\ at \in Chats \cup {"none"}
  /\ handled \in [Msgs -> Nat]
  /\ turn \in [Msgs -> [phase : {"none", "created", "waiting", "running", "cut", "done"},
                        waits : BOOLEAN, called : {"no", "waits", "done"}]]
  /\ prompts \in [Chats -> Seq(Msgs)] /\ read \in [Chats -> 0..Stop]
  /\ stream \in [Chats -> [turn : {Nobody} \cup Msgs, live : BOOLEAN, begun : BOOLEAN, last : Texts]]
  /\ calls \subseteq [m : Msgs, kind : {"send", "edit", "finish", "reply"}, text : Texts,
                     for : {Nobody} \cup Msgs]
  /\ reached \subseteq Msgs /\ gaveUp \subseteq Msgs /\ failures \in 0..MaxFailures

(* However often Feishu delivers a message it is handled once, unless the   *)
(* set of seen messages was cleared meanwhile (on_message, _seen).          *)
HandledOnce == FeishuTypeOK /\ \A m \in Msgs : handled[m] <= 1 + forgets

(* The final text of a reply is shown at some time, unless even a plain     *)
(* send failed: whatever calls of the stream are in progress, fail, or come *)
(* back late, whichever tasks read the stream, have failed or been cut off, *)
(* and whichever owns the chat's state by then. Only the call that ends the *)
(* reply may be under way, not an edit that happens to have the whole text. *)
FinalTextShown == \A m \in Msgs :
  turn[m].called = "done" => \/ m \in reached \cup gaveUp
                             \/ \E k \in calls : k.kind = "reply" /\ k.text = Final(m)

(* The loops of the event loop go on: each message that was accepted is     *)
(* handled unless the consumer has ended by an exception, and an idle       *)
(* discussion is reminded of, with a new start of its clock, or ended, also *)
(* when the consumer is gone.                                               *)
LoopsGoOn == /\ \A m \in Msgs : (m \in seen) ~> (handled[m] >= 1 \/ consumer = "ended")
             /\ \A c \in Chats : []<>(discuss[c] # "idle")
=============================================================================
