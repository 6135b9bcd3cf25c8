---------------------------- MODULE ChannelProofs -----------------------------
(* Machine-checked theorems about the channel server: the intake and the       *)
(* streamed replies of Feishu (Feishu), and the connections, route tables and  *)
(* copies of messages (ChannelServer).                                         *)
EXTENDS Feishu, ChannelServer, SequenceTheorems, FiniteSetTheorems, TLAPS

-----------------------------------------------------------------------------
(* Proofs about Feishu. The intake: what waits in the queue, and how often a   *)
(* message was handled, against how often the seen messages were forgotten.    *)

Arrived == 1..Len(content)

Waiting(m) == \E i \in DOMAIN queue : queue[i].m = m

(* A message waits once, and what is not a message is the notice.              *)
QueueIsSound ==
  /\ \A i \in DOMAIN queue : /\ queue[i].m \in {Nobody} \cup Arrived
                             /\ queue[i].m = Nobody => queue[i] = Notice
  /\ \A i, j \in DOMAIN queue : queue[i].m = queue[j].m /\ queue[i].m # Nobody => i = j

(* handled[m], and one more if m waits, is at most forgets, and one more if m  *)
(* is remembered.                                                              *)
Counted(m) ==
  /\ handled[m] <= forgets + 1
  /\ m \notin seen => handled[m] <= forgets
  /\ Waiting(m) => handled[m] <= forgets /\ (m \notin seen => handled[m] < forgets)
  /\ m \notin Arrived => handled[m] = 0

IntakeIInv == /\ QueueIsSound
              /\ \A m \in Msgs : Counted(m)
              /\ consumer \in {"route", "end"} => at \in Chats

(* The replies: only messages that arrived have tasks, prompts and calls, a    *)
(* call that ends a reply carries its final text, a text counts as the last    *)
(* one of its message only once it was shown, and a reply that was made and    *)
(* not shown is in a call that will be repeated no more.                       *)
CallsAreSound ==
  /\ \A m \in Msgs : turn[m].phase # "none" => m \in Arrived
  /\ \A k \in calls : /\ k.m \in Arrived /\ k.text.of \in Arrived
                      /\ k.kind \in {"finish", "reply"} => k.text = Final(k.m)

PromptsAreSound == \A c \in Chats : \A i \in DOMAIN prompts[c] : prompts[c][i] \in Arrived

LastWasShown == \A c \in Chats :
  stream[c].last.upto = Pieces /\ stream[c].last.of # Nobody => stream[c].last.of \in reached

Answered(m) == turn[m].called = "done" =>
  \/ m \in reached \cup gaveUp
  \/ \E k \in calls : k.kind = "reply" /\ k.m = m /\ k.text = Final(m)

ReplyIInv == CallsAreSound /\ PromptsAreSound /\ LastWasShown /\ \A m \in Msgs : Answered(m)

FeishuIInv == FeishuTypeOK /\ IntakeIInv /\ ReplyIInv

-----------------------------------------------------------------------------
(* What is appended to the queue, and what is left when its head is taken.     *)

LEMMA Joins ==
  ASSUME NEW S, NEW q \in Seq(S), NEW x \in S, NEW y \in S
  PROVE  /\ Append(q, x) \o <<>> = Append(q, x)
         /\ Append(q, x) \o <<y>> = Append(Append(q, x), y)
OBVIOUS

LEMMA Longer ==
  ASSUME NEW S, NEW q \in Seq(S), NEW x \in S, NEW y \in S,
         NEW r, r = Append(q, x) \/ r = Append(Append(q, x), y)
  PROVE  /\ r \in Seq(S)
         /\ \A i \in DOMAIN r : \/ i \in DOMAIN q /\ r[i] = q[i]
                                \/ i = Len(q) + 1 /\ r[i] = x
                                \/ i = Len(q) + 2 /\ r[i] = y
         /\ DOMAIN q \subseteq DOMAIN r
<1>1. CASE r = Append(q, x)
  BY <1>1
<1>2. CASE r = Append(Append(q, x), y)
  BY <1>2
<1> QED
  BY <1>1, <1>2

LEMMA TailOf ==
  ASSUME NEW S, NEW q \in Seq(S), q # <<>>
  PROVE  /\ Tail(q) \in Seq(S) /\ Head(q) \in S /\ 1 \in DOMAIN q /\ Head(q) = q[1]
         /\ \A i \in DOMAIN Tail(q) : i + 1 \in DOMAIN q /\ i + 1 # 1 /\ Tail(q)[i] = q[i + 1]
         /\ \A i \in DOMAIN q : i # 1 => i - 1 \in DOMAIN Tail(q) /\ Tail(q)[i - 1] = q[i]
OBVIOUS

LEMMA NoticeIsNone == Notice = [m |-> 0, mode |-> "notice"] /\ Nobody \notin Msgs
BY DEF Notice, Item, Nobody, Msgs

Items == [m : {Nobody} \cup Msgs, mode : Mode \cup {"notice"}]

Turns == [phase : {"none", "created", "waiting", "running", "cut", "done"},
          waits : BOOLEAN, called : {"no", "waits", "done"}]
Waits == {"nothing", "route", "end", "status", "inject", "ended"}
PromptTypes == prompts \in [Chats -> Seq(Msgs)] /\ read \in [Chats -> 0..Stop]

LEMMA ArrivedAreMessages == FeishuTypeOK => Arrived \subseteq Msgs
BY FeishuAssumption DEF FeishuTypeOK, Arrived, Msgs

(* Nothing that the intake or the replies rest on changes.                     *)
LEMMA IntakeSame ==
  ASSUME IntakeIInv, UNCHANGED <<content, seen, forgets, queue, handled>>,
         consumer' \in {"route", "end"} => at' \in Chats
  PROVE  IntakeIInv'
BY DEF IntakeIInv, QueueIsSound, Counted, Waiting, Arrived

LEMMA RepliesSame ==
  ASSUME FeishuTypeOK, ReplyIInv, UNCHANGED <<prompts, stream, calls, reached, gaveUp>>,
         Arrived \subseteq Arrived',
         \A m \in Msgs : \/ turn'[m] = turn[m]
                         \/ turn'[m].called = turn[m].called /\ turn[m].phase # "none"
                         \/ turn'[m].called # "done" /\ m \in Arrived
  PROVE  ReplyIInv'
<1>1. CallsAreSound' /\ PromptsAreSound'
  BY DEF ReplyIInv, CallsAreSound, PromptsAreSound
<1>2. LastWasShown'
  BY DEF ReplyIInv, LastWasShown
<1>3. \A m \in Msgs : Answered(m)'
  BY DEF ReplyIInv, Answered
<1> QED
  BY <1>1, <1>2, <1>3 DEF ReplyIInv

-----------------------------------------------------------------------------
(* A message comes in                                                          *)

LEMMA TakesInKeeps ==
  ASSUME FeishuTypeOK, IntakeIInv, NEW m \in Msgs, NEW c \in Chats, NEW text, TakesIn(m, c, text),
         content' \in Seq(Contents), Len(content') <= MaxMessages,
         m \in Arrived', Arrived \subseteq Arrived', Arrived' \subseteq Arrived \cup {m},
         ~ Waiting(m)
  PROVE  FeishuTypeOK' /\ IntakeIInv'
<1> USE NoticeIsNone
<1>1. queue \in Seq(Items) /\ Notice \in Items
  BY DEF FeishuTypeOK, Nobody, Items
<1>2. PICK mode \in Mode :
        /\ queue' = Append(queue, Item(m, mode)) \/ queue' = Append(Append(queue, Item(m, mode)), Notice)
        /\ modes' \in [Chats -> Mode]
  <2>1. CASE text \in {"improve", "production"}
    <3>1. queue' = Append(queue, Item(m, text)) /\ modes' = [modes EXCEPT ![c] = text]
      BY <2>1 DEF TakesIn
    <3>2. text \in Mode /\ modes' \in [Chats -> Mode]
      BY <2>1, <3>1 DEF FeishuTypeOK, Mode
    <3> QED
      BY <3>1, <3>2
  <2>2. CASE text \notin {"improve", "production"}
    <3>1. modes[c] \in Mode /\ modes' \in [Chats -> Mode]
      BY <2>2 DEF TakesIn, FeishuTypeOK
    <3>2. Item(m, modes[c]) \in Items
      BY <3>1 DEF Item, Items
    <3>3. \/ queue' = Append(queue, Item(m, modes[c])) \o <<>>
          \/ queue' = Append(queue, Item(m, modes[c])) \o <<Notice>>
      BY <2>2 DEF TakesIn
    <3>4. \/ queue' = Append(queue, Item(m, modes[c]))
          \/ queue' = Append(Append(queue, Item(m, modes[c])), Notice)
      BY <1>1, <3>2, <3>3, Joins
    <3> QED
      BY <3>1, <3>4
  <2> QED
    BY <2>1, <2>2
<1> DEFINE x == Item(m, mode)
<1>x. x \in Items /\ x.m = m
  BY DEF Item, Items
<1>y. queue' = Append(queue, x) \/ queue' = Append(Append(queue, x), Notice)
  BY <1>2
<1> HIDE DEF x
<1>3. /\ queue' \in Seq(Items)
      /\ \A i \in DOMAIN queue' : \/ i \in DOMAIN queue /\ queue'[i] = queue[i]
                                  \/ i = Len(queue) + 1 /\ queue'[i] = x
                                  \/ i = Len(queue) + 2 /\ queue'[i] = Notice
      /\ DOMAIN queue \subseteq DOMAIN queue'
  BY <1>1, <1>x, <1>y, Longer
<1>4. /\ m \notin seen
      /\ \/ seen' = {m} /\ forgets' = forgets + 1
         \/ seen' = seen \cup {m} /\ forgets' = forgets
      /\ UNCHANGED <<prev, discuss, at, handled, idlers, replies>>
      /\ known' = known \cup {c}
      /\ consumer' = consumer \/ consumer' = "ended"
  BY DEF TakesIn, Remember
<1>5. FeishuTypeOK'
  <2>1. /\ seen' \subseteq Msgs /\ forgets' \in Nat /\ known' \subseteq Chats
        /\ modes' \in [Chats -> Mode]
    BY <1>2, <1>4 DEF FeishuTypeOK
  <2>2. UNCHANGED <<prev, discuss, at, handled, idlers, turn, prompts, read, stream, calls, reached,
                    gaveUp, failures>>
    BY <1>4 DEF replies, prompting
  <2>3. consumer' \in Waits
    BY <1>4 DEF FeishuTypeOK, Waits
  <2> QED
    BY <1>3, <2>1, <2>2, <2>3 DEF FeishuTypeOK, Items, Waits
<1>6. QueueIsSound'
  <2>1. ASSUME NEW i \in DOMAIN queue'
        PROVE  /\ queue'[i].m \in {Nobody} \cup Arrived'
               /\ queue'[i].m = Nobody => queue'[i] = Notice
    BY <1>1, <1>3, <1>x DEF IntakeIInv, QueueIsSound, Nobody
  <2>2. ASSUME NEW i \in DOMAIN queue', NEW j \in DOMAIN queue', queue'[i].m = queue'[j].m, queue'[i].m # Nobody
        PROVE  i = j
    BY <1>1, <1>3, <1>x, <2>2 DEF IntakeIInv, QueueIsSound, Waiting, Nobody
  <2> QED
    BY <2>1, <2>2 DEF QueueIsSound
<1>7. ASSUME NEW n \in Msgs PROVE Counted(n)'
  <2>1. Counted(n) /\ handled'[n] = handled[n] /\ handled[n] \in Nat /\ forgets \in Nat
    BY <1>4 DEF IntakeIInv, FeishuTypeOK
  <2>2. ASSUME Waiting(n)' PROVE Waiting(n) \/ n = m
    <3>1. PICK i \in DOMAIN queue' : queue'[i].m = n
      BY <2>2 DEF Waiting
    <3>2. queue'[i] # Notice
      BY <3>1 DEF Nobody
    <3> QED
      BY <1>3, <1>x, <3>1, <3>2 DEF Waiting
  <2>3. n \notin Arrived' => n \notin Arrived
    OBVIOUS
  <2>4. CASE n = m
    BY <1>4, <2>1, <2>2, <2>3, <2>4 DEF Counted
  <2>5. CASE n # m
    BY <1>4, <2>1, <2>2, <2>3, <2>5 DEF Counted
  <2> QED
    BY <2>4, <2>5
<1>8. (consumer \in {"route", "end"} => at \in Chats)'
  BY <1>4 DEF IntakeIInv
<1> QED
  BY <1>5, <1>6, <1>7, <1>8 DEF IntakeIInv

LEMMA ArrivesKeeps ==
  ASSUME FeishuIInv, Arrives
  PROVE  FeishuIInv'
<1> USE FeishuAssumption DEF FeishuIInv
<1>1. PICK w \in Contents : /\ Len(content) < MaxMessages
                            /\ content' = Append(content, w)
                            /\ TakesIn(Len(content'), w.chat, w.text)
  BY DEF Arrives
<1>2. /\ content \in Seq(Contents) /\ Len(content) \in Nat
      /\ content' \in Seq(Contents) /\ Len(content') = Len(content) + 1 /\ Len(content') \in Msgs
  BY <1>1 DEF FeishuTypeOK, Msgs
<1>3. /\ Len(content') \in Arrived' /\ Arrived \subseteq Arrived' /\ Arrived' \subseteq Arrived \cup {Len(content')}
      /\ Len(content') \notin Arrived /\ Len(content') # Nobody
  BY <1>2 DEF Arrived, Nobody
<1>4. ~ Waiting(Len(content'))
  BY <1>3 DEF IntakeIInv, QueueIsSound, Waiting
<1>5. FeishuTypeOK' /\ IntakeIInv'
  BY <1>1, <1>2, <1>3, <1>4, TakesInKeeps
<1>6. ReplyIInv'
  BY <1>1, <1>3, RepliesSame DEF TakesIn, replies, prompting
<1> QED
  BY <1>5, <1>6

LEMMA ArrivesAgainKeeps ==
  ASSUME FeishuIInv, ArrivesAgain
  PROVE  FeishuIInv'
<1> USE FeishuAssumption DEF FeishuIInv
<1>1. PICK m \in 1..Len(content) : /\ ~ \E i \in DOMAIN queue : queue[i].m = m
                                   /\ TakesIn(m, content[m].chat, content[m].text)
                                   /\ content' = content
  BY DEF ArrivesAgain, Settled
<1>2. /\ m \in Msgs /\ m \in Arrived' /\ Arrived' = Arrived /\ content[m].chat \in Chats
      /\ content' \in Seq(Contents) /\ Len(content') <= MaxMessages
  BY <1>1 DEF FeishuTypeOK, Msgs, Arrived
<1>3. ~ Waiting(m)
  BY <1>1 DEF Waiting
<1>4. FeishuTypeOK' /\ IntakeIInv'
  BY <1>1, <1>2, <1>3, TakesInKeeps
<1>5. ReplyIInv'
  BY <1>1, <1>2, RepliesSame DEF TakesIn, replies, prompting
<1> QED
  BY <1>4, <1>5

-----------------------------------------------------------------------------
(* The consumer, the commands and the discussions                              *)

(* The consumer passes a message on, or handles a command: the queue aside,    *)
(* what changes is of the right kind, and at most one task is created anew.    *)
LEMMA PassedOn ==
  ASSUME FeishuTypeOK, NEW m \in {Nobody} \cup Arrived, NEW c \in Chats, NEW mode, RouteMessage(m, c, mode)
  PROVE  /\ discuss' \in [Chats -> {"none", "fresh", "idle"}] /\ at' = c
         /\ turn' \in [Msgs -> Turns]
         /\ \A n \in Msgs : \/ turn'[n] = turn[n]
                            \/ turn'[n].called # "done" /\ n \in Arrived
<1>1. discuss' \in [Chats -> {"none", "fresh", "idle"}] /\ at' = c
  BY DEF RouteMessage, FeishuTypeOK
<1> DEFINE new == [NoTurn EXCEPT !.phase = "created"]
<1>2. new \in Turns /\ new.called = "no"
  BY DEF NoTurn, Turns
<1>3. turn' = turn \/ (m # Nobody /\ turn' = [turn EXCEPT ![m] = new])
  BY DEF RouteMessage
<1> HIDE DEF new
<1>4. CASE turn' = turn
  BY <1>1, <1>4 DEF FeishuTypeOK, Turns
<1>5. CASE m # Nobody /\ turn' = [turn EXCEPT ![m] = new]
  <2>1. m \in Arrived /\ m \in Msgs
    BY <1>5, ArrivedAreMessages
  <2>2. turn'[m] = new /\ \A n \in Msgs \ {m} : turn'[n] = turn[n]
    BY <1>5, <2>1 DEF FeishuTypeOK
  <2> QED
    BY <1>1, <1>2, <1>5, <2>1, <2>2 DEF FeishuTypeOK, Turns
<1> QED
  BY <1>3, <1>4, <1>5

LEMMA ConsumesKeeps ==
  ASSUME FeishuIInv, Consumes
  PROVE  FeishuIInv'
<1> USE FeishuAssumption, NoticeIsNone DEF FeishuIInv
<1> DEFINE i == Head(queue)
<1>1. /\ queue \in Seq(Items) /\ i \in Items /\ 1 \in DOMAIN queue /\ i = queue[1] /\ queue' = Tail(queue)
      /\ queue' \in Seq(Items)
      /\ \A j \in DOMAIN queue' : j + 1 \in DOMAIN queue /\ j + 1 # 1 /\ queue'[j] = queue[j + 1]
      /\ UNCHANGED <<intake, prompting, stream, calls, reached, gaveUp, failures>>
  <2>1. queue \in Seq(Items) /\ queue # <<>> /\ queue' = Tail(queue)
        /\ UNCHANGED <<intake, prompting, stream, calls, reached, gaveUp, failures>>
    BY DEF Consumes, FeishuTypeOK, Items
  <2> QED
    BY <2>1, TailOf
<1>2. /\ i.m \in {Nobody} \cup Arrived /\ (i.m = Nobody => i = Notice)
      /\ \A j \in DOMAIN queue' : queue'[j].m # Nobody => queue'[j].m # i.m
  BY <1>1 DEF IntakeIInv, QueueIsSound
<1>3. QueueIsSound'
  BY <1>1 DEF IntakeIInv, QueueIsSound, intake, Arrived
<1> HIDE DEF i
<1>4. CASE i = Notice
  <2>1. UNCHANGED <<admin, turn>>
    BY <1>4, Zenon DEF Consumes, i
  <2>2. FeishuTypeOK'
    BY <1>1, <2>1 DEF FeishuTypeOK, Items, intake, admin, prompting
  <2>3. \A m \in Msgs : Waiting(m)' => Waiting(m)
    BY <1>1 DEF Waiting
  <2>4. \A m \in Msgs : Counted(m)'
    BY <1>1, <2>1, <2>3 DEF IntakeIInv, Counted, intake, admin, Arrived
  <2>5. (consumer \in {"route", "end"} => at \in Chats)'
    BY <2>1 DEF admin, IntakeIInv
  <2>6. ReplyIInv'
    BY <1>1, <2>1, RepliesSame DEF intake, prompting, Arrived
  <2> QED
    BY <1>3, <2>2, <2>4, <2>5, <2>6 DEF IntakeIInv
<1>5. CASE i # Notice
  <2> DEFINE w == content[i.m]
  <2>1. i.m \in Arrived /\ i.m \in Msgs /\ w \in Contents /\ w.chat \in Chats
    BY <1>2, <1>5 DEF Arrived, FeishuTypeOK, Msgs
  <2>2. /\ handled' = [handled EXCEPT ![i.m] = @ + 1] /\ UNCHANGED idlers
        /\ \/ Command(i.m, w.chat, w.text)
           \/ RouteMessage(i.m, w.chat, i.mode) /\ consumer' = "route" /\ UNCHANGED <<prev, modes>>
    BY <1>5 DEF Consumes, i
  <2> HIDE DEF w
  <2>3. /\ discuss' \in [Chats -> {"none", "fresh", "idle"}]
        /\ consumer' \in Waits /\ at' \in Chats \cup {"none"}
        /\ prev' \in [Chats -> Mode \cup {"none"}] /\ modes' \in [Chats -> Mode]
        /\ turn' \in [Msgs -> Turns]
        /\ \A n \in Msgs : \/ turn'[n] = turn[n]
                           \/ turn'[n].called # "done" /\ n \in Arrived
        /\ consumer' \in {"route", "end"} => at' \in Chats
    <3> USE DEF Mode, Waits
    <3>1. /\ prev \in [Chats -> Mode \cup {"none"}] /\ modes \in [Chats -> Mode] /\ known \subseteq Chats
          /\ discuss \in [Chats -> {"none", "fresh", "idle"}] /\ consumer \in Waits
          /\ at \in Chats \cup {"none"} /\ (consumer \in {"route", "end"} => at \in Chats)
          /\ turn \in [Msgs -> Turns]
      BY DEF FeishuTypeOK, IntakeIInv, Turns
    <3>2. CASE RouteMessage(i.m, w.chat, i.mode) /\ consumer' = "route" /\ UNCHANGED <<prev, modes>>
      BY <2>1, <3>1, <3>2, PassedOn
    <3>3. CASE RouteMessage(Nobody, w.chat, "discuss") /\ consumer' \in {"route", "end"}
               /\ \/ UNCHANGED <<prev, modes>>
                  \/ /\ prev' = [prev EXCEPT ![w.chat] = modes[w.chat]]
                     /\ modes' = [modes EXCEPT ![w.chat] = "discuss"]
      <4>1. prev' \in [Chats -> Mode \cup {"none"}] /\ modes' \in [Chats -> Mode]
        BY <2>1, <3>1, <3>3
      <4> QED
        BY <2>1, <3>3, <4>1, PassedOn
    <3>4. CASE (\E d \in Chats : RouteMessage(Nobody, d, "production")) /\ consumer' = "route"
               /\ UNCHANGED <<prev, modes>>
      <4>1. PICK d \in Chats : RouteMessage(Nobody, d, "production")
        BY <3>1, <3>4
      <4> QED
        BY <3>1, <3>4, <4>1, PassedOn
    <3>5. CASE /\ consumer' = consumer \/ consumer' \in {"status", "inject"}
               /\ UNCHANGED <<prev, modes, discuss, at, turn>>
      BY <3>1, <3>5
    <3> QED
      <4>1. CASE Command(i.m, w.chat, w.text)
        BY <3>3, <3>4, <3>5, <4>1 DEF Command
      <4> QED
        BY <2>2, <3>2, <4>1
  <2>4. handled' \in [Msgs -> Nat]
    BY <2>1, <2>2 DEF FeishuTypeOK
  <2>5. FeishuTypeOK'
    BY <1>1, <2>2, <2>3, <2>4 DEF FeishuTypeOK, Items, intake, prompting, Turns, Waits
  <2>6. ASSUME NEW m \in Msgs PROVE Counted(m)'
    <3>1. Counted(m) /\ handled[m] \in Nat /\ forgets \in Nat
          /\ UNCHANGED <<content, seen, forgets>>
      BY <1>1 DEF IntakeIInv, FeishuTypeOK, intake
    <3>2. CASE m = i.m
      <4>1. Waiting(m) /\ ~ Waiting(m)'
        BY <1>1, <1>2, <3>2 DEF Waiting
      <4> QED
        BY <2>1, <2>2, <3>1, <3>2, <4>1 DEF Counted, FeishuTypeOK, Arrived
    <3>3. CASE m # i.m
      <4>1. Waiting(m)' => Waiting(m)
        BY <1>1 DEF Waiting
      <4>2. handled'[m] = handled[m]
        BY <2>1, <2>2, <3>3 DEF FeishuTypeOK
      <4> QED
        BY <3>1, <4>1, <4>2 DEF Counted, Arrived
    <3> QED
      BY <3>2, <3>3
  <2>7. ReplyIInv'
    BY <1>1, <2>3, RepliesSame DEF intake, prompting, Arrived
  <2> QED
    BY <1>3, <2>3, <2>5, <2>6, <2>7 DEF IntakeIInv
<1> QED
  BY <1>4, <1>5

LEMMA ListsKeeps ==
  ASSUME FeishuIInv, Lists
  PROVE  FeishuIInv'
<1> USE FeishuAssumption DEF FeishuIInv
<1>1. /\ UNCHANGED <<intake, modes, prev, handled, idlers, queue, prompting, stream, calls, reached,
                     gaveUp, failures>>
      /\ \/ consumer' = "nothing" /\ UNCHANGED <<discuss, at, turn>>
         \/ (\E d \in Chats : RouteMessage(Nobody, d, "production")) /\ consumer' = "route"
  BY DEF Lists, FeishuTypeOK
<1>2. /\ discuss' \in [Chats -> {"none", "fresh", "idle"}]
      /\ consumer' \in {"nothing", "route"} /\ at' \in Chats \cup {"none"}
      /\ turn' \in [Msgs -> Turns]
      /\ \A n \in Msgs : turn'[n] = turn[n] \/ (turn'[n].called # "done" /\ n \in Arrived)
      /\ consumer' \in {"route", "end"} => at' \in Chats
  <2>1. CASE consumer' = "nothing" /\ UNCHANGED <<discuss, at, turn>>
    BY <2>1 DEF FeishuTypeOK, Turns
  <2>2. CASE (\E d \in Chats : RouteMessage(Nobody, d, "production")) /\ consumer' = "route"
    BY <2>2, PassedOn
  <2> QED
    BY <1>1, <2>1, <2>2
<1>3. FeishuTypeOK'
  BY <1>1, <1>2 DEF FeishuTypeOK, intake, prompting, Turns
<1>4. IntakeIInv'
  BY <1>1, <1>2, IntakeSame DEF intake
<1>5. ReplyIInv'
  BY <1>1, <1>2, RepliesSame DEF intake, prompting, Arrived
<1> QED
  BY <1>3, <1>4, <1>5

LEMMA LoopStepsKeep ==
  ASSUME FeishuIInv,
         RouteReturns \/ DiscussEnds \/ ChecksIdle \/ \E c \in Chats : TimePasses(c) \/ Reminds(c)
  PROVE  FeishuIInv'
<1> USE FeishuAssumption DEF FeishuIInv
<1>1. UNCHANGED <<intake, handled, queue, replies>> /\ (consumer' \in {"route", "end"} => at' \in Chats)
  <2> USE DEF IntakeIInv
  <2>1. CASE RouteReturns
    BY <2>1 DEF RouteReturns
  <2>2. CASE DiscussEnds
    BY <2>2 DEF DiscussEnds
  <2>3. CASE ChecksIdle
    BY <2>3 DEF ChecksIdle
  <2>4. CASE \E c \in Chats : TimePasses(c)
    BY <2>4 DEF TimePasses
  <2>5. CASE \E c \in Chats : Reminds(c)
    BY <2>5 DEF Reminds
  <2> QED
    BY <2>1, <2>2, <2>3, <2>4, <2>5
<1>2. /\ modes' \in [Chats -> Mode] /\ prev' \in [Chats -> Mode \cup {"none"}]
      /\ discuss' \in [Chats -> {"none", "fresh", "idle"}] /\ idlers' \subseteq Chats
      /\ consumer' \in Waits /\ at' \in Chats \cup {"none"}
  <2> USE DEF FeishuTypeOK, Mode, Waits
  <2>1. CASE RouteReturns
    BY <2>1 DEF RouteReturns
  <2>2. CASE DiscussEnds
    BY <2>2 DEF DiscussEnds, IntakeIInv
  <2>3. CASE ChecksIdle
    BY <2>3 DEF ChecksIdle
  <2>4. CASE \E c \in Chats : TimePasses(c)
    BY <2>4 DEF TimePasses
  <2>5. CASE \E c \in Chats : Reminds(c)
    BY <2>5 DEF Reminds, ClockIsSet
  <2> QED
    BY <2>1, <2>2, <2>3, <2>4, <2>5
<1>3. FeishuTypeOK'
  BY <1>1, <1>2 DEF FeishuTypeOK, intake, replies, prompting, Waits
<1>4. IntakeIInv'
  BY <1>1, IntakeSame DEF intake
<1>5. ReplyIInv'
  BY <1>1, RepliesSame DEF intake, replies, prompting, Arrived
<1> QED
  BY <1>3, <1>4, <1>5

-----------------------------------------------------------------------------
(* The pool tasks and the calls of Feishu                                      *)

Streams == [turn : {Nobody} \cup Msgs, live : BOOLEAN, begun : BOOLEAN, last : Texts]
Calls   == [m : Msgs, kind : {"send", "edit", "finish", "reply"}, text : Texts, for : {Nobody} \cup Msgs]

LEMMA ReplyTypes ==
  ASSUME FeishuTypeOK
  PROVE  /\ turn \in [Msgs -> Turns] /\ stream \in [Chats -> Streams] /\ calls \subseteq Calls
         /\ reached \subseteq Msgs /\ gaveUp \subseteq Msgs /\ PromptTypes
BY DEF FeishuTypeOK, Turns, Streams, Calls, PromptTypes

LEMMA ReplyTypesKeep ==
  ASSUME FeishuTypeOK, UNCHANGED <<intake, admin, queue>>,
         turn' \in [Msgs -> Turns], PromptTypes', stream' \in [Chats -> Streams], calls' \subseteq Calls,
         reached' \subseteq Msgs, gaveUp' \subseteq Msgs, failures' \in 0..MaxFailures
  PROVE  FeishuTypeOK'
BY DEF FeishuTypeOK, Turns, Streams, Calls, PromptTypes, intake, admin

IsReply(k, m) == k.kind = "reply" /\ k.m = m /\ k.text = Final(m)

(* A step of the replies: new calls are sound, last texts are old, none, or    *)
(* shown, replies in progress are shown or given up, and a task that becomes   *)
(* done has been answered.                                                     *)
LEMMA ReplyStep ==
  ASSUME ReplyIInv, content' = content, PromptsAreSound',
         reached \subseteq reached', gaveUp \subseteq gaveUp',
         \A c \in Chats : \/ stream'[c].last = stream[c].last
                          \/ stream'[c].last.of = Nobody
                          \/ stream'[c].last.upto = Pieces => stream'[c].last.of \in reached',
         \A k \in calls' : \/ k \in calls
                           \/ /\ k.m \in Arrived /\ k.text.of \in Arrived
                              /\ k.kind \in {"finish", "reply"} => k.text = Final(k.m),
         \A k \in calls : k.kind = "reply" => k \in calls' \/ k.m \in reached' \cup gaveUp',
         \A m \in Msgs : turn'[m].phase # "none" => turn[m].phase # "none",
         \A m \in Msgs : turn'[m].called = "done" =>
           \/ turn[m].called = "done"
           \/ m \in reached' \cup gaveUp'
           \/ \E k \in calls' : IsReply(k, m)
  PROVE  ReplyIInv'
<1>1. CallsAreSound'
  <2>1. Arrived' = Arrived
    BY DEF Arrived
  <2> QED
    BY <2>1 DEF ReplyIInv, CallsAreSound, Final, Text
<1>2. LastWasShown'
  BY DEF ReplyIInv, LastWasShown
<1>3. ASSUME NEW m \in Msgs, turn'[m].called = "done"
      PROVE  m \in reached' \cup gaveUp' \/ \E k \in calls' : IsReply(k, m)
  <2>1. CASE turn[m].called = "done"
    <3>1. CASE \E k \in calls : IsReply(k, m)
      BY <3>1 DEF IsReply
    <3> QED
      BY <2>1, <3>1 DEF ReplyIInv, Answered, IsReply
  <2> QED
    BY <1>3, <2>1
<1>4. \A m \in Msgs : Answered(m)'
  BY <1>3 DEF Answered, IsReply, Final, Text
<1> QED
  BY <1>1, <1>2, <1>4 DEF ReplyIInv

LEMMA ReplyStepKeeps ==
  ASSUME FeishuIInv, UNCHANGED <<intake, admin, queue>>, ReplyIInv',
         turn' \in [Msgs -> Turns], PromptTypes', stream' \in [Chats -> Streams], calls' \subseteq Calls,
         reached' \subseteq Msgs, gaveUp' \subseteq Msgs, failures' \in 0..MaxFailures
  PROVE  FeishuIInv'
<1>1. FeishuTypeOK'
  BY ReplyTypesKeep DEF FeishuIInv
<1>2. IntakeIInv'
  BY IntakeSame DEF FeishuIInv, intake, admin, IntakeIInv
<1> QED
  BY <1>1, <1>2 DEF FeishuIInv

(* The prompts stay, or are taken or dropped.                                  *)
LEMMA PromptsSame ==
  ASSUME FeishuTypeOK, ReplyIInv, UNCHANGED <<content, prompts>>
  PROVE  PromptsAreSound' /\ (UNCHANGED read => PromptTypes')
BY ReplyTypes DEF ReplyIInv, PromptsAreSound, PromptTypes, Arrived

LEMMA ChatOf ==
  ASSUME FeishuTypeOK, NEW m \in Arrived
  PROVE  m \in Msgs /\ Chat(m) \in Chats
BY FeishuAssumption DEF FeishuTypeOK, Arrived, Chat, Msgs

LEMMA TextTypes ==
  /\ Nothing \in Texts /\ Nothing.of = Nobody
  /\ \A m \in Msgs, n \in 0..Pieces : Text(m, n) \in Texts /\ Text(m, n).of = m /\ Text(m, n).upto = n
  /\ \A m \in Msgs : Final(m) \in Texts /\ Final(m).of = m /\ Final(m).upto = Pieces
  /\ 0 \in 0..Stop
<1>1. Pieces \in Nat /\ 0 \in 0..Pieces /\ Pieces \in 0..Pieces /\ Nobody = 0
  BY FeishuAssumption DEF Nobody
<1>2. \A m \in Msgs, n \in 0..Pieces : Text(m, n) \in Texts /\ Text(m, n).of = m /\ Text(m, n).upto = n
  BY DEF Text, Texts
<1>3. \A m \in Msgs : Final(m) \in Texts /\ Final(m).of = m /\ Final(m).upto = Pieces
  BY <1>1, <1>2 DEF Final
<1>4. Nothing \in Texts /\ Nothing.of = Nobody
  BY <1>1 DEF Nothing, Texts
<1>5. 0 \in 0..Stop
  BY <1>1 DEF Stop
<1> QED
  BY <1>2, <1>3, <1>4, <1>5

(* A task starts, asks, fails or takes a result, or an instance dies: what was *)
(* answered stays, a new stream has shown nothing.                             *)
LEMMA TurnMoves ==
  ASSUME FeishuIInv, UNCHANGED <<intake, admin, queue, calls, reached, gaveUp, failures>>,
         PromptTypes', PromptsAreSound', turn' \in [Msgs -> Turns], stream' \in [Chats -> Streams],
         \A n \in Msgs : turn'[n].called = turn[n].called /\ (turn'[n].phase # "none" => turn[n].phase # "none"),
         \A c \in Chats : stream'[c].last = stream[c].last \/ stream'[c].last.of = Nobody
  PROVE  FeishuIInv'
<1> USE DEF FeishuIInv
<1>1. ReplyIInv'
  BY ReplyStep DEF intake
<1> QED
  BY <1>1, ReplyTypes, ReplyStepKeeps DEF FeishuTypeOK

LEMMA PhaseMoves ==
  ASSUME FeishuTypeOK, NEW m \in Msgs, turn[m].phase # "none", NEW p \in {"waiting", "running", "done"},
         turn' = [turn EXCEPT ![m].phase = p]
  PROVE  /\ turn' \in [Msgs -> Turns]
         /\ \A n \in Msgs : /\ turn'[n].called = turn[n].called
                            /\ turn'[n].phase # "none" => turn[n].phase # "none"
BY ReplyTypes DEF Turns

LEMMA OfArrived ==
  ASSUME FeishuIInv, NEW m \in Msgs, turn[m].phase # "none"
  PROVE  m \in Arrived /\ Chat(m) \in Chats
<1>1. m \in Arrived
  BY DEF FeishuIInv, ReplyIInv, CallsAreSound
<1> QED
  BY <1>1, ChatOf DEF FeishuIInv

LEMMA StartsKeeps ==
  ASSUME FeishuIInv, NEW m \in Msgs, TaskStarts(m) \/ TaskFails(m)
  PROVE  FeishuIInv'
<1> USE DEF FeishuIInv
<1> DEFINE new == [NoStream EXCEPT !.turn = m]
<1>1. /\ UNCHANGED <<intake, admin, queue, prompting, calls, reached, gaveUp, failures>>
      /\ turn[m].phase # "none"
      /\ \E p \in {"waiting", "running", "done"} : turn' = [turn EXCEPT ![m].phase = p]
      /\ stream' = stream \/ stream' = [stream EXCEPT ![Chat(m)] = new]
  BY DEF TaskStarts, TaskFails
<1>2. new \in Streams /\ new.last.of = Nobody
  BY TextTypes DEF NoStream, Streams
<1> HIDE DEF new
<1>3. /\ stream' \in [Chats -> Streams]
      /\ \A c \in Chats : stream'[c].last = stream[c].last \/ stream'[c].last.of = Nobody
  BY <1>1, <1>2, OfArrived, ReplyTypes
<1>4. PromptTypes' /\ PromptsAreSound'
  BY <1>1, PromptsSame DEF intake, prompting
<1>5. PICK p \in {"waiting", "running", "done"} : turn' = [turn EXCEPT ![m].phase = p]
  BY <1>1
<1> QED
  BY <1>1, <1>3, <1>4, <1>5, PhaseMoves, TurnMoves

LEMMA AsksKeeps ==
  ASSUME FeishuIInv, NEW m \in Msgs, Asks(m)
  PROVE  FeishuIInv'
<1> USE DEF FeishuIInv
<1> DEFINE c == Chat(m)
<1>1. /\ UNCHANGED <<intake, admin, queue, read, stream, calls, reached, gaveUp, failures>>
      /\ turn[m].phase # "none" /\ turn' = [turn EXCEPT ![m].phase = "running"]
      /\ prompts' = [prompts EXCEPT ![c] = Append(prompts[c], m)]
  BY ReplyTypes DEF Asks, PromptTypes
<1>2. m \in Arrived /\ c \in Chats /\ prompts \in [Chats -> Seq(Msgs)] /\ prompts[c] \in Seq(Msgs)
  BY <1>1, OfArrived, ReplyTypes DEF PromptTypes
<1> HIDE DEF c
<1> DEFINE q == Append(prompts[c], m)
<1>3. q \in Seq(Msgs) /\ \A i \in DOMAIN q : (i \in DOMAIN prompts[c] /\ q[i] = prompts[c][i]) \/ q[i] = m
  BY <1>2
<1>4. /\ prompts' \in [Chats -> Seq(Msgs)] /\ prompts'[c] = q
      /\ \A d \in Chats \ {c} : prompts'[d] = prompts[d]
  BY <1>1, <1>2, <1>3
<1> HIDE DEF q
<1>5. PromptTypes'
  BY <1>1, <1>4, ReplyTypes DEF PromptTypes
<1>6. PromptsAreSound'
  <2>1. Arrived' = Arrived
    BY <1>1 DEF intake, Arrived
  <2>2. ASSUME NEW d \in Chats, NEW i \in DOMAIN prompts'[d] PROVE prompts'[d][i] \in Arrived
    <3>1. CASE d = c
      BY <1>2, <1>3, <1>4, <2>2, <3>1 DEF ReplyIInv, PromptsAreSound
    <3>2. CASE d # c
      BY <1>4, <2>2, <3>2 DEF ReplyIInv, PromptsAreSound
    <3> QED
      BY <3>1, <3>2
  <2> QED
    BY <2>1, <2>2 DEF PromptsAreSound
<1>7. /\ turn' \in [Msgs -> Turns]
      /\ \A n \in Msgs : turn'[n].called = turn[n].called /\ (turn'[n].phase # "none" => turn[n].phase # "none")
  BY <1>1, PhaseMoves
<1> QED
  BY <1>1, <1>5, <1>6, <1>7, TurnMoves, ReplyTypes

LEMMA ResultTaken ==
  ASSUME FeishuIInv, NEW m \in Msgs, TakesResult(m)
  PROVE  FeishuIInv'
<1> USE DEF FeishuIInv
<1> DEFINE c == Chat(m)
<1>1. /\ UNCHANGED <<intake, admin, queue, stream, calls, reached, gaveUp, failures>>
      /\ turn[m].phase # "none" /\ turn' = [turn EXCEPT ![m].phase = "done"]
      /\ prompts[c] # <<>> /\ prompts' = [prompts EXCEPT ![c] = Tail(@)]
      /\ read' = [read EXCEPT ![c] = 0]
  BY DEF TakesResult, CanRead
<1>2. /\ m \in Arrived /\ c \in Chats /\ prompts \in [Chats -> Seq(Msgs)] /\ prompts[c] \in Seq(Msgs)
      /\ read \in [Chats -> 0..Stop]
  BY <1>1, OfArrived, ReplyTypes DEF PromptTypes
<1> HIDE DEF c
<1> DEFINE q == Tail(prompts[c])
<1>3. q \in Seq(Msgs) /\ \A i \in DOMAIN q : i + 1 \in DOMAIN prompts[c] /\ q[i] = prompts[c][i + 1]
  BY <1>1, <1>2, TailOf
<1>4. /\ prompts' \in [Chats -> Seq(Msgs)] /\ prompts'[c] = q
      /\ \A d \in Chats \ {c} : prompts'[d] = prompts[d]
  BY <1>1, <1>2, <1>3
<1> HIDE DEF q
<1>5. PromptTypes'
  BY <1>1, <1>2, <1>4, TextTypes DEF PromptTypes
<1>6. PromptsAreSound'
  <2>1. Arrived' = Arrived
    BY <1>1 DEF intake, Arrived
  <2>2. ASSUME NEW d \in Chats, NEW i \in DOMAIN prompts'[d] PROVE prompts'[d][i] \in Arrived
    <3>1. CASE d = c
      BY <1>2, <1>3, <1>4, <2>2, <3>1 DEF ReplyIInv, PromptsAreSound
    <3>2. CASE d # c
      BY <1>4, <2>2, <3>2 DEF ReplyIInv, PromptsAreSound
    <3> QED
      BY <3>1, <3>2
  <2> QED
    BY <2>1, <2>2 DEF PromptsAreSound
<1>7. /\ turn' \in [Msgs -> Turns]
      /\ \A n \in Msgs : turn'[n].called = turn[n].called /\ (turn'[n].phase # "none" => turn[n].phase # "none")
  BY <1>1, PhaseMoves
<1> QED
  BY <1>1, <1>5, <1>6, <1>7, TurnMoves, ReplyTypes

LEMMA DeathKeeps ==
  ASSUME FeishuIInv, NEW c \in Chats, InstanceDies(c)
  PROVE  FeishuIInv'
<1> USE DEF FeishuIInv
<1>1. /\ UNCHANGED <<intake, admin, queue, stream, calls, reached, gaveUp, failures>>
      /\ prompts' = [prompts EXCEPT ![c] = <<>>] /\ read' = [read EXCEPT ![c] = 0]
      /\ turn' = [m \in Msgs |-> IF turn[m].phase = "running" /\ Chat(m) = c
                                 THEN [turn[m] EXCEPT !.phase = "cut"] ELSE turn[m]]
  BY DEF InstanceDies
<1>2. prompts \in [Chats -> Seq(Msgs)] /\ read \in [Chats -> 0..Stop]
  BY ReplyTypes DEF PromptTypes
<1>3. PromptTypes'
  BY <1>1, <1>2, TextTypes DEF PromptTypes
<1>4. PromptsAreSound'
  BY <1>1, <1>2 DEF PromptsAreSound, ReplyIInv, intake, Arrived
<1>5. ASSUME NEW n \in Msgs
      PROVE  /\ turn'[n] \in Turns /\ turn'[n].called = turn[n].called
             /\ turn'[n].phase # "none" => turn[n].phase # "none"
  <2>1. turn[n] \in Turns
    BY ReplyTypes
  <2>2. \/ turn'[n] = turn[n]
        \/ turn[n].phase = "running" /\ turn'[n] = [turn[n] EXCEPT !.phase = "cut"]
    BY <1>1
  <2> QED
    BY <2>1, <2>2 DEF Turns
<1>6. turn' \in [Msgs -> Turns]
  <2>1. turn' = [n \in Msgs |-> turn'[n]]
    BY <1>1
  <2> QED
    BY <1>5, <2>1
<1> QED
  BY <1>1, <1>3, <1>4, <1>5, <1>6, TurnMoves, ReplyTypes

LEMMA StreamShapes ==
  ASSUME NEW s \in Streams, NEW t \in Texts
  PROVE  /\ Cleared(s) \in Streams /\ Cleared(s).last = Nothing
         /\ [Cleared(s) EXCEPT !.live = TRUE] \in Streams /\ [Cleared(s) EXCEPT !.live = TRUE].last = Nothing
         /\ [s EXCEPT !.live = FALSE] \in Streams /\ [s EXCEPT !.live = FALSE].last = s.last
         /\ [s EXCEPT !.last = t] \in Streams /\ [s EXCEPT !.last = t].last = t
         /\ [s EXCEPT !.begun = TRUE, !.last = t] \in Streams /\ [s EXCEPT !.begun = TRUE, !.last = t].last = t
BY TextTypes DEF Streams, Cleared

LEMMA TurnShapes ==
  ASSUME NEW u \in Turns, NEW v, NEW w \in BOOLEAN, v = [u EXCEPT !.waits = w]
  PROVE  v \in Turns /\ v.called = u.called /\ v.phase = u.phase
BY DEF Turns

LEMMA CalledShapes ==
  ASSUME NEW u \in Turns, NEW a \in {"waits", "done"}
  PROVE  /\ [u EXCEPT !.called = a] \in Turns
         /\ [u EXCEPT !.called = a].called = a
         /\ [u EXCEPT !.called = a].phase = u.phase
BY DEF Turns

LEMMA CallShapes ==
  ASSUME FeishuTypeOK, NEW m \in Msgs, NEW kind \in {"send", "edit", "finish", "reply"}, NEW t \in Texts,
         NEW c \in Chats
  PROVE  /\ Call(m, kind, t, stream[c].turn) \in Calls
         /\ Call(m, kind, t, stream[c].turn).m = m /\ Call(m, kind, t, stream[c].turn).kind = kind
         /\ Call(m, kind, t, stream[c].turn).text = t
<1>1. stream[c].turn \in {Nobody} \cup Msgs
  BY ReplyTypes DEF Streams
<1> QED
  BY <1>1 DEF Call, Calls

(* The task takes an event of the stream: it may begin a call that sends or    *)
(* edits a part, which is no reply.                                            *)
LEMMA TakesKeeps ==
  ASSUME FeishuIInv, NEW m \in Msgs, Takes(m)
  PROVE  FeishuIInv'
<1> USE DEF FeishuIInv
<1> DEFINE c == Chat(m)
           e == read[c] + 1
           h == Head(prompts[c])
<1>1. /\ UNCHANGED <<intake, admin, queue, prompts, reached, gaveUp, failures>>
      /\ turn[m].phase # "none" /\ prompts[c] # <<>> /\ e <= Stop
      /\ read' = [read EXCEPT ![c] = e]
  BY DEF Takes, CanRead
<1>2. /\ m \in Arrived /\ c \in Chats /\ e \in 0..Stop /\ turn[m] \in Turns /\ stream[c] \in Streams
      /\ h \in Arrived /\ h \in Msgs
  <2>1. m \in Arrived /\ c \in Chats
    BY <1>1, OfArrived
  <2>2. prompts[c] \in Seq(Msgs) /\ read[c] \in 0..Stop /\ Stop \in Nat
    BY <2>1, ReplyTypes, FeishuAssumption DEF PromptTypes, Stop
  <2>3. h \in Msgs /\ 1 \in DOMAIN prompts[c] /\ h = prompts[c][1]
    BY <1>1, <2>2, TailOf
  <2> QED
    BY <1>1, <2>1, <2>2, <2>3, ReplyTypes DEF ReplyIInv, PromptsAreSound
<1>3. /\ turn' \in [Msgs -> Turns]
      /\ \A n \in Msgs : turn'[n].called = turn[n].called /\ turn'[n].phase = turn[n].phase
  <2>1. turn' = turn \/ turn' = [turn EXCEPT ![m].waits = TRUE]
    BY DEF Takes
  <2>2. CASE turn' = [turn EXCEPT ![m].waits = TRUE]
    <3>1. turn' = [turn EXCEPT ![m] = [turn[m] EXCEPT !.waits = TRUE]]
      BY <2>2, ReplyTypes
    <3>2. PICK v : v = [turn[m] EXCEPT !.waits = TRUE]
      OBVIOUS
    <3>3. v \in Turns /\ v.called = turn[m].called /\ v.phase = turn[m].phase
      BY <1>2, <3>2, TurnShapes
    <3>4. turn' = [turn EXCEPT ![m] = v]
      BY <3>1, <3>2
    <3> QED
      BY <3>3, <3>4, ReplyTypes
  <2> QED
    BY <2>1, <2>2, ReplyTypes
<1>4. /\ stream' \in [Chats -> Streams]
      /\ \A d \in Chats : stream'[d].last = stream[d].last \/ stream'[d].last.of = Nobody
  <2>1. PICK s \in {[Cleared(stream[c]) EXCEPT !.live = TRUE], [stream[c] EXCEPT !.live = FALSE]} :
          stream' = stream \/ stream' = [stream EXCEPT ![c] = s]
    BY ReplyTypes DEF Takes
  <2> HIDE DEF c
  <2>2. s \in Streams /\ (s.last = stream[c].last \/ s.last.of = Nobody)
    BY <1>2, StreamShapes, TextTypes
  <2> QED
    BY <1>2, <2>1, <2>2, ReplyTypes
<1>5. \/ calls' = calls
      \/ \E kind \in {"send", "edit"}, t \in Texts :
           t.of = h /\ calls' = calls \cup {Call(m, kind, t, stream[c].turn)}
  <2>1. \/ calls' = calls
        \/ /\ e \in 2..(Pieces + 1)
           /\ \E kind \in {"send", "edit"} : calls' = calls \cup {Call(m, kind, Text(h, e - 1), stream[c].turn)}
    BY DEF Takes
  <2>2. e \in 2..(Pieces + 1) => e - 1 \in 0..Pieces
    BY <1>2, FeishuAssumption DEF Stop
  <2> QED
    BY <1>2, <2>1, <2>2, TextTypes
<1>6. /\ calls' \subseteq Calls /\ calls \subseteq calls'
      /\ \A k \in calls' : k \in calls \/ (k.m = m /\ k.text.of = h /\ k.kind \in {"send", "edit"})
  <2> HIDE DEF c, h
  <2>1. CASE calls' = calls
    BY <2>1, ReplyTypes
  <2>2. CASE calls' # calls
    <3>1. PICK kind \in {"send", "edit"}, t \in Texts :
             t.of = h /\ calls' = calls \cup {Call(m, kind, t, stream[c].turn)}
      BY <1>5, <2>2
    <3> QED
      BY <1>2, <3>1, CallShapes, ReplyTypes, ChatOf
  <2> QED
    BY <2>1, <2>2
<1>7. PromptTypes' /\ PromptsAreSound'
  <2>1. read' \in [Chats -> 0..Stop]
    BY <1>1, <1>2, ReplyTypes DEF PromptTypes
  <2> QED
    BY <1>1, <2>1, PromptsSame, ReplyTypes DEF PromptTypes, intake
<1>8. ReplyIInv'
  BY <1>1, <1>2, <1>3, <1>4, <1>6, <1>7, ReplyStep DEF intake
<1> QED
  BY <1>1, <1>3, <1>4, <1>6, <1>7, <1>8, ReplyTypes, ReplyStepKeeps DEF FeishuTypeOK

(* The tool call that ends the reply: with the final text shown already it is  *)
(* done; otherwise a call with that text is begun.                             *)
LEMMA RepliesKeeps ==
  ASSUME FeishuIInv, NEW m \in Msgs, Replies(m)
  PROVE  FeishuIInv'
<1> USE DEF FeishuIInv
<1> DEFINE c == Chat(m)
           Went(kind) == calls' = calls \cup {Call(m, kind, Final(m), stream[c].turn)}
           Says(a)    == turn' = [turn EXCEPT ![m] = [turn[m] EXCEPT !.called = a]]
<1>1. /\ UNCHANGED <<intake, admin, queue, prompting, reached, gaveUp, failures>>
      /\ m \in Arrived
      /\ \/ Went("finish") /\ Says("waits") /\ stream' = stream
         \/ /\ stream[c].last = Final(m) /\ Says("done") /\ calls' = calls
            /\ stream' = [stream EXCEPT ![c] = Cleared(stream[c])]
         \/ Went("reply") /\ Says("done") /\ stream' = stream
  BY ReplyTypes DEF Replies, Arrived
<1>2. m \in Arrived /\ c \in Chats /\ turn[m] \in Turns /\ stream[c] \in Streams
  BY <1>1, ChatOf, ReplyTypes
<1> HIDE DEF c
<1>3. PICK a \in {"waits", "done"} : Says(a) /\ (a = "waits" => Went("finish"))
  BY <1>1
<1>4. /\ turn' \in [Msgs -> Turns]
      /\ \A n \in Msgs : turn'[n].phase = turn[n].phase
      /\ \A n \in Msgs \ {m} : turn'[n].called = turn[n].called
      /\ turn'[m].called = a
  <2> DEFINE v == [turn[m] EXCEPT !.called = a]
  <2>1. v \in Turns /\ v.called = a /\ v.phase = turn[m].phase
    BY <1>2, CalledShapes
  <2>2. turn' = [turn EXCEPT ![m] = v]
    BY <1>3
  <2> HIDE DEF v
  <2> QED
    BY <2>1, <2>2, ReplyTypes
<1>5. /\ stream' \in [Chats -> Streams]
      /\ \A d \in Chats : stream'[d].last = stream[d].last \/ stream'[d].last.of = Nobody
  <2>1. stream' = stream \/ stream' = [stream EXCEPT ![c] = Cleared(stream[c])]
    BY <1>1
  <2>2. Cleared(stream[c]) \in Streams /\ Cleared(stream[c]).last.of = Nobody
    BY <1>2, StreamShapes, TextTypes
  <2> QED
    BY <1>2, <2>1, <2>2, ReplyTypes
<1>6. ASSUME NEW kind \in {"finish", "reply"}, Went(kind)
      PROVE  /\ calls' \subseteq Calls /\ calls \subseteq calls'
             /\ \A k \in calls' : k \in calls \/ (k.m = m /\ k.text.of = m /\ k.text = Final(k.m))
             /\ \E k \in calls' : k.kind = kind /\ k.m = m /\ k.text = Final(m)
  <2> DEFINE k == Call(m, kind, Final(m), stream[c].turn)
  <2>1. k \in Calls /\ k.m = m /\ k.kind = kind /\ k.text = Final(m) /\ Final(m).of = m
    BY <1>2, CallShapes, TextTypes
  <2>2. calls' = calls \cup {k}
    BY <1>6
  <2> HIDE DEF k
  <2> QED
    BY <2>1, <2>2, ReplyTypes
<1>7. /\ calls' \subseteq Calls /\ calls \subseteq calls'
      /\ \A k \in calls' : k \in calls \/ (k.m = m /\ k.text.of = m /\ k.text = Final(k.m))
  BY <1>1, <1>6, ReplyTypes
<1>8. a = "done" => m \in reached \/ \E k \in calls' : IsReply(k, m)
  <2>1. CASE stream[c].last = Final(m)
    <3>1. Final(m).of = m /\ Final(m).upto = Pieces /\ m # Nobody
      BY TextTypes, NoticeIsNone
    <3> QED
      BY <1>2, <2>1, <3>1 DEF ReplyIInv, LastWasShown
  <2>2. CASE Went("reply")
    BY <1>6, <2>2 DEF IsReply
  <2>3. CASE Says("waits")
    BY <1>2, <1>4, <2>3, ReplyTypes, CalledShapes
  <2> QED
    BY <1>1, <2>1, <2>2, <2>3
<1>9. PromptTypes' /\ PromptsAreSound'
  BY <1>1, PromptsSame DEF intake, prompting
<1>10. ReplyIInv'
  BY <1>1, <1>2, <1>4, <1>5, <1>7, <1>8, <1>9, ReplyStep DEF intake
<1> QED
  BY <1>1, <1>4, <1>5, <1>7, <1>9, <1>10, ReplyTypes, ReplyStepKeeps DEF FeishuTypeOK

(* A call ends or fails: the text counts as the last of its stream only if it  *)
(* was shown; a final edit that fails goes on as a send.                       *)
LEMMA ResultKept ==
  ASSUME FeishuIInv, NEW k \in calls,
         NEW t, t = [turn EXCEPT ![k.m].waits = FALSE] \/ t = [turn EXCEPT ![k.m].called = "done"] \/ t = turn
  PROVE  /\ t \in [Msgs -> Turns]
         /\ \A n \in Msgs : t[n].phase = turn[n].phase
         /\ \A n \in Msgs : t[n].called # turn[n].called =>
              n = k.m /\ t = [turn EXCEPT ![k.m].called = "done"]
<1> USE DEF FeishuIInv
<1>1. k.m \in Msgs /\ turn \in [Msgs -> Turns] /\ turn[k.m] \in Turns
  BY ReplyTypes DEF Calls
<1>2. CASE t = turn
  BY <1>1, <1>2
<1>3. CASE t = [turn EXCEPT ![k.m].waits = FALSE]
  <2> DEFINE v == [turn[k.m] EXCEPT !.waits = FALSE]
  <2>1. v \in Turns /\ v.called = turn[k.m].called /\ v.phase = turn[k.m].phase
    BY <1>1, TurnShapes
  <2>2. t = [turn EXCEPT ![k.m] = v]
    BY <1>1, <1>3
  <2> HIDE DEF v
  <2> QED
    BY <1>1, <2>1, <2>2
<1>4. CASE t = [turn EXCEPT ![k.m].called = "done"]
  <2> DEFINE v == [turn[k.m] EXCEPT !.called = "done"]
  <2>1. v \in Turns /\ v.called = "done" /\ v.phase = turn[k.m].phase
    BY <1>1, CalledShapes
  <2>2. t = [turn EXCEPT ![k.m] = v]
    BY <1>1, <1>4
  <2> HIDE DEF v
  <2>3. /\ t \in [Msgs -> Turns] /\ \A n \in Msgs : t[n].phase = turn[n].phase
        /\ \A n \in Msgs : t[n].called # turn[n].called => n = k.m
    BY <1>1, <2>1, <2>2
  <2> QED
    BY <1>4, <2>3
<1> QED
  BY <1>2, <1>3, <1>4

LEMMA StreamAfter ==
  ASSUME FeishuIInv, NEW k \in calls, NEW f,
         \/ f = stream
         \/ f = [stream EXCEPT ![Chat(k.m)] = Cleared(@)]
         \/ f = [stream EXCEPT ![Chat(k.m)].last = k.text]
         \/ f = [stream EXCEPT ![Chat(k.m)].begun = TRUE, ![Chat(k.m)].last = k.text]
  PROVE  /\ f \in [Chats -> Streams]
         /\ \A d \in Chats : \/ f[d].last = stream[d].last \/ f[d].last.of = Nobody
                             \/ f[d].last = k.text
         /\ f = stream \/ f = [stream EXCEPT ![Chat(k.m)] = Cleared(@)] =>
              \A d \in Chats : f[d].last = stream[d].last \/ f[d].last.of = Nobody
<1> USE DEF FeishuIInv
<1> DEFINE c == Chat(k.m)
<1>1. c \in Chats /\ stream \in [Chats -> Streams] /\ stream[c] \in Streams /\ k.text \in Texts
  <2>1. k.m \in Arrived /\ k.text \in Texts
    BY ReplyTypes DEF Calls, ReplyIInv, CallsAreSound
  <2> QED
    BY <2>1, ChatOf, ReplyTypes
<1>2. CASE f = stream
  BY <1>1, <1>2
<1>3. CASE f = [stream EXCEPT ![c] = Cleared(@)]
  <2>1. f = [stream EXCEPT ![c] = Cleared(stream[c])]
    BY <1>1, <1>3
  <2>2. Cleared(stream[c]) \in Streams /\ Cleared(stream[c]).last.of = Nobody
    BY <1>1, StreamShapes, TextTypes
  <2> HIDE DEF c
  <2> QED
    BY <1>1, <2>1, <2>2
<1>4. ASSUME NEW s \in {[stream[c] EXCEPT !.last = k.text], [stream[c] EXCEPT !.begun = TRUE, !.last = k.text]},
             f = [stream EXCEPT ![c] = s]
      PROVE  /\ f \in [Chats -> Streams]
             /\ \A d \in Chats : f[d].last = stream[d].last \/ f[d].last = k.text
  <2>1. s \in Streams /\ s.last = k.text
    <3>1. CASE s = [stream[c] EXCEPT !.last = k.text]
      BY <1>1, <3>1, StreamShapes, Zenon
    <3>2. CASE s = [stream[c] EXCEPT !.begun = TRUE, !.last = k.text]
      BY <1>1, <3>2, StreamShapes, Zenon
    <3> QED
      BY <3>1, <3>2
  <2> HIDE DEF c
  <2> QED
    BY <1>1, <1>4, <2>1
<1>5. CASE f = [stream EXCEPT ![c].last = k.text]
  <2>1. f = [stream EXCEPT ![c] = [stream[c] EXCEPT !.last = k.text]]
    BY <1>1, <1>5
  <2> QED
    BY <1>2, <1>3, <1>4, <2>1
<1>6. CASE f = [stream EXCEPT ![c].begun = TRUE, ![c].last = k.text]
  <2>1. f = [stream EXCEPT ![c] = [stream[c] EXCEPT !.begun = TRUE, !.last = k.text]]
    BY <1>1, <1>6
  <2> QED
    BY <1>2, <1>3, <1>4, <2>1
<1> QED
  BY <1>2, <1>3, <1>5, <1>6

LEMMA CallEndsKeeps ==
  ASSUME FeishuIInv, NEW k \in calls, CallEnds(k)
  PROVE  FeishuIInv'
<1> USE DEF FeishuIInv
<1>1. /\ UNCHANGED <<intake, admin, queue, prompting, gaveUp, failures>>
      /\ calls' = calls \ {k}
      /\ reached' = IF k.text.upto = Pieces THEN reached \cup {k.text.of} ELSE reached
      /\ k.kind \in {"send", "edit", "finish", "reply"} /\ k.m \in Arrived /\ k.m \in Msgs
      /\ k.text.of \in Arrived /\ (k.kind \in {"finish", "reply"} => k.text = Final(k.m))
  BY ReplyTypes DEF CallEnds, Shows, ReplyIInv, CallsAreSound, Calls
<1>2. /\ \/ turn' = [turn EXCEPT ![k.m].waits = FALSE]
         \/ k.kind = "finish" /\ turn' = [turn EXCEPT ![k.m].called = "done"]
         \/ turn' = turn
      /\ \/ stream' = stream
         \/ stream' = [stream EXCEPT ![Chat(k.m)] = Cleared(@)]
         \/ stream' = [stream EXCEPT ![Chat(k.m)].last = k.text]
         \/ stream' = [stream EXCEPT ![Chat(k.m)].begun = TRUE, ![Chat(k.m)].last = k.text]
  <2>1. CASE k.kind = "send"
    BY <2>1 DEF CallEnds
  <2>2. CASE k.kind = "edit"
    BY <2>2 DEF CallEnds
  <2>3. CASE k.kind = "finish"
    BY <2>3 DEF CallEnds
  <2>4. CASE k.kind = "reply"
    BY <2>4 DEF CallEnds
  <2> QED
    BY <1>1, <2>1, <2>2, <2>3, <2>4
<1>3. /\ turn' \in [Msgs -> Turns]
      /\ \A n \in Msgs : turn'[n].phase = turn[n].phase
      /\ \A n \in Msgs : turn'[n].called # turn[n].called =>
           n = k.m /\ turn' = [turn EXCEPT ![k.m].called = "done"]
  BY <1>2, ResultKept
<1>4. /\ stream' \in [Chats -> Streams]
      /\ \A d \in Chats : \/ stream'[d].last = stream[d].last \/ stream'[d].last.of = Nobody
                          \/ stream'[d].last = k.text
  BY <1>2, StreamAfter
<1>5. k.kind \in {"finish", "reply"} => k.m \in reached'
  BY <1>1, TextTypes
<1>6. /\ reached' \subseteq Msgs /\ reached \subseteq reached' /\ (k.text.upto = Pieces => k.text.of \in reached')
      /\ calls' \subseteq Calls
  BY <1>1, ReplyTypes, ArrivedAreMessages
<1>7. \A n \in Msgs : turn'[n].called = "done" => turn[n].called = "done" \/ n \in reached'
  <2>1. ASSUME NEW n \in Msgs, turn'[n].called # turn[n].called PROVE n = k.m /\ k.m \in reached'
    <3>1. n = k.m
      BY <1>3, <2>1
    <3>2. CASE turn' = [turn EXCEPT ![k.m].waits = FALSE]
      <4>1. turn'[n].called = turn[n].called
        BY <1>1, <3>2, ReplyTypes DEF Turns
      <4> QED
        BY <2>1, <4>1
    <3> QED
      BY <1>2, <1>5, <2>1, <3>1, <3>2
  <2> QED
    BY <2>1
<1>8. PromptTypes' /\ PromptsAreSound'
  BY <1>1, PromptsSame DEF intake, prompting
<1>9. ReplyIInv'
  BY <1>1, <1>3, <1>4, <1>5, <1>6, <1>7, <1>8, ReplyStep DEF intake
<1> QED
  BY <1>1, <1>3, <1>4, <1>6, <1>8, <1>9, ReplyTypes, ReplyStepKeeps DEF FeishuTypeOK

LEMMA CallFailsKeeps ==
  ASSUME FeishuIInv, NEW k \in calls, CallFails(k)
  PROVE  FeishuIInv'
<1> USE DEF FeishuIInv
<1> DEFINE again == [k EXCEPT !.kind = "reply"]
<1>1. /\ UNCHANGED <<intake, admin, queue, prompting, reached>>
      /\ failures < MaxFailures /\ failures' = failures + 1
      /\ calls' = (calls \ {k}) \cup (IF k.kind = "finish" THEN {again} ELSE {})
      /\ gaveUp' = IF k.kind = "reply" THEN gaveUp \cup {k.m} ELSE gaveUp
      /\ k \in Calls /\ k.kind \in {"send", "edit", "finish", "reply"} /\ k.m \in Arrived /\ k.m \in Msgs
      /\ k.text.of \in Arrived /\ (k.kind \in {"finish", "reply"} => k.text = Final(k.m))
  BY ReplyTypes DEF CallFails, ReplyIInv, CallsAreSound, Calls
<1>2. /\ \/ turn' = [turn EXCEPT ![k.m].waits = FALSE]
         \/ k.kind = "finish" /\ turn' = [turn EXCEPT ![k.m].called = "done"]
         \/ turn' = turn
      /\ stream' = stream \/ stream' = [stream EXCEPT ![Chat(k.m)] = Cleared(@)]
  <2>1. CASE k.kind = "send"
    BY <2>1 DEF CallFails
  <2>2. CASE k.kind = "edit"
    BY <2>2 DEF CallFails, AfterFailure
  <2>3. CASE k.kind = "finish"
    BY <2>3 DEF CallFails
  <2>4. CASE k.kind = "reply"
    BY <2>4 DEF CallFails
  <2> QED
    BY <1>1, <2>1, <2>2, <2>3, <2>4
<1>3. /\ turn' \in [Msgs -> Turns]
      /\ \A n \in Msgs : turn'[n].phase = turn[n].phase
      /\ \A n \in Msgs : turn'[n].called # turn[n].called =>
           n = k.m /\ turn' = [turn EXCEPT ![k.m].called = "done"]
  BY <1>2, ResultKept
<1>4. /\ stream' \in [Chats -> Streams]
      /\ \A d \in Chats : stream'[d].last = stream[d].last \/ stream'[d].last.of = Nobody
  BY <1>2, StreamAfter
<1>5. again \in Calls /\ again.m = k.m /\ again.text = k.text /\ again.kind = "reply"
  BY <1>1 DEF Calls
<1> HIDE DEF again
<1>6. /\ calls' \subseteq Calls /\ gaveUp' \subseteq Msgs /\ gaveUp \subseteq gaveUp'
      /\ \A j \in calls' : j \in calls \/ (j.m \in Arrived /\ j.text.of \in Arrived /\ j.text = Final(j.m))
      /\ \A j \in calls : j.kind = "reply" => j \in calls' \/ j.m \in gaveUp'
      /\ k.kind = "finish" => \E j \in calls' : IsReply(j, k.m)
  <2>1. CASE k.kind = "finish"
    <3>1. calls' = (calls \ {k}) \cup {again} /\ gaveUp' = gaveUp
      BY <1>1, <2>1
    <3> QED
      BY <1>1, <1>5, <2>1, <3>1, ReplyTypes DEF IsReply
  <2>2. CASE k.kind # "finish"
    <3>1. calls' = calls \ {k}
      BY <1>1, <2>2
    <3> QED
      BY <1>1, <2>2, <3>1, ReplyTypes
  <2> QED
    BY <2>1, <2>2
<1>7. ASSUME NEW n \in Msgs, turn'[n].called = "done"
      PROVE  turn[n].called = "done" \/ \E j \in calls' : IsReply(j, n)
  <2>1. CASE turn'[n].called = turn[n].called
    BY <1>7, <2>1
  <2>2. CASE turn'[n].called # turn[n].called
    <3>1. n = k.m
      BY <1>3, <2>2
    <3>2. CASE turn' = [turn EXCEPT ![k.m].waits = FALSE]
      <4>1. turn'[n].called = turn[n].called
        BY <1>1, <3>2, ReplyTypes DEF Turns
      <4> QED
        BY <2>2, <4>1
    <3> QED
      BY <1>2, <1>6, <2>2, <3>1, <3>2
  <2> QED
    BY <2>1, <2>2
<1>8. PromptTypes' /\ PromptsAreSound'
  BY <1>1, PromptsSame DEF intake, prompting
<1>9. ReplyIInv'
  BY <1>1, <1>3, <1>4, <1>6, <1>7, <1>8, ReplyStep DEF intake
<1>10. failures' \in 0..MaxFailures
  BY <1>1, FeishuAssumption DEF FeishuTypeOK
<1> QED
  BY <1>1, <1>3, <1>4, <1>6, <1>8, <1>9, <1>10, ReplyTypes, ReplyStepKeeps

-----------------------------------------------------------------------------
(* The theorems                                                                *)

LEMMA FeishuInitKeeps == FeishuInit => FeishuIInv
<1> SUFFICES ASSUME FeishuInit PROVE FeishuIInv
  OBVIOUS
<1> USE FeishuAssumption DEF FeishuInit
<1>1. content = <<>> /\ Len(content) = 0 /\ Arrived = {} /\ DOMAIN queue = {} /\ queue = <<>>
  BY DEF Arrived
<1>2. NoTurn \in Turns /\ NoTurn.phase = "none" /\ NoTurn.called = "no"
  BY TextTypes DEF NoTurn, Turns
<1>3. NoStream \in Streams /\ NoStream.last.of = Nobody
  BY TextTypes DEF NoStream, Streams
<1>4. FeishuTypeOK
  <2>1. turn \in [Msgs -> Turns] /\ stream \in [Chats -> Streams]
    BY <1>2, <1>3
  <2> QED
    BY <1>1, <2>1, TextTypes DEF FeishuTypeOK, Turns, Streams, Mode
<1>5. IntakeIInv
  BY <1>1 DEF IntakeIInv, QueueIsSound, Counted, Waiting, Msgs
<1>6. ReplyIInv
  BY <1>1, <1>2, <1>3 DEF ReplyIInv, CallsAreSound, PromptsAreSound, LastWasShown, Answered
<1> QED
  BY <1>4, <1>5, <1>6 DEF FeishuIInv

LEMMA FeishuStepKeeps == FeishuIInv /\ [FeishuNext]_feishuVars => FeishuIInv'
<1> SUFFICES ASSUME FeishuIInv, [FeishuNext]_feishuVars PROVE FeishuIInv'
  OBVIOUS
<1>1. CASE Arrives
  BY <1>1, ArrivesKeeps
<1>2. CASE ArrivesAgain
  BY <1>2, ArrivesAgainKeeps
<1>3. CASE Consumes
  BY <1>3, ConsumesKeeps
<1>4. CASE RouteReturns \/ DiscussEnds \/ ChecksIdle \/ \E c \in Chats : TimePasses(c) \/ Reminds(c)
  BY <1>4, LoopStepsKeep
<1>5. ASSUME NEW m \in Msgs,
             \/ TaskStarts(m) \/ Asks(m) \/ Takes(m) \/ TakesResult(m)
             \/ TaskFails(m) \/ Replies(m)
      PROVE  FeishuIInv'
  BY <1>5, StartsKeeps, AsksKeeps, TakesKeeps, ResultTaken, RepliesKeeps
<1>6. ASSUME NEW k \in calls, CallEnds(k) \/ CallFails(k)
      PROVE  FeishuIInv'
  BY <1>6, CallEndsKeeps, CallFailsKeeps
<1>7. CASE UNCHANGED feishuVars
  <2>1. UNCHANGED <<intake, admin, queue, replies>>
    BY <1>7 DEF feishuVars
  <2>2. FeishuTypeOK' /\ IntakeIInv'
    BY <2>1, IntakeSame DEF FeishuIInv, FeishuTypeOK, intake, admin, replies, prompting, IntakeIInv
  <2>3. ReplyIInv'
    BY <2>1, RepliesSame DEF FeishuIInv, intake, replies, prompting, Arrived
  <2> QED
    BY <2>2, <2>3 DEF FeishuIInv
<1>8. CASE Lists
  BY <1>8, ListsKeeps
<1>9. ASSUME NEW c \in Chats, InstanceDies(c) PROVE FeishuIInv'
  BY <1>9, DeathKeeps
<1> QED
  BY <1>1, <1>2, <1>3, <1>4, <1>5, <1>6, <1>7, <1>8, <1>9 DEF FeishuNext

LEMMA FeishuHolds == FeishuSpec => []FeishuIInv
BY FeishuInitKeeps, FeishuStepKeeps, PTL DEF FeishuSpec

(* A message is handled once, and once more each time that the seen messages   *)
(* were forgotten at most, however often and whenever Feishu delivers it again,*)
(* for any capacity of the set (on_message).                                   *)
THEOREM MessagesAreHandledOnce == FeishuSpec => []HandledOnce
<1>1. FeishuIInv => HandledOnce
  BY DEF FeishuIInv, IntakeIInv, Counted, HandledOnce, FeishuTypeOK
<1> QED
  BY <1>1, FeishuHolds, PTL

(* A reply whose tool call is done was shown with its final text at some time, *)
(* or is in a call that will, unless the last plain send failed; for any number*)
(* of messages, chats, pieces and failures, in any order of the calls, however *)
(* many tasks of a chat read its instance's stream, fail or are cut off.       *)
THEOREM RepliesAreShown == FeishuSpec => []FinalTextShown
<1>1. FeishuIInv => FinalTextShown
  BY DEF FeishuIInv, ReplyIInv, Answered, FinalTextShown
<1> QED
  BY <1>1, FeishuHolds, PTL

-----------------------------------------------------------------------------
(* Proofs about ChannelServer. Connections: what a connection that has ended   *)
(* left behind, who may still register, and who works with which connection.   *)

EndedIsGone(k) == link[k] = "ended" => k \notin registered /\ toServer[k] = <<>>

RegistersOnce(k) ==
  /\ Len(toServer[k]) <= 1
  /\ "register" \in ToSet(toServer[k]) => k \notin registered

ProcessesHaveConns ==
  /\ \A p \in Clients : client[p].phase # "down" => client[p].conn \in Conns
  /\ \A t \in Tabs : /\ tab[t].phase = "registering" => tab[t].conn \in Conns
                     /\ tab[t].phase \in {"registering", "served"} => bridge.ws \in Conns

(* The route tables: RoutesAreOwned, with the list's order made explicit.      *)
TablesAreOwned ==
  /\ \A c \in AllChats : exact[c] # None => exact[c] \in registered /\ c \in NamesOf(exact[c])
  /\ \A k \in registered : \A c \in NamesOf(k) : exact[c] = k
  /\ prefix # None => prefix \in registered /\ Owner[prefix] = WebApp
  /\ \A i, j \in DOMAIN wild : wild[i] = wild[j] => i = j
  /\ \A i \in DOMAIN wild : wild[i] \in registered /\ Owner[wild[i]] \in Observers
  /\ \A k \in registered : Owner[k] \in Observers => \E i \in DOMAIN wild : wild[i] = k

(* Copies: a message is routed by one call at a time, nobody has a copy of one *)
(* that was not routed yet, nor has who is not registered; and who has one of  *)
(* a message on its way is its handler's process, or behind the loop's index.  *)
RoutesAreSound ==
  /\ \A s \in Sources : /\ route[s].m <= routed
                        /\ route[s].at = 0 => route[s].by = None
                        /\ route[s].m = 0 => route[s].at = 0
                        /\ route[s].m # 0 => route[s].chat \in AllChats
  /\ \A s, t \in Sources : route[s].m = route[t].m /\ route[s].m # 0 => s = t

Passed(k, s) == SameInstance(k, route[s].by) \/ \A i \in DOMAIN wild : wild[i] = k => i < route[s].at

CopiesAreFew ==
  /\ \A k \in Conns, m \in 1..MaxRouted :
       /\ copies[k][m] \in {0, 1}
       /\ copies[k][m] # 0 => k \in registered /\ m <= routed
  /\ \A k \in Conns, s \in Sources :
       route[s].m # 0 /\ copies[k][route[s].m] # 0 => Passed(k, s)

ConnectionsOK == (\A k \in Conns : EndedIsGone(k) /\ RegistersOnce(k)) /\ ProcessesHaveConns

ChannelIInv == TypeOK /\ ConnectionsOK /\ TablesAreOwned /\ RoutesAreSound /\ CopiesAreFew

(* What is left of a list of different members when one is removed.            *)
LEMMA RemovedAt ==
  ASSUME NEW S, NEW w \in Seq(S), NEW k, NEW p \in 1..Len(w), w[p] = k,
         \A i, j \in DOMAIN w : w[i] = w[j] => i = j
  PROVE  RemoveFirst(w, k) = SubSeq(w, 1, p - 1) \o SubSeq(w, p + 1, Len(w))
<1> DEFINE I == {i \in 1..Len(w) : w[i] = k}
<1>1. I = {p}
  OBVIOUS
<1>2. Min(I) = p
  BY <1>1 DEF Min
<1>3. SelectInSeq(w, LAMBDA v : v = k) = p
  BY <1>1, <1>2 DEF SelectInSeq
<1>4. RemoveFirst(w, k) = RemoveAt(w, SelectInSeq(w, LAMBDA v : v = k))
  BY DEF RemoveFirst
<1> QED
  BY <1>3, <1>4 DEF RemoveAt

LEMMA Spliced ==
  ASSUME NEW n \in Nat, NEW p \in 1..n, NEW w, NEW before, NEW behind, NEW r,
         Len(before) = p - 1, \A i \in 1..(p - 1) : before[i] = w[i],
         Len(behind) = n - p, \A i \in 1..(n - p) : behind[i] = w[i + p],
         Len(r) = Len(before) + Len(behind),
         \A i \in 1..Len(r) : r[i] = IF i <= Len(before) THEN before[i] ELSE behind[i - Len(before)]
  PROVE  /\ Len(r) = n - 1
         /\ \A i \in 1..Len(r) : r[i] = IF i < p THEN w[i] ELSE w[i + 1]
<1>1. Len(r) = n - 1
  OBVIOUS
<1>2. ASSUME NEW i \in 1..Len(r), i < p PROVE r[i] = w[i]
  BY <1>1, <1>2
<1>3. ASSUME NEW i \in 1..Len(r), ~ (i < p) PROVE r[i] = w[i + 1]
  <2>1. i - (p - 1) \in 1..(n - p) /\ (i - (p - 1)) + p = i + 1
    BY <1>1, <1>3
  <2>2. r[i] = behind[i - (p - 1)]
    BY <1>1, <1>3
  <2> QED
    BY <2>1, <2>2
<1> QED
  BY <1>1, <1>2, <1>3

LEMMA Without ==
  ASSUME NEW S, NEW w \in Seq(S), NEW p \in 1..Len(w)
  PROVE  LET r == SubSeq(w, 1, p - 1) \o SubSeq(w, p + 1, Len(w)) IN
         /\ r \in Seq(S) /\ Len(r) = Len(w) - 1
         /\ \A i \in 1..Len(r) : r[i] = IF i < p THEN w[i] ELSE w[i + 1]
<1> DEFINE before == SubSeq(w, 1, p - 1)
           behind == SubSeq(w, p + 1, Len(w))
           r == before \o behind
<1>1. /\ before \in Seq(S) /\ Len(before) = p - 1
      /\ \A i \in 1..(p - 1) : before[i] = w[i]
  OBVIOUS
<1>2. /\ behind \in Seq(S) /\ Len(behind) = Len(w) - p
      /\ \A i \in 1..(Len(w) - p) : behind[i] = w[i + p]
  OBVIOUS
<1> HIDE DEF before, behind
<1>3. /\ r \in Seq(S) /\ Len(r) = Len(before) + Len(behind)
      /\ \A i \in 1..(Len(before) + Len(behind)) :
           r[i] = IF i <= Len(before) THEN before[i] ELSE behind[i - Len(before)]
  BY <1>1, <1>2, ConcatProperties, Zenon
<1> HIDE DEF r
<1>4. Len(r) = Len(w) - 1 /\ \A i \in 1..Len(r) : r[i] = IF i < p THEN w[i] ELSE w[i + 1]
  <2>1. Len(w) \in Nat /\ p \in 1..Len(w)
    OBVIOUS
  <2>2. Len(before) = p - 1 /\ \A i \in 1..(p - 1) : before[i] = w[i]
    BY <1>1
  <2>3. Len(behind) = Len(w) - p /\ \A i \in 1..(Len(w) - p) : behind[i] = w[i + p]
    BY <1>2
  <2>4. /\ Len(r) = Len(before) + Len(behind)
        /\ \A i \in 1..Len(r) : r[i] = IF i <= Len(before) THEN before[i] ELSE behind[i - Len(before)]
    BY <1>3
  <2> QED
    <3>1. PICK n \in Nat : n = Len(w)
      BY <2>1
    <3>2. /\ p \in 1..n /\ Len(behind) = n - p
          /\ \A i \in 1..(n - p) : behind[i] = w[i + p]
      BY <2>1, <2>3, <3>1
    <3>3. Len(r) = n - 1 /\ \A i \in 1..Len(r) : r[i] = IF i < p THEN w[i] ELSE w[i + 1]
      BY ONLY n \in Nat, <2>2, <2>4, <3>2, Spliced
    <3> QED
      BY <3>1, <3>3
<1> QED
  BY <1>3, <1>4 DEF r, before, behind

LEMMA Removed ==
  ASSUME NEW S, NEW w \in Seq(S), NEW k, NEW r, r = RemoveFirst(w, k),
         \A i, j \in DOMAIN w : w[i] = w[j] => i = j
  PROVE  /\ r \in Seq(S)
         /\ \A i, j \in DOMAIN r : r[i] = r[j] => i = j
         /\ \A i \in DOMAIN r : \E j \in DOMAIN w : r[i] = w[j] /\ i <= j /\ w[j] # k
         /\ \A j \in DOMAIN w : w[j] # k => \E i \in DOMAIN r : r[i] = w[j]
<1>1. CASE \E p \in 1..Len(w) : w[p] = k
  <2>1. PICK p \in 1..Len(w) : w[p] = k
    BY <1>1
  <2>2. r = SubSeq(w, 1, p - 1) \o SubSeq(w, p + 1, Len(w))
    BY <2>1, RemovedAt
  <2>3. /\ r \in Seq(S) /\ Len(r) = Len(w) - 1
        /\ \A i \in 1..Len(r) : r[i] = IF i < p THEN w[i] ELSE w[i + 1]
    <3> DEFINE l == SubSeq(w, 1, p - 1) \o SubSeq(w, p + 1, Len(w))
    <3>1. /\ l \in Seq(S) /\ Len(l) = Len(w) - 1
          /\ \A i \in 1..Len(l) : l[i] = IF i < p THEN w[i] ELSE w[i + 1]
      BY Without
    <3>2. r = l
      BY <2>2
    <3> HIDE DEF l
    <3> QED
      BY ONLY <3>1, <3>2, Zenon
  <2>4. DOMAIN r = 1..Len(r) /\ DOMAIN w = 1..Len(w) /\ Len(w) \in Nat
    BY <2>3
  <2>5. ASSUME NEW i \in 1..Len(r)
        PROVE  \E j \in 1..Len(w) : /\ r[i] = w[j] /\ i <= j /\ w[j] # k
                                    /\ j = IF i < p THEN i ELSE i + 1
    <3> DEFINE j == IF i < p THEN i ELSE i + 1
    <3>0. Len(r) = Len(w) - 1 /\ Len(w) \in Nat
      BY <2>3, <2>4
    <3>1. r[i] = w[j]
      BY <2>3
    <3>2. j \in 1..Len(w) /\ i <= j /\ j # p
      BY ONLY <3>0
    <3>3. w[j] # k
      BY <2>1, <2>4, <3>2
    <3> QED
      BY <3>1, <3>2, <3>3
  <2>6. ASSUME NEW i \in DOMAIN r, NEW j \in DOMAIN r, r[i] = r[j] PROVE i = j
    BY <2>4, <2>5, <2>6
  <2>7. ASSUME NEW j \in 1..Len(w), w[j] # k PROVE \E i \in DOMAIN r : r[i] = w[j]
    <3>1. CASE j < p
      BY <2>3, <2>4, <3>1
    <3>2. CASE j > p
      <4>1. j - 1 \in 1..Len(r) /\ ~ (j - 1 < p) /\ r[j - 1] = w[j]
        BY <2>3, <3>2
      <4> QED
        BY <2>4, <4>1
    <3> QED
      BY <2>1, <2>7, <3>1, <3>2
  <2> QED
    BY <2>3, <2>4, <2>5, <2>6, <2>7
<1>2. CASE ~ \E p \in 1..Len(w) : w[p] = k
  BY <1>2 DEF RemoveFirst
<1> QED
  BY <1>1, <1>2

LEMMA ListLength ==
  ASSUME NEW S, IsFiniteSet(S), NEW w \in Seq(S), \A i, j \in DOMAIN w : w[i] = w[j] => i = j
  PROVE  Cardinality(ToSet(w)) = Len(w) /\ Len(w) <= Cardinality(S) /\ Cardinality(S) \in Nat
<1> DEFINE f == [i \in 1..Len(w) |-> w[i]]
<1>1. f \in Bijection(1..Len(w), ToSet(w))
  BY DEF Bijection, Injection, Surjection, IsInjective, ToSet
<1>2. Cardinality(ToSet(w)) = Len(w)
  BY <1>1, FS_CountingElements DEF ExistsBijection
<1>3. ToSet(w) \subseteq S
  BY DEF ToSet
<1>4. Cardinality(ToSet(w)) <= Cardinality(S) /\ Cardinality(S) \in Nat
  BY <1>3, FS_Subset, FS_CardinalityType
<1> QED
  BY <1>2, <1>4

LEMMA OneFrame ==
  ASSUME NEW S, NEW q \in Seq(S), q # <<>>, Len(q) <= 1
  PROVE  Tail(q) = <<>> /\ Head(q) \in S /\ Head(q) \in ToSet(q)
BY DEF ToSet

LEMMA FramesOf == ToSet(<<>>) = {} /\ \A x : Len(<<x>>) = 1 /\ ToSet(<<x>>) = {x}
BY DEF ToSet

LEMMA NamesAreChats ==
  ASSUME NEW k \in Conns
  PROVE  NamesOf(k) \subseteq AllChats /\ k # None /\ k # Pool /\ k # Feishu
BY ChannelAssumption DEF NamesOf

Frames == {"register"} \cup WebChats

Routings == [m : 0..MaxRouted, chat : AllChats \cup {None}, at : 0..(Cardinality(Conns) + 1),
             by : Conns \cup {None, Pool}]

LEMMA ConnTypes ==
  ASSUME TypeOK
  PROVE  /\ link \in [Conns -> {"open", "lost", "ended"}] /\ toServer \in [Conns -> Seq(Frames)]
         /\ registered \subseteq Conns /\ wild \in Seq(Conns)
         /\ route \in [Sources -> Routings] /\ routed \in 0..MaxRouted
         /\ copies \in [Conns -> [1..MaxRouted -> {0, 1, 2}]]
BY DEF TypeOK, Frames, Routings

(* A step that leaves the server's tables and routings alone.                  *)
LEMMA TablesSame ==
  ASSUME ChannelIInv, UNCHANGED <<server, route, routed, copies>>
  PROVE  TablesAreOwned' /\ RoutesAreSound' /\ CopiesAreFew'
<1> USE DEF ChannelIInv, server
<1>1. TablesAreOwned'
  BY DEF TablesAreOwned
<1>2. RoutesAreSound'
  BY DEF RoutesAreSound
<1>3. CopiesAreFew'
  BY DEF CopiesAreFew, Passed
<1> QED
  BY <1>1, <1>2, <1>3

(* The frames and links that a step may leave: nothing new that registers.     *)
LEMMA ConnectionStep ==
  ASSUME TypeOK, ConnectionsOK, registered' = registered,
         \A k \in Conns : \/ link'[k] = link[k]
                          \/ link'[k] # "ended",
         \A k \in Conns : \/ toServer'[k] = toServer[k]
                          \/ toServer'[k] = <<>>
                          \/ /\ link'[k] # "ended" /\ Len(toServer'[k]) <= 1
                             /\ "register" \in ToSet(toServer'[k]) => k \notin registered
  PROVE  \A k \in Conns : EndedIsGone(k)' /\ RegistersOnce(k)'
BY FramesOf DEF ConnectionsOK, EndedIsGone, RegistersOnce

LEMMA OpensLeaves ==
  ASSUME TypeOK, ConnectionsOK, NEW p, NEW k \in Conns, Opens(p, k), registered' = registered
  PROVE  /\ link' \in [Conns -> {"open", "lost", "ended"}] /\ toServer' \in [Conns -> Seq(Frames)]
         /\ \A j \in Conns : EndedIsGone(j)' /\ RegistersOnce(j)'
<1>1. FreeConns(p) # {} /\ k \in FreeConns(p)
  BY DEF Opens
<1>2. link[k] = "ended" /\ k \notin registered
  BY <1>1 DEF FreeConns, InUse, ConnectionsOK, EndedIsGone
<1>3. /\ link' = [link EXCEPT ![k] = "open"] /\ toServer' = [toServer EXCEPT ![k] = <<"register">>]
  BY DEF Opens
<1>4. <<"register">> \in Seq(Frames)
  BY DEF Frames
<1>5. /\ link' \in [Conns -> {"open", "lost", "ended"}] /\ toServer' \in [Conns -> Seq(Frames)]
  BY <1>3, <1>4, ConnTypes
<1> QED
  BY <1>2, <1>3, <1>5, ConnTypes, FramesOf, ConnectionStep

LEMMA ReadsLeaves ==
  ASSUME TypeOK, ConnectionsOK, NEW k \in Conns, Reads(k), registered' = registered, link' = link
  PROVE  /\ toServer' \in [Conns -> Seq(Frames)] /\ Frame(k) \in Frames /\ Frame(k) \in ToSet(toServer[k])
         /\ link[k] # "ended" /\ route[k] = Idle
         /\ \A j \in Conns : EndedIsGone(j)' /\ RegistersOnce(j)'
<1>1. toServer[k] \in Seq(Frames) /\ toServer[k] # <<>> /\ Len(toServer[k]) <= 1
  BY ConnTypes DEF Reads, ConnectionsOK, RegistersOnce
<1>2. Tail(toServer[k]) = <<>> /\ Head(toServer[k]) \in Frames /\ Head(toServer[k]) \in ToSet(toServer[k])
  BY <1>1, OneFrame
<1>3. toServer' = [toServer EXCEPT ![k] = <<>>]
  BY <1>2, ConnTypes DEF Reads
<1>4. toServer' \in [Conns -> Seq(Frames)]
  BY <1>3, ConnTypes
<1> QED
  BY <1>2, <1>3, <1>4, ConnTypes, ConnectionStep DEF Frame, Reads

(* The steps of the processes, which leave the server's tables as they are.    *)
LEMMA LocalKeeps ==
  ASSUME ChannelIInv, UNCHANGED <<server, route, routed, copies>>, TypeOK', ProcessesHaveConns',
         \A k \in Conns : EndedIsGone(k)' /\ RegistersOnce(k)'
  PROVE  ChannelIInv'
BY TablesSame DEF ChannelIInv, ConnectionsOK

LEMMA NothingSent ==
  ASSUME ChannelIInv, UNCHANGED <<link, toServer, registered>>
  PROVE  \A k \in Conns : EndedIsGone(k)' /\ RegistersOnce(k)'
BY DEF ChannelIInv, ConnectionsOK, EndedIsGone, RegistersOnce

LEMMA DropsKeeps == ASSUME ChannelIInv, NEW k \in Conns, Drops(k) PROVE ChannelIInv'
<1> USE DEF Drops, ChannelIInv
<1>1. TypeOK'
  BY ChannelAssumption DEF TypeOK, server, web
<1>2. ProcessesHaveConns'
  BY DEF ConnectionsOK, ProcessesHaveConns, web
<1>3. \A j \in Conns : EndedIsGone(j)' /\ RegistersOnce(j)'
  BY ConnTypes, ConnectionStep DEF server
<1> QED
  BY <1>1, <1>2, <1>3, LocalKeeps

LEMMA ClientConnectsKeeps ==
  ASSUME ChannelIInv, NEW p \in Clients, ClientConnects(p) PROVE ChannelIInv'
<1> USE DEF ClientConnects, ChannelIInv
<1>1. PICK k \in Conns : Opens(p, k) /\ client' = [client EXCEPT ![p] = [phase |-> "registering", conn |-> k]]
  OBVIOUS
<1>2. /\ link' \in [Conns -> {"open", "lost", "ended"}] /\ toServer' \in [Conns -> Seq(Frames)]
      /\ \A j \in Conns : EndedIsGone(j)' /\ RegistersOnce(j)'
  BY <1>1, OpensLeaves DEF server
<1>3. TypeOK'
  BY <1>1, <1>2 DEF TypeOK, server, web, Frames
<1>4. ProcessesHaveConns'
  BY <1>1 DEF ConnectionsOK, ProcessesHaveConns, web, TypeOK
<1> QED
  BY <1>2, <1>3, <1>4, LocalKeeps

LEMMA ClientStepsKeep ==
  ASSUME ChannelIInv, NEW p \in Clients, ClientRegistered(p) \/ ClientRefused(p) \/ ClientLoses(p)
  PROVE  ChannelIInv'
<1> USE DEF ChannelIInv
<1>1. client[p].phase # "down" /\ client[p].conn \in Conns
  BY DEF ClientRegistered, ClientRefused, ClientLoses, ConnectionsOK, ProcessesHaveConns
<1>2. \/ client' = [client EXCEPT ![p].phase = "up"]
      \/ client' = [client EXCEPT ![p] = [phase |-> "down", conn |-> None]]
  BY DEF ClientRegistered, ClientRefused, ClientLoses
<1>3. /\ client' \in [Clients -> [phase : {"down", "registering", "up"}, conn : Conns \cup {None}]]
      /\ \A q \in Clients : client'[q].phase # "down" => client'[q].conn \in Conns
  <2> DEFINE Ends == [phase : {"down", "registering", "up"}, conn : Conns \cup {None}]
             Sound(u) == u \in Ends /\ (u.phase # "down" => u.conn \in Conns)
             up == [client[p] EXCEPT !.phase = "up"]
             down == [phase |-> "down", conn |-> None]
  <2>1. client \in [Clients -> Ends] /\ \A q \in Clients : Sound(client[q])
    BY DEF TypeOK, ConnectionsOK, ProcessesHaveConns
  <2>2. Sound(up) /\ Sound(down)
    BY <1>1, <2>1
  <2>3. PICK u \in {up, down} : client' = [client EXCEPT ![p] = u]
    BY <1>2
  <2> HIDE DEF up, down, Ends
  <2>4. Sound(u) /\ u \in Ends
    BY <2>2, <2>3
  <2> HIDE DEF Sound
  <2>5. client' \in [Clients -> Ends] /\ \A q \in Clients : Sound(client'[q])
    BY <2>1, <2>3, <2>4
  <2> QED
    BY <2>5 DEF Sound, Ends
<1>4. UNCHANGED <<toServer, ack, server, route, routed, copies, web, drops>>
  BY DEF ClientRegistered, ClientRefused, ClientLoses
<1>5. \/ link' = link
      \/ link' = [link EXCEPT ![client[p].conn] = IF @ = "open" THEN "lost" ELSE @]
  BY DEF ClientRegistered, ClientRefused, ClientLoses
<1>6. /\ link' \in [Conns -> {"open", "lost", "ended"}]
      /\ \A k \in Conns : link'[k] = link[k] \/ link'[k] # "ended"
  BY <1>1, <1>5, ConnTypes
<1>7. TypeOK'
  BY <1>3, <1>4, <1>6 DEF TypeOK, server, web
<1>8. ProcessesHaveConns'
  BY <1>3, <1>4 DEF ConnectionsOK, ProcessesHaveConns, web
<1>9. \A j \in Conns : EndedIsGone(j)' /\ RegistersOnce(j)'
  BY <1>4, <1>6, ConnectionStep DEF server
<1> QED
  BY <1>4, <1>7, <1>8, <1>9, LocalKeeps

(* A frame that is not "register", on a connection with none before.           *)
LEMMA SendsLeaves ==
  ASSUME TypeOK, ConnectionsOK, NEW k \in Conns, NEW c \in WebChats, link[k] = "open",
         toServer' = [toServer EXCEPT ![k] = <<c>>], registered' = registered, link' = link
  PROVE  /\ toServer' \in [Conns -> Seq(Frames)]
         /\ \A j \in Conns : EndedIsGone(j)' /\ RegistersOnce(j)'
<1>1. <<c>> \in Seq(Frames) /\ c # "register"
  BY ChannelAssumption DEF Frames
<1>2. toServer' \in [Conns -> Seq(Frames)]
  BY <1>1, ConnTypes
<1>3. Len(toServer'[k]) <= 1 /\ "register" \notin ToSet(toServer'[k]) /\ link'[k] # "ended"
  BY <1>1, ConnTypes, FramesOf
<1> QED
  BY <1>2, <1>3, ConnTypes, ConnectionStep

LEMMA ClientRepliesKeeps ==
  ASSUME ChannelIInv, NEW p \in Clients, ClientReplies(p) PROVE ChannelIInv'
<1> USE DEF ClientReplies, ChannelIInv
<1>1. client[p].conn \in Conns
  BY DEF ConnectionsOK, ProcessesHaveConns
<1>2. /\ toServer' \in [Conns -> Seq(Frames)]
      /\ \A j \in Conns : EndedIsGone(j)' /\ RegistersOnce(j)'
  BY <1>1, SendsLeaves DEF server
<1>3. TypeOK'
  BY <1>2 DEF TypeOK, server, web, Frames
<1>4. ProcessesHaveConns'
  BY DEF ConnectionsOK, ProcessesHaveConns, web
<1> QED
  BY <1>2, <1>3, <1>4, LocalKeeps

Phases == {"closed", "connecting", "registering", "served"}

LEMMA TabMoves ==
  ASSUME ChannelIInv, NEW t \in Tabs, NEW phase \in Phases, NEW k \in Conns \cup {None},
         TabIs(t, phase, k), client' = client, bridge'.ws = bridge.ws \/ bridge'.ws \in Conns,
         phase = "registering" => k \in Conns,
         phase \in {"registering", "served"} => bridge'.ws \in Conns
  PROVE  tab' \in [Tabs -> [phase : Phases, conn : Conns \cup {None}]] /\ ProcessesHaveConns'
<1>1. tab \in [Tabs -> [phase : Phases, conn : Conns \cup {None}]]
  BY DEF ChannelIInv, TypeOK, Phases
<1>2. tab' = [tab EXCEPT ![t] = [phase |-> phase, conn |-> k]]
  BY DEF TabIs
<1>3. tab' \in [Tabs -> [phase : Phases, conn : Conns \cup {None}]]
  BY <1>1, <1>2
<1>4. \A u \in Tabs : tab'[u] = IF u = t THEN [phase |-> phase, conn |-> k] ELSE tab[u]
  BY <1>1, <1>2
<1>5. ProcessesHaveConns'
  BY <1>4 DEF ChannelIInv, ConnectionsOK, ProcessesHaveConns
<1> QED
  BY <1>3, <1>5

LEMMA TabConnectsKeeps == ASSUME ChannelIInv, NEW t \in Tabs, TabConnects(t) PROVE ChannelIInv'
<1> USE DEF TabConnects, ChannelIInv
<1>1. PICK k \in Conns : Opens(WebApp, k) /\ bridge' = [bridge EXCEPT !.ws = k] /\ TabIs(t, "registering", k)
  OBVIOUS
<1>2. /\ link' \in [Conns -> {"open", "lost", "ended"}] /\ toServer' \in [Conns -> Seq(Frames)]
      /\ \A j \in Conns : EndedIsGone(j)' /\ RegistersOnce(j)'
  BY <1>1, OpensLeaves DEF server
<1>3. bridge' \in [ws : Conns \cup {None}, connected : BOOLEAN] /\ bridge'.ws = k
  BY <1>1 DEF TypeOK
<1>4. tab' \in [Tabs -> [phase : Phases, conn : Conns \cup {None}]] /\ ProcessesHaveConns'
  BY <1>1, <1>3, TabMoves DEF Phases
<1>5. UNCHANGED <<ack, server, route, routed, copies, client, loops, shown, drops>>
  OBVIOUS
<1>6. TypeOK'
  <2> HIDE DEF TabConnects
  <2> QED
    BY <1>2, <1>3, <1>4, <1>5 DEF TypeOK, server, Frames, Phases
<1> QED
  BY <1>2, <1>4, <1>5, <1>6, LocalKeeps

LEMMA TabStepsKeep ==
  ASSUME ChannelIInv, NEW t \in Tabs,
         TabOpens(t) \/ TabRegistered(t) \/ TabFails(t) \/ TabCloses(t)
  PROVE  ChannelIInv'
<1> USE DEF ChannelIInv
<1>1. UNCHANGED <<link, toServer, ack, server, route, routed, copies, client, shown, drops>>
  BY DEF TabOpens, TabRegistered, TabFails, TabCloses
<1>2. bridge \in [ws : Conns \cup {None}, connected : BOOLEAN] /\ loops \subseteq Conns
  BY DEF TypeOK
<1>3. /\ bridge' \in [ws : Conns \cup {None}, connected : BOOLEAN] /\ bridge'.ws = bridge.ws
      /\ loops' \subseteq Conns
      /\ tab' \in [Tabs -> [phase : Phases, conn : Conns \cup {None}]] /\ ProcessesHaveConns'
  <2> USE DEF Phases
  <2>1. CASE TabOpens(t)
    BY <1>1, <1>2, <2>1, TabMoves DEF TabOpens
  <2>2. CASE TabRegistered(t)
    <3>1. bridge.ws \in Conns
      BY <2>2 DEF TabRegistered, ConnectionsOK, ProcessesHaveConns
    <3>2. PICK c \in BOOLEAN : bridge' = [bridge EXCEPT !.connected = c]
      BY <2>2 DEF TabRegistered
    <3>3. bridge' \in [ws : Conns \cup {None}, connected : BOOLEAN] /\ bridge'.ws = bridge.ws
      BY <1>2, <3>2
    <3>4. loops' \subseteq Conns
      BY <1>2, <2>2, <3>1 DEF TabRegistered
    <3>5. TabIs(t, "served", None)
      BY <2>2 DEF TabRegistered
    <3>6. tab' \in [Tabs -> [phase : Phases, conn : Conns \cup {None}]] /\ ProcessesHaveConns'
      BY <1>1, <3>1, <3>3, <3>5, TabMoves
    <3> QED
      BY <3>3, <3>4, <3>6
  <2>3. CASE TabFails(t)
    BY <1>1, <1>2, <2>3, TabMoves DEF TabFails
  <2>4. CASE TabCloses(t)
    BY <1>1, <1>2, <2>4, TabMoves DEF TabCloses
  <2> QED
    BY <2>1, <2>2, <2>3, <2>4
<1>4. TypeOK'
  BY <1>1, <1>3 DEF TypeOK, server, Phases
<1>5. \A j \in Conns : EndedIsGone(j)' /\ RegistersOnce(j)'
  BY <1>1, NothingSent DEF server
<1> QED
  BY <1>1, <1>3, <1>4, <1>5, LocalKeeps

LEMMA LoopEndsKeeps == ASSUME ChannelIInv, NEW k \in Conns, LoopEnds(k) PROVE ChannelIInv'
<1> USE DEF LoopEnds, ChannelIInv
<1>1. bridge' \in [ws : Conns \cup {None}, connected : BOOLEAN] /\ bridge'.ws = bridge.ws
  BY DEF TypeOK
<1>2. loops' \subseteq Conns
  BY DEF TypeOK
<1>3. TypeOK'
  <2>1. UNCHANGED <<link, toServer, ack, server, route, routed, copies, client, tab, shown, drops>>
    OBVIOUS
  <2> HIDE DEF LoopEnds
  <2> QED
    BY <1>1, <1>2, <2>1 DEF TypeOK, server
<1>4. ProcessesHaveConns'
  BY <1>1 DEF ConnectionsOK, ProcessesHaveConns
<1> QED
  BY <1>3, <1>4, NothingSent, LocalKeeps DEF server

LEMMA TabSendsKeeps == ASSUME ChannelIInv, NEW t \in Tabs, TabSends(t) PROVE ChannelIInv'
<1> USE DEF TabSends, ChannelIInv
<1>1. bridge.ws \in Conns
  BY DEF ConnectionsOK, ProcessesHaveConns
<1>2. CASE link[bridge.ws] = "open"
  <2>1. /\ toServer' \in [Conns -> Seq(Frames)]
        /\ \A j \in Conns : EndedIsGone(j)' /\ RegistersOnce(j)'
    <3>1. TabChat[t] \in WebChats
      BY DEF WebChats
    <3> QED
      BY <1>1, <1>2, <3>1, SendsLeaves DEF server
  <2>2. TypeOK'
    BY <1>2, <2>1 DEF TypeOK, server, Frames
  <2>3. ProcessesHaveConns'
    BY <1>2 DEF ConnectionsOK, ProcessesHaveConns
  <2> QED
    BY <2>1, <2>2, <2>3, LocalKeeps
<1>3. CASE link[bridge.ws] # "open"
  <2>1. tab' \in [Tabs -> [phase : Phases, conn : Conns \cup {None}]] /\ ProcessesHaveConns'
    BY <1>3, TabMoves DEF Phases
  <2>2. TypeOK'
    BY <1>3, <2>1 DEF TypeOK, server, Phases
  <2>3. \A j \in Conns : EndedIsGone(j)' /\ RegistersOnce(j)'
    BY <1>3, NothingSent DEF server
  <2> QED
    BY <2>1, <2>2, <2>3, LocalKeeps
<1> QED
  BY <1>2, <1>3

LEMMA HandleReplyKeeps == ASSUME ChannelIInv, NEW k \in Conns, HandleReply(k) PROVE ChannelIInv'
<1> USE DEF HandleReply, ChannelIInv
<1>1. /\ toServer' \in [Conns -> Seq(Frames)]
      /\ \A j \in Conns : EndedIsGone(j)' /\ RegistersOnce(j)'
  BY ReadsLeaves DEF server
<1>2. shown' \subseteq Tabs
  BY DEF TypeOK
<1>3. TypeOK'
  BY <1>1, <1>2 DEF TypeOK, server, Frames
<1>4. ProcessesHaveConns'
  BY DEF ConnectionsOK, ProcessesHaveConns
<1> QED
  BY <1>1, <1>3, <1>4, LocalKeeps

(* Registration: who registers was not registered, took names that nobody had, *)
(* and joins the list behind all others.                                       *)
LEMMA Appended ==
  ASSUME NEW S, NEW w \in Seq(S), NEW k \in S
  PROVE  LET r == Append(w, k) IN
         /\ r \in Seq(S) /\ DOMAIN r = DOMAIN w \cup {Len(w) + 1} /\ Len(w) + 1 \notin DOMAIN w
         /\ r[Len(w) + 1] = k /\ \A i \in DOMAIN w : r[i] = w[i]
OBVIOUS

LEMMA RegisterTables ==
  ASSUME ChannelIInv, NEW k \in Conns, k \notin registered, ~ Conflict(k), TypeOK',
         registered' = registered \cup {k},
         exact' = [c \in AllChats |-> IF c \in NamesOf(k) THEN k ELSE exact[c]],
         prefix' = IF Owner[k] = WebApp THEN k ELSE prefix,
         wild' = IF Owner[k] \in Observers THEN Append(wild, k) ELSE wild,
         UNCHANGED <<route, routed, copies>>
  PROVE  TablesAreOwned' /\ RoutesAreSound' /\ CopiesAreFew'
<1> USE DEF ChannelIInv
<1>1. NamesOf(k) \subseteq AllChats /\ k # None
  BY NamesAreChats
<1>2. (\A c \in AllChats : exact[c] # None => exact[c] \in registered /\ c \in NamesOf(exact[c]))'
  BY <1>1 DEF TablesAreOwned
<1>3. (\A j \in registered : \A c \in NamesOf(j) : exact[c] = j)'
  <2> SUFFICES ASSUME NEW j \in registered', NEW c \in NamesOf(j) PROVE exact'[c] = j
    BY DEF NamesOf
  <2>1. j \in Conns /\ c \in AllChats /\ j # None
    BY NamesAreChats, ConnTypes
  <2>2. CASE j = k
    BY <2>1, <2>2
  <2>3. CASE j # k
    <3>1. exact[c] = j
      BY <2>3 DEF TablesAreOwned
    <3>2. c \notin NamesOf(k)
      BY <2>1, <3>1 DEF Conflict
    <3> QED
      BY <2>1, <3>1, <3>2
  <2> QED
    BY <2>2, <2>3
<1>4. prefix' # None => prefix' \in registered' /\ Owner[prefix'] = WebApp
  BY DEF TablesAreOwned
<1>5. /\ (\A i, j \in DOMAIN wild : wild[i] = wild[j] => i = j)'
      /\ (\A i \in DOMAIN wild : wild[i] \in registered /\ Owner[wild[i]] \in Observers)'
      /\ (\A j \in registered : Owner[j] \in Observers => \E i \in DOMAIN wild : wild[i] = j)'
      /\ \A i \in DOMAIN wild' : wild'[i] # k => i \in DOMAIN wild /\ wild[i] = wild'[i]
  <2>1. CASE Owner[k] \in Observers
    <3> DEFINE r == Append(wild, k)
    <3>1. wild \in Seq(Conns) /\ wild' = r
      BY <2>1, ConnTypes
    <3>2. /\ DOMAIN r = DOMAIN wild \cup {Len(wild) + 1} /\ Len(wild) + 1 \notin DOMAIN wild
          /\ r[Len(wild) + 1] = k /\ \A i \in DOMAIN wild : r[i] = wild[i]
      BY <3>1, Appended
    <3> HIDE DEF r
    <3> QED
      BY <2>1, <3>1, <3>2 DEF TablesAreOwned
  <2>2. CASE Owner[k] \notin Observers
    BY <2>2 DEF TablesAreOwned
  <2> QED
    BY <2>1, <2>2
<1>6. TablesAreOwned'
  BY <1>2, <1>3, <1>4, <1>5 DEF TablesAreOwned
<1>7. RoutesAreSound'
  BY DEF RoutesAreSound
<1>8. CopiesAreFew'
  <2>1. ASSUME NEW j \in Conns, NEW m \in 1..MaxRouted
        PROVE  copies[j][m] \in {0, 1} /\ (copies[j][m] # 0 => j \in registered' /\ m <= routed)
    BY DEF CopiesAreFew
  <2>2. ASSUME NEW j \in Conns, NEW s \in Sources, route[s].m # 0, copies[j][route[s].m] # 0
        PROVE  Passed(j, s)'
    <3>1. route[s].m \in 1..MaxRouted
      BY <2>2, ConnTypes DEF Routings
    <3>2. Passed(j, s) /\ j # k
      BY <2>2, <3>1 DEF CopiesAreFew
    <3> QED
      BY <1>5, <3>2 DEF Passed
  <2> QED
    BY <2>1, <2>2 DEF CopiesAreFew
<1> QED
  BY <1>6, <1>7, <1>8

LEMMA HandleRegisterKeeps ==
  ASSUME ChannelIInv, NEW k \in Conns, HandleRegister(k) PROVE ChannelIInv'
<1> USE DEF HandleRegister, ChannelIInv
<1>1. Frame(k) \in ToSet(toServer[k]) /\ link[k] # "ended" /\ k \notin registered
  <2>1. toServer[k] \in Seq(Frames) /\ toServer[k] # <<>> /\ Len(toServer[k]) <= 1
    BY ConnTypes DEF Reads, ConnectionsOK, RegistersOnce
  <2> QED
    BY <2>1, OneFrame DEF Frame, Reads, ConnectionsOK, RegistersOnce
<1>2. toServer' = [toServer EXCEPT ![k] = <<>>]
  <2>1. toServer[k] \in Seq(Frames) /\ toServer[k] # <<>> /\ Len(toServer[k]) <= 1
    BY ConnTypes DEF Reads, ConnectionsOK, RegistersOnce
  <2> QED
    BY <2>1, OneFrame, ConnTypes DEF Reads
<1>3. toServer' \in [Conns -> Seq(Frames)]
  BY <1>2, ConnTypes
<1>4. ProcessesHaveConns'
  BY DEF ConnectionsOK, ProcessesHaveConns, web
<1>5. CASE Conflict(k)
  <2>1. UNCHANGED <<link, server, route, routed, copies, client, web, drops>> /\ ack' = [ack EXCEPT ![k] = "error"]
    BY <1>5
  <2>2. TypeOK'
    BY <1>3, <2>1 DEF TypeOK, server, web, Frames
  <2>3. \A j \in Conns : EndedIsGone(j)' /\ RegistersOnce(j)'
    BY <1>5, <2>1, ReadsLeaves DEF server
  <2> QED
    BY <1>4, <2>1, <2>2, <2>3, LocalKeeps
<1>6. CASE ~ Conflict(k)
  <2>1. /\ registered' = registered \cup {k} /\ ack' = [ack EXCEPT ![k] = "registered"]
        /\ exact' = [c \in AllChats |-> IF c \in NamesOf(k) THEN k ELSE exact[c]]
        /\ prefix' = IF Owner[k] = WebApp THEN k ELSE prefix
        /\ wild' = IF Owner[k] \in Observers THEN Append(wild, k) ELSE wild
        /\ UNCHANGED <<link, pooled, route, routed, copies, client, web, drops>>
    BY <1>6
  <2>2. exact' \in [AllChats -> Conns \cup {None}] /\ prefix' \in Conns \cup {None}
    BY <2>1 DEF TypeOK
  <2>3. wild' \in Seq(Conns)
    BY <2>1, ConnTypes, Appended
  <2>4. TypeOK'
    BY <1>3, <2>1, <2>2, <2>3 DEF TypeOK, server, web, Frames
  <2>5. TablesAreOwned' /\ RoutesAreSound' /\ CopiesAreFew'
    BY <1>1, <1>6, <2>1, <2>4, RegisterTables
  <2>6. \A j \in Conns : EndedIsGone(j)' /\ RegistersOnce(j)'
    BY <1>1, <1>2, <2>1, ConnTypes, FramesOf DEF ConnectionsOK, EndedIsGone, RegistersOnce
  <2> QED
    BY <1>4, <2>4, <2>5, <2>6 DEF ConnectionsOK
<1> QED
  BY <1>5, <1>6

(* The end of a connection: its names, its place in the list and its copies go;*)
(* those behind it in the list move up, which a loop does not count for them.  *)
LEMMA UnregisterTables ==
  ASSUME ChannelIInv, NEW k \in Conns, TypeOK', Unregisters(k)
  PROVE  /\ registered' = registered \ {k} /\ TablesAreOwned'
         /\ \A i \in DOMAIN wild' : \E j \in DOMAIN wild : wild'[i] = wild[j] /\ i <= j
<1> USE DEF ChannelIInv
<1>1. CASE k \notin registered
  <2>1. UNCHANGED server
    BY <1>1 DEF Unregisters
  <2>2. \A i \in DOMAIN wild : i <= i
    BY ConnTypes
  <2> QED
    BY <1>1, <2>1, <2>2 DEF server, TablesAreOwned
<1>2. CASE k \in registered
  <2>1. /\ registered' = registered \ {k}
        /\ exact' = [c \in AllChats |-> IF c \in NamesOf(k) THEN None ELSE exact[c]]
        /\ prefix' = IF Owner[k] = WebApp THEN None ELSE prefix
        /\ wild' = RemoveFirst(wild, k)
    BY <1>2 DEF Unregisters
  <2>2. /\ \A i, j \in DOMAIN wild' : wild'[i] = wild'[j] => i = j
        /\ \A i \in DOMAIN wild' : \E j \in DOMAIN wild : wild'[i] = wild[j] /\ i <= j /\ wild[j] # k
        /\ \A j \in DOMAIN wild : wild[j] # k => \E i \in DOMAIN wild' : wild'[i] = wild[j]
    BY <2>1, ConnTypes, Removed DEF TablesAreOwned
  <2>3. (\A c \in AllChats : exact[c] # None => exact[c] \in registered /\ c \in NamesOf(exact[c]))'
    <3> SUFFICES ASSUME NEW c \in AllChats, exact'[c] # None
                 PROVE  exact'[c] \in registered' /\ c \in NamesOf(exact'[c])
      BY DEF NamesOf
    <3>1. c \notin NamesOf(k) /\ exact'[c] = exact[c]
      BY <2>1
    <3> QED
      BY <2>1, <3>1 DEF TablesAreOwned
  <2>4. (\A j \in registered : \A c \in NamesOf(j) : exact[c] = j)'
    <3> SUFFICES ASSUME NEW j \in registered', NEW c \in NamesOf(j) PROVE exact'[c] = j
      BY DEF NamesOf
    <3>1. j \in registered /\ j # k /\ j \in Conns /\ c \in AllChats
      BY <2>1, NamesAreChats, ConnTypes
    <3>2. exact[c] = j /\ c \notin NamesOf(k)
      BY <1>2, <3>1 DEF TablesAreOwned
    <3> QED
      BY <2>1, <3>1, <3>2
  <2>5. prefix' # None => prefix' \in registered' /\ Owner[prefix'] = WebApp
    BY <2>1 DEF TablesAreOwned
  <2>6. /\ (\A i \in DOMAIN wild : wild[i] \in registered /\ Owner[wild[i]] \in Observers)'
        /\ (\A j \in registered : Owner[j] \in Observers => \E i \in DOMAIN wild : wild[i] = j)'
    BY <2>1, <2>2 DEF TablesAreOwned
  <2> QED
    BY <2>1, <2>2, <2>3, <2>4, <2>5, <2>6 DEF TablesAreOwned
<1> QED
  BY <1>1, <1>2

LEMMA ServerEndsKeeps == ASSUME ChannelIInv, NEW k \in Conns, ServerEnds(k) PROVE ChannelIInv'
<1> USE DEF ServerEnds, ChannelIInv
<1>1. /\ link' \in [Conns -> {"open", "lost", "ended"}] /\ \A j \in Conns : j # k => link'[j] = link[j]
      /\ copies' \in [Conns -> [1..MaxRouted -> {0, 1, 2}]]
      /\ \A j \in Conns, m \in 1..MaxRouted : copies'[j][m] = IF j = k THEN 0 ELSE copies[j][m]
  BY ConnTypes
<1>2. /\ registered' \subseteq Conns /\ exact' \in [AllChats -> Conns \cup {None}]
      /\ prefix' \in Conns \cup {None} /\ pooled' = pooled
  <2>1. CASE k \notin registered
    BY <2>1 DEF TypeOK, Unregisters, server
  <2>2. CASE k \in registered
    BY <2>2 DEF TypeOK, Unregisters
  <2> QED
    BY <2>1, <2>2
<1>3. wild' \in Seq(Conns)
  <2>1. CASE k \notin registered
    BY <2>1, ConnTypes DEF Unregisters, server
  <2>2. CASE k \in registered
    BY <2>2, ConnTypes, Removed DEF Unregisters, TablesAreOwned
  <2> QED
    BY <2>1, <2>2
<1>4. ack' \in [Conns -> {"none", "registered", "error"}]
  BY DEF TypeOK
<1>5. UNCHANGED <<toServer, route, routed, client, web, drops>>
  OBVIOUS
<1>6. TypeOK'
  <2> HIDE DEF ServerEnds
  <2> QED
    BY <1>1, <1>2, <1>3, <1>4, <1>5 DEF TypeOK, web
<1>7. /\ registered' = registered \ {k} /\ TablesAreOwned'
      /\ \A i \in DOMAIN wild' : \E j \in DOMAIN wild : wild'[i] = wild[j] /\ i <= j
  BY <1>6, UnregisterTables
<1>8. \A j \in Conns : EndedIsGone(j)' /\ RegistersOnce(j)'
  BY <1>1, <1>7, FramesOf DEF ConnectionsOK, EndedIsGone, RegistersOnce
<1>9. ProcessesHaveConns'
  BY <1>5 DEF ConnectionsOK, ProcessesHaveConns, web
<1>10. RoutesAreSound'
  BY <1>5 DEF RoutesAreSound
<1>11. CopiesAreFew'
  <2>1. ASSUME NEW j \in Conns, NEW m \in 1..MaxRouted
        PROVE  copies'[j][m] \in {0, 1} /\ (copies'[j][m] # 0 => j \in registered' /\ m <= routed)
    BY <1>1, <1>7 DEF CopiesAreFew
  <2>2. ASSUME NEW j \in Conns, NEW s \in Sources, route[s].m # 0, copies'[j][route[s].m] # 0
        PROVE  Passed(j, s)'
    <3>1. route[s].m \in 1..MaxRouted
      BY <2>2, ConnTypes DEF Routings
    <3>2. Passed(j, s) /\ route[s].at \in Nat
      BY <1>1, <2>2, <3>1, ConnTypes DEF CopiesAreFew, Routings
    <3>3. DOMAIN wild \subseteq Nat /\ DOMAIN wild' \subseteq Nat
      BY <1>3, ConnTypes
    <3> QED
      BY <1>5, <1>7, <3>2, <3>3 DEF Passed
  <2> QED
    BY <1>5, <2>1, <2>2 DEF CopiesAreFew
<1> QED
  BY <1>6, <1>7, <1>8, <1>9, <1>10, <1>11 DEF ConnectionsOK

(* Routing: a new message is nobody's yet, the loop goes from a copy to the    *)
(* next, and what it passed has its copy, or is of the handler's process.      *)
LEMMA SendEffect ==
  ASSUME TypeOK, NEW k \in Conns, NEW m \in 1..MaxRouted, Send(k, m), copies[k][m] = 0
  PROVE  /\ copies' \in [Conns -> [1..MaxRouted -> {0, 1, 2}]] /\ copies'[k][m] \in {0, 1}
         /\ \A j \in Conns, n \in 1..MaxRouted : j # k \/ n # m => copies'[j][n] = copies[j][n]
<1> DEFINE n == IF link[k] = "open" THEN 1 ELSE 0
           row == [copies[k] EXCEPT ![m] = n]
<1>1. copies' = [copies EXCEPT ![k] = row]
  BY DEF Send
<1>2. row \in [1..MaxRouted -> {0, 1, 2}] /\ row[m] \in {0, 1}
      /\ \A i \in 1..MaxRouted : i # m => row[i] = copies[k][i]
  BY ConnTypes
<1> HIDE DEF row
<1> QED
  BY <1>1, <1>2, ConnTypes

LEMMA RouteSet ==
  ASSUME TypeOK, NEW s \in Sources, NEW u \in Routings, route' = [route EXCEPT ![s] = u]
  PROVE  /\ route' \in [Sources -> Routings] /\ route'[s] = u
         /\ \A t \in Sources : t # s => route'[t] = route[t]
BY ConnTypes

LEMMA BeginKeeps ==
  ASSUME ChannelIInv, NEW s \in Sources, NEW c \in AllChats, Begin(s, c), UNCHANGED <<link, server>>
  PROVE  /\ route' \in [Sources -> Routings] /\ routed' \in 0..MaxRouted
         /\ copies' \in [Conns -> [1..MaxRouted -> {0, 1, 2}]]
         /\ RoutesAreSound' /\ CopiesAreFew'
<1> USE DEF ChannelIInv
<1> DEFINE m == routed + 1
           k == Dedicated(c)
           u(by, pos) == [m |-> m, chat |-> c, at |-> pos, by |-> by]
<1>1. m \in 1..MaxRouted /\ routed' = m /\ routed \in Nat
  BY ChannelAssumption, ConnTypes DEF Begin
<1>2. \A j \in Conns : copies[j][m] = 0
  BY <1>1, ConnTypes DEF CopiesAreFew
<1>3. k # None => k \in Conns /\ k \in registered
  BY DEF Dedicated, TablesAreOwned, TypeOK
<1>4. Cardinality(Conns) \in Nat
  BY ChannelAssumption, FS_CardinalityType
<1> DEFINE Set(by, pos) ==
             /\ route' = [route EXCEPT ![s] = u(by, pos)] /\ (pos = 0 => by = None)
             /\ \/ by \in Conns /\ by \in registered /\ Send(by, m)
                \/ copies' = copies
<1>5. PICK by \in Conns \cup {None, Pool}, pos \in {0, 1} : Set(by, pos)
  <2> DEFINE pos == IF Acquires(c) THEN 0 ELSE 1
  <2>1. (k # None /\ Set(k, 1)) \/ Set(Pool, 1) \/ Set(None, pos)
    BY <1>3 DEF Begin
  <2>2. pos \in {0, 1}
    OBVIOUS
  <2> HIDE DEF Set, pos, k
  <2> QED
    BY <1>3, <2>1, <2>2
<1> HIDE DEF k
<1>6. u(by, pos) \in Routings
  BY <1>1, <1>4 DEF Routings
<1>7. /\ route' \in [Sources -> Routings] /\ route'[s] = u(by, pos)
      /\ \A t \in Sources : t # s => route'[t] = route[t]
  BY <1>5, <1>6, RouteSet
<1>8. /\ copies' \in [Conns -> [1..MaxRouted -> {0, 1, 2}]]
      /\ \A j \in Conns, n \in 1..MaxRouted : j # by \/ n # m => copies'[j][n] = copies[j][n]
      /\ \A j \in Conns : copies'[j][m] \in {0, 1}
      /\ \A j \in Conns : copies'[j][m] # 0 => j = by /\ j \in registered
  <2>1. CASE by \in Conns /\ by \in registered /\ Send(by, m)
    BY <1>1, <1>2, <2>1, SendEffect
  <2>2. CASE copies' = copies
    BY <1>2, <2>2, ConnTypes
  <2> QED
    BY <1>5, <2>1, <2>2
<1>9. u(by, pos).m = m /\ u(by, pos).at = pos /\ u(by, pos).by = by /\ u(by, pos).chat = c
  OBVIOUS
<1> HIDE DEF u
<1>10. ASSUME NEW t \in Sources, t # s
       PROVE  route'[t] = route[t] /\ route[t].m \in 0..MaxRouted /\ route[t].m <= routed /\ route[t].m # m
  BY <1>1, <1>7, <1>10, ConnTypes DEF RoutesAreSound, Routings
<1>11. RoutesAreSound'
  <2>1. ASSUME NEW t \in Sources
        PROVE  /\ route'[t].m <= routed' /\ (route'[t].at = 0 => route'[t].by = None)
               /\ (route'[t].m = 0 => route'[t].at = 0)
               /\ (route'[t].m # 0 => route'[t].chat \in AllChats)
    <3>1. CASE t = s
      BY <1>1, <1>5, <1>7, <1>9, <3>1
    <3>2. CASE t # s
      BY <1>1, <1>10, <3>2 DEF RoutesAreSound
    <3> QED
      BY <3>1, <3>2
  <2>2. ASSUME NEW t \in Sources, NEW r \in Sources, route'[t].m = route'[r].m /\ route'[t].m # 0
        PROVE  t = r
    BY <1>7, <1>9, <1>10, <2>2 DEF RoutesAreSound
  <2> QED
    BY <2>1, <2>2 DEF RoutesAreSound
<1>12. CopiesAreFew'
  <2>1. UNCHANGED <<registered, wild>>
    BY DEF server
  <2>2. ASSUME NEW j \in Conns, NEW n \in 1..MaxRouted
        PROVE  copies'[j][n] \in {0, 1} /\ (copies'[j][n] # 0 => j \in registered /\ n <= routed')
    <3>1. CASE n = m
      BY <1>1, <1>8, <3>1
    <3>2. CASE n # m
      BY <1>1, <1>8, <3>2 DEF CopiesAreFew
    <3> QED
      BY <3>1, <3>2
  <2>3. ASSUME NEW j \in Conns, NEW t \in Sources, route'[t].m # 0, copies'[j][route'[t].m] # 0
        PROVE  Passed(j, t)'
    <3>1. CASE t = s
      BY <1>7, <1>8, <1>9, <2>3, <3>1 DEF Passed, SameInstance
    <3>2. CASE t # s
      <4>1. route'[t] = route[t] /\ route[t].m \in 1..MaxRouted /\ route[t].m # m
        BY <1>10, <2>3, <3>2
      <4>2. copies[j][route[t].m] # 0
        BY <1>8, <2>3, <4>1
      <4> QED
        BY <2>1, <4>1, <4>2 DEF CopiesAreFew, Passed
    <3> QED
      BY <3>1, <3>2
  <2> QED
    BY <2>1, <2>2, <2>3 DEF CopiesAreFew
<1> QED
  BY <1>1, <1>7, <1>8, <1>11, <1>12

(* A step that leaves the tables alone, and the routes in order.               *)
LEMMA RoutingKeeps ==
  ASSUME ChannelIInv, UNCHANGED <<link, ack, registered, exact, prefix, wild, client, web, drops>>,
         pooled' \subseteq AllChats, toServer' \in [Conns -> Seq(Frames)],
         \A j \in Conns : EndedIsGone(j)' /\ RegistersOnce(j)',
         route' \in [Sources -> Routings], routed' \in 0..MaxRouted,
         copies' \in [Conns -> [1..MaxRouted -> {0, 1, 2}]], RoutesAreSound', CopiesAreFew'
  PROVE  ChannelIInv'
<1> USE DEF ChannelIInv
<1>1. TypeOK'
  BY DEF TypeOK, web, Frames, Routings
<1>2. TablesAreOwned'
  BY DEF TablesAreOwned
<1>3. ProcessesHaveConns'
  BY DEF ConnectionsOK, ProcessesHaveConns, web
<1> QED
  BY <1>1, <1>2, <1>3 DEF ConnectionsOK

LEMMA MessageKeeps ==
  ASSUME ChannelIInv, (\E c \in FeishuChats : FeishuMessage(c)) \/ \E k \in Conns : HandleInbound(k)
  PROVE  ChannelIInv'
<1> USE DEF ChannelIInv
<1>1. ASSUME NEW c \in FeishuChats, FeishuMessage(c) PROVE ChannelIInv'
  <2>1. Feishu \in Sources /\ c \in AllChats
    BY DEF Sources, AllChats
  <2>2. UNCHANGED <<link, toServer, ack, server, client, web, drops>> /\ Begin(Feishu, c)
    BY <1>1 DEF FeishuMessage
  <2>3. pooled' \subseteq AllChats /\ toServer' \in [Conns -> Seq(Frames)]
    BY <2>2, ConnTypes DEF TypeOK, server
  <2> QED
    BY <2>1, <2>2, <2>3, BeginKeeps, NothingSent, RoutingKeeps DEF server
<1>2. ASSUME NEW k \in Conns, HandleInbound(k) PROVE ChannelIInv'
  <2>1. k \in Sources /\ Frame(k) \in AllChats
    BY <1>2 DEF Sources, AllChats, HandleInbound
  <2>2. UNCHANGED <<link, ack, server, client, web, drops>> /\ Begin(k, Frame(k)) /\ Reads(k)
    BY <1>2 DEF HandleInbound
  <2>3. pooled' \subseteq AllChats
    BY <2>2 DEF TypeOK, server
  <2>4. toServer' \in [Conns -> Seq(Frames)] /\ \A j \in Conns : EndedIsGone(j)' /\ RegistersOnce(j)'
    BY <2>2, ReadsLeaves DEF server
  <2> QED
    BY <2>1, <2>2, <2>3, <2>4, BeginKeeps, RoutingKeeps DEF server
<1> QED
  BY <1>1, <1>2

LEMMA RouteMoves ==
  ASSUME ChannelIInv, NEW s \in Sources, NEW u \in Routings, route' = [route EXCEPT ![s] = u],
         routed' = routed, u.m = 0 \/ (u.m = route[s].m /\ u.chat = route[s].chat),
         u.at = 0 => u.by = None, u.m = 0 => u.at = 0
  PROVE  RoutesAreSound'
<1>1. route'[s] = u /\ \A t \in Sources : t # s => route'[t] = route[t]
  BY RouteSet DEF ChannelIInv
<1>2. routed \in Nat
  BY ConnTypes, ChannelAssumption DEF ChannelIInv
<1> QED
  BY <1>1, <1>2 DEF ChannelIInv, RoutesAreSound

LEMMA GoesOn ==
  ASSUME NEW r \in Routings, NEW n \in 0..(Cardinality(Conns) + 1), NEW u, u = [r EXCEPT !.at = n]
  PROVE  u \in Routings /\ u.m = r.m /\ u.chat = r.chat /\ u.at = n /\ u.by = r.by
<1> DEFINE N == 0..(Cardinality(Conns) + 1)
<1>1. Routings = [m : 0..MaxRouted, chat : AllChats \cup {None}, at : N, by : Conns \cup {None, Pool}]
  BY DEF Routings
<1> HIDE DEF N
<1> QED
  BY <1>1 DEF N

LEMMA GoesToPool ==
  ASSUME NEW r \in Routings, NEW u, u = [r EXCEPT !.by = Pool]
  PROVE  u \in Routings /\ u.m = r.m /\ u.chat = r.chat
<1> DEFINE N == 0..(Cardinality(Conns) + 1)
<1>1. Routings = [m : 0..MaxRouted, chat : AllChats \cup {None}, at : N, by : Conns \cup {None, Pool}]
  BY DEF Routings
<1> HIDE DEF N
<1> QED
  BY <1>1

LEMMA AcquiredKeeps == ASSUME ChannelIInv, NEW s \in Sources, Acquired(s) PROVE ChannelIInv'
<1> USE DEF ChannelIInv
<1>1. /\ route[s] \in Routings /\ route[s].m # 0 /\ route[s].at = 0 /\ route[s].by = None
      /\ route[s].chat \in AllChats
  BY ConnTypes DEF Acquired, RoutesAreSound
<1>2. UNCHANGED <<link, toServer, ack, registered, exact, prefix, wild, routed, copies, client, web, drops>>
  BY DEF Acquired
<1>3. Cardinality(Conns) \in Nat
  BY ChannelAssumption, FS_CardinalityType
<1> DEFINE p == [route[s] EXCEPT !.by = Pool]
           a == [p EXCEPT !.at = 1]
           b == [route[s] EXCEPT !.at = 1]
<1>4. PICK u \in {a, b} : route' = [route EXCEPT ![s] = u]
  BY DEF Acquired
<1>5. u \in Routings /\ u.m = route[s].m /\ u.chat = route[s].chat /\ u.at = 1
  <2>1. 1 \in 0..(Cardinality(Conns) + 1)
    BY <1>3
  <2>2. /\ a \in Routings /\ a.m = route[s].m /\ a.chat = route[s].chat /\ a.at = 1
        /\ b \in Routings /\ b.m = route[s].m /\ b.chat = route[s].chat /\ b.at = 1
    <3>1. route[s] \in Routings
      BY <1>1
    <3>2. p = [route[s] EXCEPT !.by = Pool]
      OBVIOUS
    <3>3. a = [p EXCEPT !.at = 1]
      OBVIOUS
    <3>4. b = [route[s] EXCEPT !.at = 1]
      OBVIOUS
    <3> HIDE DEF p, a, b
    <3>5. p \in Routings /\ p.m = route[s].m /\ p.chat = route[s].chat
      BY ONLY <3>1, <3>2, GoesToPool
    <3>6. a \in Routings /\ a.m = p.m /\ a.chat = p.chat /\ a.at = 1
      BY ONLY <2>1, <3>3, <3>5, GoesOn
    <3>7. b \in Routings /\ b.m = route[s].m /\ b.chat = route[s].chat /\ b.at = 1
      BY ONLY <2>1, <3>1, <3>4, GoesOn
    <3> QED
      BY <3>5, <3>6, <3>7
  <2> HIDE DEF p, a, b
  <2> QED
    BY <1>4, <2>2
<1>6. pooled' \subseteq AllChats
  <2>1. pooled \subseteq AllChats
    BY DEF TypeOK
  <2>2. pooled' = pooled \/ (pooled' = pooled \cup {route[s].chat} /\ route[s].chat \in AllChats)
    BY <1>1 DEF Acquired
  <2> QED
    BY <2>1, <2>2
<1> HIDE DEF p, a, b
<1>7. /\ route' \in [Sources -> Routings] /\ route'[s] = u
      /\ \A t \in Sources : t # s => route'[t] = route[t]
  BY <1>4, <1>5, RouteSet
<1>8. RoutesAreSound'
  <2>1. /\ (u.at = 0 => u.by = None) /\ (u.m = 0 => u.at = 0)
        /\ u.m = 0 \/ (u.m = route[s].m /\ u.chat = route[s].chat)
    BY <1>1, <1>5
  <2> HIDE DEF ChannelIInv
  <2> QED
    BY <1>2, <1>4, <1>5, <2>1, RouteMoves
<1>9. CopiesAreFew'
  <2>1. ASSUME NEW j \in Conns, NEW t \in Sources, route'[t].m # 0, copies[j][route'[t].m] # 0
        PROVE  Passed(j, t)'
    <3>1. route'[t].m = route[t].m
      BY <1>5, <1>7
    <3>2. Passed(j, t)
      BY <2>1, <3>1 DEF CopiesAreFew
    <3>3. CASE t = s
      <4>1. ~ SameInstance(j, None)
        BY ChannelAssumption DEF SameInstance
      <4>2. \A i \in DOMAIN wild : wild[i] = j => i < 0
        BY <1>1, <3>2, <3>3, <4>1 DEF Passed
      <4>3. \A i \in DOMAIN wild : ~ (i < 0)
        BY ConnTypes
      <4> QED
        BY <1>2, <4>2, <4>3 DEF Passed
    <3>4. CASE t # s
      BY <1>2, <1>7, <3>2, <3>4 DEF Passed
    <3> QED
      BY <3>3, <3>4
  <2> QED
    BY <1>2, <2>1 DEF CopiesAreFew
<1>10. toServer' \in [Conns -> Seq(Frames)] /\ \A j \in Conns : EndedIsGone(j)' /\ RegistersOnce(j)'
  BY <1>2, ConnTypes, NothingSent
<1>11. routed' \in 0..MaxRouted /\ copies' \in [Conns -> [1..MaxRouted -> {0, 1, 2}]]
  BY <1>2, ConnTypes
<1> QED
  BY <1>2, <1>6, <1>7, <1>8, <1>9, <1>10, <1>11, RoutingKeeps

LEMMA ObserveKeeps == ASSUME ChannelIInv, NEW s \in Sources, Observe(s) PROVE ChannelIInv'
<1> USE DEF ChannelIInv
<1> DEFINE m == route[s].m
           pos == route[s].at
           by == route[s].by
           k == wild[pos]
           u == [route[s] EXCEPT !.at = pos + 1]
<1>1. UNCHANGED <<link, toServer, ack, server, routed, client, web, drops>>
  BY DEF Observe
<1>2. /\ route[s] \in Routings /\ wild \in Seq(Conns)
      /\ pos \in 1..Len(wild) /\ route' = [route EXCEPT ![s] = u]
  BY ConnTypes DEF Observe
<1>3. pos \in DOMAIN wild /\ k \in Conns /\ k \in registered
  BY <1>2 DEF TablesAreOwned
<1>4. m \in 1..MaxRouted /\ m <= routed
  BY <1>2 DEF RoutesAreSound, Routings
<1>5. Len(wild) <= Cardinality(Conns) /\ Cardinality(Conns) \in Nat
  BY <1>2, ChannelAssumption, ListLength DEF TablesAreOwned
<1>6. u \in Routings /\ u.m = m /\ u.chat = route[s].chat /\ u.at = pos + 1 /\ u.by = by
  <2>1. Len(wild) \in Nat /\ pos \in 1..Len(wild)
    BY <1>2
  <2>2. pos + 1 \in 0..(Cardinality(Conns) + 1)
    BY ONLY <1>5, <2>1
  <2>3. route[s] \in Routings
    BY <1>2
  <2> QED
    <3>1. u = [route[s] EXCEPT !.at = pos + 1]
      OBVIOUS
    <3> HIDE DEF u
    <3> QED
      BY <2>2, <2>3, <3>1, GoesOn
<1>7. SameInstance(k, by) => copies' = copies
  BY DEF Observe
<1>8. ~ SameInstance(k, by) => Send(k, m) /\ copies[k][m] = 0
  BY <1>2, <1>3, <1>4 DEF Observe, CopiesAreFew, Passed
<1>9. /\ copies' \in [Conns -> [1..MaxRouted -> {0, 1, 2}]]
      /\ \A j \in Conns, n \in 1..MaxRouted : j # k \/ n # m => copies'[j][n] = copies[j][n]
      /\ copies'[k][m] \in {0, 1}
  <2>1. CASE SameInstance(k, by)
    BY <1>3, <1>4, <1>7, <2>1, ConnTypes DEF CopiesAreFew
  <2>2. CASE ~ SameInstance(k, by)
    BY <1>3, <1>4, <1>8, <2>2, SendEffect
  <2> QED
    BY <2>1, <2>2
<1>10. pos \in Nat /\ DOMAIN wild \subseteq Nat /\ \A i, j \in DOMAIN wild : wild[i] = wild[j] => i = j
  BY <1>2 DEF TablesAreOwned
<1>11. RoutesAreSound'
  <2>1. /\ (u.at = 0 => u.by = None) /\ (u.m = 0 => u.at = 0)
        /\ u.m = 0 \/ (u.m = route[s].m /\ u.chat = route[s].chat)
    BY <1>2, <1>4, <1>6, <1>10
  <2> HIDE DEF ChannelIInv, u
  <2> QED
    BY <1>1, <1>2, <1>6, <2>1, RouteMoves
<1>12. /\ route' \in [Sources -> Routings] /\ route'[s] = u
       /\ \A t \in Sources : t # s => route'[t] = route[t]
  BY <1>2, <1>6, RouteSet
<1> HIDE DEF u
<1>13. CopiesAreFew'
  <2>1. UNCHANGED <<registered, wild>>
    BY <1>1 DEF server
  <2>2. ASSUME NEW j \in Conns, NEW n \in 1..MaxRouted
        PROVE  copies'[j][n] \in {0, 1} /\ (copies'[j][n] # 0 => j \in registered /\ n <= routed)
    <3>1. CASE j = k /\ n = m
      BY <1>3, <1>4, <1>9, <3>1
    <3>2. CASE ~ (j = k /\ n = m)
      BY <1>9, <3>2 DEF CopiesAreFew
    <3> QED
      BY <3>1, <3>2
  <2>3. ASSUME NEW j \in Conns, NEW t \in Sources, route'[t].m # 0, copies'[j][route'[t].m] # 0
        PROVE  Passed(j, t)'
    <3>1. CASE t # s
      <4>1. route'[t] = route[t] /\ route[t].m \in 1..MaxRouted /\ route[t].m # m
        BY <1>4, <1>12, <2>3, <3>1, ConnTypes DEF RoutesAreSound, Routings
      <4>2. copies[j][route[t].m] # 0
        BY <1>9, <2>3, <4>1
      <4> QED
        BY <2>1, <4>1, <4>2 DEF CopiesAreFew, Passed
    <3>2. CASE t = s /\ j = k
      BY <1>3, <1>6, <1>10, <1>12, <2>1, <3>2 DEF Passed
    <3>3. CASE t = s /\ j # k
      <4>1. copies[j][m] # 0
        BY <1>4, <1>6, <1>9, <1>12, <2>3, <3>3
      <4>2. Passed(j, s)
        BY <1>4, <4>1 DEF CopiesAreFew
      <4> QED
        BY <1>6, <1>10, <1>12, <2>1, <3>3, <4>2 DEF Passed
    <3> QED
      BY <3>1, <3>2, <3>3
  <2> QED
    BY <1>1, <2>1, <2>2, <2>3 DEF CopiesAreFew
<1>14. toServer' \in [Conns -> Seq(Frames)] /\ \A j \in Conns : EndedIsGone(j)' /\ RegistersOnce(j)'
  BY <1>1, ConnTypes, NothingSent DEF server
<1>15. routed' \in 0..MaxRouted /\ pooled' \subseteq AllChats
  BY <1>1, ConnTypes DEF server, TypeOK
<1> QED
  BY <1>1, <1>9, <1>11, <1>12, <1>13, <1>14, <1>15, RoutingKeeps DEF server

LEMMA RouteEndsKeeps == ASSUME ChannelIInv, NEW s \in Sources, RouteEnds(s) PROVE ChannelIInv'
<1> USE DEF ChannelIInv
<1>1. /\ UNCHANGED <<link, toServer, ack, server, routed, copies, client, web, drops>>
      /\ route' = [route EXCEPT ![s] = Idle]
  BY DEF RouteEnds
<1>2. Idle \in Routings /\ Idle.m = 0 /\ Idle.at = 0 /\ Idle.by = None
  BY ChannelAssumption, FS_CardinalityType DEF Idle, Routings
<1>3. /\ route' \in [Sources -> Routings] /\ route'[s].m = 0
      /\ \A t \in Sources : t # s => route'[t] = route[t]
  BY <1>1, <1>2, RouteSet
<1>4. RoutesAreSound'
  BY <1>1, <1>2, RouteMoves
<1>5. CopiesAreFew'
  BY <1>1, <1>3 DEF server, CopiesAreFew, Passed
<1>6. toServer' \in [Conns -> Seq(Frames)] /\ \A j \in Conns : EndedIsGone(j)' /\ RegistersOnce(j)'
  BY <1>1, ConnTypes, NothingSent DEF server
<1>7. /\ routed' \in 0..MaxRouted /\ pooled' \subseteq AllChats
      /\ copies' \in [Conns -> [1..MaxRouted -> {0, 1, 2}]]
  BY <1>1, ConnTypes DEF server, TypeOK
<1> QED
  BY <1>1, <1>3, <1>4, <1>5, <1>6, <1>7, RoutingKeeps DEF server

LEMMA ChannelInitKeeps == Init => ChannelIInv
<1> SUFFICES ASSUME Init PROVE ChannelIInv
  OBVIOUS
<1> USE DEF Init
<1>1. Idle \in Routings /\ Idle.m = 0 /\ Idle.at = 0 /\ Idle.by = None
  BY ChannelAssumption, FS_CardinalityType DEF Idle, Routings
<1>2. \A s \in Sources : route[s] = Idle
  BY DEF Sources
<1>3. TypeOK
  <2>1. route \in [Sources -> Routings]
    BY <1>1 DEF Sources
  <2>2. MaxRouted \in Nat /\ MaxDrops \in Nat
    BY ChannelAssumption
  <2>3. /\ link \in [Conns -> {"open", "lost", "ended"}]
        /\ toServer \in [Conns -> Seq({"register"} \cup WebChats)]
        /\ ack \in [Conns -> {"none", "registered", "error"}]
        /\ exact \in [AllChats -> Conns \cup {None}]
        /\ copies \in [Conns -> [1..MaxRouted -> {0, 1, 2}]]
        /\ client \in [Clients -> [phase : {"down", "registering", "up"}, conn : Conns \cup {None}]]
        /\ tab \in [Tabs -> [phase : {"closed", "connecting", "registering", "served"},
                             conn : Conns \cup {None}]]
    OBVIOUS
  <2>4. wild \in Seq(Conns) /\ pooled \subseteq AllChats /\ registered \subseteq Conns
        /\ prefix \in Conns \cup {None} /\ loops \subseteq Conns /\ shown \subseteq Tabs
        /\ bridge \in [ws : Conns \cup {None}, connected : BOOLEAN]
    OBVIOUS
  <2> QED
    BY <2>1, <2>2, <2>3, <2>4 DEF TypeOK, Routings
<1>4. ConnectionsOK
  BY FramesOf DEF ConnectionsOK, EndedIsGone, RegistersOnce, ProcessesHaveConns
<1>5. TablesAreOwned
  BY DEF TablesAreOwned
<1>6. RoutesAreSound /\ CopiesAreFew
  BY <1>1, <1>2 DEF RoutesAreSound, CopiesAreFew
<1> QED
  BY <1>3, <1>4, <1>5, <1>6 DEF ChannelIInv

LEMMA ChannelStepKeeps == ChannelIInv /\ [Next]_vars => ChannelIInv'
<1> SUFFICES ASSUME ChannelIInv, [Next]_vars PROVE ChannelIInv'
  OBVIOUS
<1>1. ASSUME NEW p \in Clients,
             ClientConnects(p) \/ ClientRegistered(p) \/ ClientRefused(p) \/ ClientLoses(p) \/ ClientReplies(p)
      PROVE  ChannelIInv'
  BY <1>1, ClientConnectsKeeps, ClientStepsKeep, ClientRepliesKeeps
<1>2. ASSUME NEW k \in Conns, Drops(k) \/ HandleRegister(k) \/ ServerEnds(k) PROVE ChannelIInv'
  BY <1>2, DropsKeeps, HandleRegisterKeeps, ServerEndsKeeps
<1>3. ASSUME NEW k \in Conns, HandleInbound(k) \/ HandleReply(k) \/ LoopEnds(k) PROVE ChannelIInv'
  BY <1>3, MessageKeeps, HandleReplyKeeps, LoopEndsKeeps
<1>4. CASE \E c \in FeishuChats : FeishuMessage(c)
  BY <1>4, MessageKeeps
<1>5. ASSUME NEW s \in Sources, Acquired(s) \/ Observe(s) \/ RouteEnds(s) PROVE ChannelIInv'
  BY <1>5, AcquiredKeeps, ObserveKeeps, RouteEndsKeeps
<1>6. ASSUME NEW t \in Tabs,
             TabOpens(t) \/ TabConnects(t) \/ TabRegistered(t) \/ TabFails(t) \/ TabSends(t) \/ TabCloses(t)
      PROVE  ChannelIInv'
  BY <1>6, TabStepsKeep, TabConnectsKeeps, TabSendsKeeps
<1>7. CASE UNCHANGED vars
  <2>1. /\ UNCHANGED <<link, ack, registered, exact, prefix, wild, client, web, drops>>
        /\ UNCHANGED <<toServer, server, pooled, route, routed, copies>>
    BY <1>7 DEF vars, server
  <2>2. /\ pooled' \subseteq AllChats /\ toServer' \in [Conns -> Seq(Frames)]
        /\ route' \in [Sources -> Routings] /\ routed' \in 0..MaxRouted
        /\ copies' \in [Conns -> [1..MaxRouted -> {0, 1, 2}]]
    BY <2>1, ConnTypes DEF ChannelIInv, TypeOK
  <2> QED
    BY <2>1, <2>2, NothingSent, TablesSame, RoutingKeeps
<1> QED
  BY <1>1, <1>2, <1>3, <1>4, <1>5, <1>6, <1>7 DEF Next

LEMMA ChannelHolds == Spec => []ChannelIInv
BY ChannelInitKeeps, ChannelStepKeeps, PTL DEF Spec

(* The tables and the registrations tell the same story, for any processes,    *)
(* chats and observers, in any order of registrations, losses and ends of      *)
(* connections (_handle_register, _unregister).                                *)
THEOREM RoutesHaveOwners == Spec => []RoutesAreOwned
<1>1. ChannelIInv => RoutesAreOwned
  <2> SUFFICES ASSUME ChannelIInv PROVE RoutesAreOwned
    OBVIOUS
  <2> USE DEF ChannelIInv
  <2>1. wild \in Seq(Conns) /\ registered \subseteq Conns
    BY ConnTypes
  <2>2. Cardinality(ToSet(wild)) = Len(wild)
    BY <2>1, ChannelAssumption, ListLength DEF TablesAreOwned
  <2>3. ToSet(wild) = {k \in registered : Owner[k] \in Observers}
    BY <2>1 DEF TablesAreOwned, ToSet
  <2>4. \A k \in registered : link[k] # "ended"
    BY <2>1 DEF ConnectionsOK, EndedIsGone
  <2> QED
    BY <2>2, <2>3, <2>4 DEF RoutesAreOwned, TablesAreOwned
<1> QED
  BY <1>1, ChannelHolds, PTL

(* Nobody is sent two copies of a message, for any number of observers that    *)
(* come and go while the loop over the live list waits (route_message).        *)
THEOREM NobodyGetsTwoCopies == Spec => []CopiedOnce
<1>1. ChannelIInv => CopiedOnce
  BY DEF ChannelIInv, CopiesAreFew, CopiedOnce
<1> QED
  BY <1>1, ChannelHolds, PTL
=============================================================================
