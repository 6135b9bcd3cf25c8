------------------------------- MODULE Replies -------------------------------
(* How a customer's message finds its reply: the intent its keywords suggest  *)
(* and the agent and model it goes to (model_router.py), the weighted signals *)
(* of triage (triage.py), the placeholder that a slow model's answer replaces *)
(* (placeholder_stream.py) and the mood the answer is tagged with             *)
(* (sentiment.py).  Confidences are in hundredths, so that the weighted sums  *)
(* are exact; weights are in hundredths too and add up to one.                *)
EXTENDS Integers, Sequences

CONSTANTS
  Questions,    \* the customer messages being answered
  MessageOf     \* what classification sees of each of them

VARIABLES
  phase,   \* question -> "new", "waiting" for a model, "answered" or "failed"
  place,   \* question -> where its placeholder is, 0 if it has none
  shown    \* the replies of the conversation, in order

replies_vars == <<phase, place, shown>>

-----------------------------------------------------------------------------
(* Classification by keywords                                                *)

(* The intents that have keywords, in the order of classify_intent.yaml.      *)
Keyworded == <<"product_inquiry", "complaint", "purchase_intent">>

Languages == {"unknown", "zh", "en", "other"}

Messages == [hits : [1 .. 3 -> Nat],      \* how many keywords of each intent it has
             language : Languages,        \* what was detected
             length : Nat,
             urgent : Nat]                \* how many urgency markers it has

AtMost(n, bound) == IF n < bound THEN n ELSE bound

RouteTo   == [product_inquiry |-> "customer", complaint |-> "customer", purchase_intent |-> "lead",
              language_barrier |-> "translate", general_question |-> "customer"]
ModelTier == [product_inquiry |-> "slow", complaint |-> "slow", purchase_intent |-> "slow",
              language_barrier |-> "fast", general_question |-> "fast"]
Priority  == [product_inquiry |-> "normal", complaint |-> "high", purchase_intent |-> "high",
              language_barrier |-> "high", general_question |-> "normal"]

Score(m, i) == IF m.hits[i] = 0 THEN 0 ELSE AtMost(50 + 15 * m.hits[i], 95)

(* The first intent of the highest score.                                     *)
Best(m, i) == /\ \A j \in 1 .. 3 : Score(m, j) <= Score(m, i)
              /\ \A j \in 1 .. 3 : j < i => Score(m, j) < Score(m, i)

Foreign(m)   == m.language = "other"
NoKeyword(m) == \A i \in 1 .. 3 : m.hits[i] = 0

Classify(m) ==
  IF Foreign(m) THEN [intent |-> "language_barrier", confidence |-> 90]
  ELSE IF NoKeyword(m) THEN [intent |-> "general_question", confidence |-> 40]
  ELSE LET best == CHOOSE i \in 1 .. 3 : Best(m, i) IN
       [intent |-> Keyworded[best], confidence |-> Score(m, best)]

-----------------------------------------------------------------------------
(* The router                                                                *)

Low    == 30
Medium == 60

MessageRoute(m) ==
  LET result == Classify(m) IN
  IF result.confidence < Low
  THEN [role |-> "customer", tier |-> "slow", priority |-> "high", notice |-> TRUE]
  ELSE [role |-> RouteTo[result.intent], tier |-> ModelTier[result.intent],
        priority |-> Priority[result.intent], notice |-> result.confidence < Medium]

UsesPlaceholder(m) == MessageRoute(m).tier = "slow"

-----------------------------------------------------------------------------
(* Triage                                                                    *)

(* What was said before: how much, and whether a complaint is among the last. *)
Histories == {h \in [length : Nat, complaint : BOOLEAN] : h.complaint => h.length > 0}

LengthConfidence(m) ==
  CASE m.length < 5 -> 20
    [] m.length >= 5 /\ m.length < 20 -> 50
    [] m.length >= 20 /\ m.length < 100 -> 80
    [] m.length >= 100 -> 90

LanguageConfidence(m) ==
  CASE Foreign(m) -> 95
    [] m.language = "unknown" -> 50
    [] m.language \in {"zh", "en"} -> 70

UrgencyConfidence(m) == IF m.urgent > 0 THEN AtMost(50 + 20 * m.urgent, 95) ELSE 50

HistoryConfidence(h) == IF h.complaint THEN 80 ELSE IF h.length > 5 THEN 70 ELSE 50

LanguageIntent(m) == IF Foreign(m) THEN "language_barrier" ELSE Classify(m).intent
UrgencyIntent(m)  == IF m.urgent > 0 THEN "complaint" ELSE Classify(m).intent

(* Every signal votes for its intent with its weight times its confidence.    *)
Votes(intent, signal, weight, confidence) == IF signal = intent THEN weight * confidence ELSE 0

Vote(m, h, intent) ==
  Votes(intent, Classify(m).intent, 35, Classify(m).confidence)
  + Votes(intent, Classify(m).intent, 10, LengthConfidence(m))
  + Votes(intent, LanguageIntent(m), 15, LanguageConfidence(m))
  + Votes(intent, UrgencyIntent(m), 20, UrgencyConfidence(m))
  + Votes(intent, Classify(m).intent, 10, HistoryConfidence(h))

Voted(m) == {Classify(m).intent, LanguageIntent(m), UrgencyIntent(m)}

(* The intent voted for most; of equals the one the keywords suggest.         *)
Wins(m, h, intent) ==
  /\ intent \in Voted(m)
  /\ \A other \in Voted(m) : Vote(m, h, other) <= Vote(m, h, intent)
  /\ Vote(m, h, Classify(m).intent) = Vote(m, h, intent) => intent = Classify(m).intent

Winner(m, h) == CHOOSE intent \in Voted(m) : Wins(m, h, intent)

(* The second intent has more than half of the first one's votes.             *)
MultiIntent(m, h) ==
  \E other \in Voted(m) \ {Winner(m, h)} : 2 * Vote(m, h, other) > Vote(m, h, Winner(m, h))

(* The sum of all votes and of the last signal.                               *)
TriageConfidence(m, h) ==
  35 * Classify(m).confidence + 10 * LengthConfidence(m) + 15 * LanguageConfidence(m)
  + 20 * UrgencyConfidence(m) + 10 * HistoryConfidence(h) + 10 * (IF MultiIntent(m, h) THEN 30 ELSE 80)

(* A strong urgency signal overrides a strong language signal, and both       *)
(* override the votes.                                                        *)
FinalIntent(m, h) ==
  IF m.urgent >= 2 /\ UrgencyConfidence(m) > 70 THEN "complaint"
  ELSE IF LanguageIntent(m) = "language_barrier" /\ LanguageConfidence(m) > 90 THEN "language_barrier"
  ELSE Winner(m, h)

Triage(m, h) ==
  LET intent == FinalIntent(m, h) IN
  [intent |-> intent, role |-> RouteTo[intent], tier |-> ModelTier[intent],
   priority |-> IF m.urgent > 0 \/ intent = "complaint" THEN "high" ELSE Priority[intent],
   fallback |-> TriageConfidence(m, h) < 5000]

-----------------------------------------------------------------------------
(* Mood                                                                      *)

Moods == {"positive", "neutral", "negative", "angry"}

Severity == [positive |-> 0, neutral |-> 1, negative |-> 2, angry |-> 3]

(* "none": no message before.                                                 *)
DetectDeterioration(mood, previous) ==
  IF previous = "none" THEN mood = "angry" ELSE Severity[mood] > Severity[previous]

(* What a reply reports: an answer without a tag has no mood.                 *)
Deteriorated(mood, previous) ==
  mood /= "none" /\ previous /= "none" /\ DetectDeterioration(mood, previous)

-----------------------------------------------------------------------------
(* The replies of a conversation.  A flow awaits its model, and other flows   *)
(* of the same conversation run meanwhile.                                    *)

Slow(q) == UsesPlaceholder(MessageOf[q])

Shows(text, q) == shown' = Append(shown, [to |-> q, text |-> text])

(* A slow answer is announced by a placeholder, whose place the flow keeps.   *)
HandleCustomerMessage(q) ==
  /\ phase[q] = "new"
  /\ phase' = [phase EXCEPT ![q] = "waiting"]
  /\ IF Slow(q)
     THEN Shows("placeholder", q) /\ place' = [place EXCEPT ![q] = Len(shown) + 1]
     ELSE UNCHANGED <<place, shown>>

(* The model has answered: the answer is sent, or replaces the placeholder.   *)
Answers(q) ==
  /\ phase[q] = "waiting"
  /\ phase' = [phase EXCEPT ![q] = "answered"]
  /\ IF Slow(q) THEN shown' = [shown EXCEPT ![place[q]].text = "answer"] ELSE Shows("answer", q)
  /\ UNCHANGED place

(* The model, or the engine, has raised: nobody takes the placeholder away.   *)
Fails(q) ==
  /\ phase[q] = "waiting"
  /\ phase' = [phase EXCEPT ![q] = "failed"]
  /\ UNCHANGED <<place, shown>>

RepliesInit ==
  /\ phase = [q \in Questions |-> "new"]
  /\ place = [q \in Questions |-> 0]
  /\ shown = <<>>

RepliesNext == \E q \in Questions : HandleCustomerMessage(q) \/ Answers(q) \/ Fails(q)

RepliesSpec == RepliesInit /\ [][RepliesNext]_replies_vars

-----------------------------------------------------------------------------
(* Properties                                                                *)

RepliesTypeOK ==
  /\ phase \in [Questions -> {"new", "waiting", "answered", "failed"}]
  /\ place \in [Questions -> Nat]
  /\ shown \in Seq([to : Questions, text : {"placeholder", "answer"}])

(* No question has two replies; an answered one shows its answer, and one     *)
(* that waits for a slow model, or lost it, its placeholder.                  *)
RepliesMatch ==
  /\ \A i, j \in DOMAIN shown : shown[i].to = shown[j].to => i = j
  /\ \A q \in Questions :
       /\ phase[q] = "answered" <=> \E i \in DOMAIN shown : shown[i] = [to |-> q, text |-> "answer"]
       /\ Slow(q) /\ phase[q] \in {"waiting", "failed"}
            <=> \E i \in DOMAIN shown : shown[i] = [to |-> q, text |-> "placeholder"]

(* Answers arrive in any order, but no answer is ever replaced, and a         *)
(* placeholder only by the answer to its own question.                        *)
AnswersStand ==
  [][\A i \in DOMAIN shown :
       /\ i \in DOMAIN shown' /\ shown'[i].to = shown[i].to
       /\ shown[i].text = "answer" => shown'[i] = shown[i]]_replies_vars
=============================================================================
