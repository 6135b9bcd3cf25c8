---------------------------- MODULE DecisionProofs ----------------------------
(* Machine-checked theorems about the parts of the system that decide: the     *)
(* rule dialogues (Rules), permissions and compliance (Policies), the routing  *)
(* of questions (QueryRouter), classification and replies (Replies), what is   *)
(* measured and billed (Monitoring), and what is known (KnowledgeBase).        *)
EXTENDS Rules, Policies, QueryRouter, Replies, Monitoring, KnowledgeBase,
        WellFoundedInduction, SequenceTheorems, FiniteSetTheorems, TLAPS

-----------------------------------------------------------------------------
(* Proofs about Rules: the dialogues keep their shape, what they ask to be     *)
(* confirmed is complete, and a file changes by one confirmed step at a time.  *)

(* Where a dialogue is in its questions tells what it already knows.           *)
DialogueOK(d) ==
  /\ d.state = "awaiting_category" /\ d.mode = "edit" => d.id \in Ids
  /\ d.state = "awaiting_parameter" => d.category \in Categories
  /\ d.state = "awaiting_parameter" /\ d.mode = "edit" => d.id \in Ids
  /\ d.state = "awaiting_value" => /\ d.mode = "edit" /\ d.id \in Ids /\ d.category \in Categories
                                   /\ d.parameter \in ParametersOf[d.category]
  /\ d.state = "awaiting_confirmation" =>
       /\ d.category \in Categories /\ d.value \in Inputs
       /\ d.mode = "add"  => d.parameter = "rule"
       /\ d.mode = "edit" => d.id \in Ids /\ d.parameter \in ParametersOf[d.category]

DialoguesOK == \A s \in Sessions : DialogueOK(session[s])

RulesIInv == RulesTypeOK /\ DialoguesOK

-----------------------------------------------------------------------------
(* Files                                                                       *)

(* A file that can be read holds rules by their ids.                           *)
LEMMA ReadableHolds ==
  ASSUME RulesTypeOK, NEW f \in Files, Readable(f)
  PROVE  DOMAIN files[f] \subseteq Ids /\ files[f] \in [DOMAIN files[f] -> RuleSet]
<1>1. \A c \in Contents : c = Broken \/ \E ids \in SUBSET Ids : c \in [ids -> RuleSet]
  BY DEF Contents
<1>2. files[f] \in Contents /\ files[f] /= Broken
  BY DEF RulesTypeOK, Readable
<1>3. PICK ids \in SUBSET Ids : files[f] \in [ids -> RuleSet]
  BY <1>1, <1>2
<1> QED BY <1>3

(* What holds rules by their ids is a content.                                 *)
LEMMA RulesAreContents ==
  ASSUME NEW c, NEW ids \in SUBSET Ids, c \in [ids -> RuleSet]
  PROVE  c \in Contents
  BY DEF Contents

(* A place of a rule is a readable file that has it.                           *)
LEMMA PlaceHolds ==
  ASSUME RulesTypeOK, NEW id, NEW i \in DOMAIN FileOrder, FirstPlace(i, id)
  PROVE  FileOrder[i] \in Files /\ Readable(FileOrder[i]) /\ id \in DOMAIN files[FileOrder[i]]
  BY DEF FirstPlace, Places, Files, Range

(* A file that changes gets parameter p of rule id set to v.                   *)
SetsOnly(id, p, v) ==
  \A f \in Files : files'[f] /= files[f] =>
    /\ Readable(f) /\ id \in DOMAIN files[f]
    /\ \A g \in Files \ {f} : files'[g] = files[g]
    /\ DOMAIN files'[f] = DOMAIN files[f] /\ FileKeeps(f, DOMAIN files[f] \ {id})
    /\ files'[f][id].category = files[f][id].category
    /\ \A q \in Fields \ {p} : files'[f][id].fields[q] = files[f][id].fields[q]
    /\ files'[f][id].fields[p] = v

(* One parameter of one rule changes.                                          *)
LEMMA UpdateChanges ==
  ASSUME RulesTypeOK, NEW id \in Ids, NEW p \in Fields, NEW v \in Inputs, UpdateRule(id, p, v)
  PROVE  /\ files' \in [Files -> Contents]
         /\ SetsOnly(id, p, v)
<1>1. CASE UNCHANGED files
  BY <1>1 DEF RulesTypeOK, SetsOnly
<1>2. ASSUME NEW i \in DOMAIN FileOrder, FirstPlace(i, id),
             files' = [files EXCEPT ![FileOrder[i]][id].fields[p] = v]
      PROVE  /\ files' \in [Files -> Contents]
             /\ SetsOnly(id, p, v)
  <2> DEFINE F == FileOrder[i]
             old == files[F]
             new == [old EXCEPT ![id].fields[p] = v]
  <2>1. F \in Files /\ Readable(F) /\ id \in DOMAIN old
    BY <1>2, PlaceHolds
  <2>2. old \in [DOMAIN old -> RuleSet] /\ DOMAIN old \in SUBSET Ids
    BY <2>1, ReadableHolds
  <2>3. files' = [files EXCEPT ![F] = new]
    BY <1>2
  <2>4. old[id] \in RuleSet
    BY <2>1, <2>2
  <2>5. DOMAIN new = DOMAIN old /\ \A o \in DOMAIN old \ {id} : new[o] = old[o]
    BY <2>2
  <2>6. new[id] = [old[id] EXCEPT !.fields[p] = v]
    BY <2>1, <2>2
  <2>7. /\ new[id] \in RuleSet /\ new[id].category = old[id].category
        /\ \A q \in Fields \ {p} : new[id].fields[q] = old[id].fields[q]
        /\ new[id].fields[p] = v
    BY <2>4, <2>6 DEF RuleSet
  <2>8. new \in [DOMAIN old -> RuleSet]
    BY <2>2, <2>5, <2>7
  <2>9. new \in Contents
    BY <2>2, <2>8, RulesAreContents
  <2>10. files \in [Files -> Contents]
    BY DEF RulesTypeOK
  <2>11. files'[F] = new /\ \A g \in Files \ {F} : files'[g] = files[g]
    BY <2>1, <2>3, <2>10
  <2>12. FileKeeps(F, DOMAIN old \ {id})
    BY <2>5, <2>11 DEF FileKeeps
  <2> HIDE DEF new
  <2>13. files' \in [Files -> Contents]
    BY <2>1, <2>3, <2>9, <2>10
  <2> QED BY <2>1, <2>5, <2>7, <2>11, <2>12, <2>13 DEF SetsOnly
<1> QED BY <1>1, <1>2 DEF UpdateRule

(* One rule goes.                                                              *)
LEMMA DeleteChanges ==
  ASSUME RulesTypeOK, NEW id \in Ids, DeleteRule(id)
  PROVE  /\ files' \in [Files -> Contents]
         /\ \A f \in Files : files'[f] /= files[f] =>
              /\ Readable(f) /\ Removes(f)
              /\ \A g \in Files \ {f} : files'[g] = files[g]
<1>1. PICK i \in DOMAIN FileOrder :
        /\ FirstPlace(i, id)
        /\ files' = [files EXCEPT ![FileOrder[i]] = [other \in DOMAIN @ \ {id} |-> @[other]]]
  BY DEF DeleteRule
<1> DEFINE F == FileOrder[i]
           old == files[F]
           new == [other \in DOMAIN old \ {id} |-> old[other]]
<1>2. F \in Files /\ Readable(F)
  BY <1>1, PlaceHolds
<1>3. old \in [DOMAIN old -> RuleSet] /\ DOMAIN old \in SUBSET Ids
  BY <1>2, ReadableHolds
<1>4. files \in [Files -> Contents]
  BY DEF RulesTypeOK
<1>5. files' = [files EXCEPT ![F] = new]
  BY <1>1, <1>2, <1>4
<1>6. new \in [DOMAIN old \ {id} -> RuleSet] /\ DOMAIN old \ {id} \in SUBSET Ids
  BY <1>3
<1>7. new \in Contents
  BY <1>6, RulesAreContents
<1>8. DOMAIN new = DOMAIN old \ {id} /\ \A o \in DOMAIN old \ {id} : new[o] = old[o]
  OBVIOUS
<1> HIDE DEF new
<1>9. files'[F] = new /\ \A g \in Files \ {F} : files'[g] = files[g]
  BY <1>2, <1>4, <1>5
<1>10. Removes(F)
  BY <1>8, <1>9 DEF Removes, FileKeeps
<1>11. files' \in [Files -> Contents]
  BY <1>4, <1>5, <1>7
<1> QED BY <1>2, <1>9, <1>10, <1>11

(* One rule comes, with a new id.                                              *)
LEMMA AddChanges ==
  ASSUME Categories \subseteq Files, RulesTypeOK, NEW c \in Categories, NEW text \in Inputs,
         Readable(c), AddRule(c, text)
  PROVE  /\ files' \in [Files -> Contents]
         /\ \A g \in Files \ {c} : files'[g] = files[g]
         /\ \E id \in Ids \ Used : DOMAIN files'[c] = DOMAIN files[c] \cup {id}
         /\ FileKeeps(c, DOMAIN files[c])
<1>1. PICK id \in Ids \ Used :
        files' = [files EXCEPT ![c] = [other \in DOMAIN @ \cup {id} |->
                    IF other = id THEN NewRule(c, text) ELSE @[other]]]
  BY DEF AddRule
<1> DEFINE old == files[c]
           new == [other \in DOMAIN old \cup {id} |-> IF other = id THEN NewRule(c, text) ELSE old[other]]
<1>2. c \in Files
  OBVIOUS
<1>3. old \in [DOMAIN old -> RuleSet] /\ DOMAIN old \in SUBSET Ids
  BY <1>2, ReadableHolds
<1>4. files \in [Files -> Contents]
  BY DEF RulesTypeOK
<1>5. files' = [files EXCEPT ![c] = new]
  BY <1>1, <1>2, <1>4
<1>6. id \notin DOMAIN old
  BY <1>2 DEF Used
<1>7. NewRule(c, text) \in RuleSet
  BY DEF NewRule, RuleSet
<1>8. new \in [DOMAIN old \cup {id} -> RuleSet] /\ DOMAIN old \cup {id} \in SUBSET Ids
  BY <1>3, <1>7
<1>9. new \in Contents
  BY <1>8, RulesAreContents
<1>10. DOMAIN new = DOMAIN old \cup {id} /\ \A o \in DOMAIN old : new[o] = old[o]
  BY <1>6
<1> HIDE DEF new
<1>11. files'[c] = new /\ \A g \in Files \ {c} : files'[g] = files[g]
  BY <1>2, <1>4, <1>5
<1>12. FileKeeps(c, DOMAIN old)
  BY <1>10, <1>11 DEF FileKeeps
<1>13. files' \in [Files -> Contents]
  BY <1>4, <1>5, <1>9
<1> QED BY <1>10, <1>11, <1>12, <1>13

-----------------------------------------------------------------------------
(* Dialogues                                                                   *)

(* Only the dialogue that answers changes.                                     *)
LEMMA DialogueGoes ==
  ASSUME RulesTypeOK, DialoguesOK, NEW s \in Sessions, NEW d \in SessionSet, DialogueOK(d), Goes(s, d)
  PROVE  session' \in [Sessions -> SessionSet] /\ DialoguesOK' /\ session'[s] = d
  BY DEF RulesTypeOK, DialoguesOK, DialogueOK, Goes

(* A dialogue that is reset knows nothing.                                     *)
LEMMA ResetIsOK == Reset \in SessionSet /\ DialogueOK(Reset)
  BY DEF Reset, SessionSet, DialogueOK, Fields, Inputs

(* The parameters of a category are fields and can be typed.                   *)
LEMMA ParametersAreFields ==
  ASSUME NEW c \in Categories, NEW p \in ParametersOf[c]
  PROVE  p \in Fields /\ p \in Inputs
  BY DEF Fields, Parameters, Inputs

LEMMA CategoryChosen ==
  ASSUME RulesIInv, NEW s \in Sessions, NEW text \in Inputs, ChooseCategory(s, text)
  PROVE  RulesIInv'
<1> DEFINE d == [session[s] EXCEPT !.category = text, !.state = "awaiting_parameter"]
<1>1. d \in SessionSet /\ DialogueOK(d)
  BY DEF RulesIInv, RulesTypeOK, DialoguesOK, DialogueOK, ChooseCategory, SessionSet
<1>2. session' \in [Sessions -> SessionSet] /\ DialoguesOK'
  BY <1>1, DialogueGoes DEF RulesIInv, ChooseCategory
<1> QED BY <1>2 DEF RulesIInv, RulesTypeOK, ChooseCategory

LEMMA ParameterChosen ==
  ASSUME RulesIInv, NEW s \in Sessions, NEW text \in Inputs, ChooseParameter(s, text)
  PROVE  RulesIInv'
<1> DEFINE d == [session[s] EXCEPT !.parameter = text, !.state = "awaiting_value"]
<1>1. session[s] \in SessionSet /\ DialogueOK(session[s])
  BY DEF RulesIInv, RulesTypeOK, DialoguesOK
<1>2. session[s].category \in Categories /\ text \in ParametersOf[session[s].category]
  BY <1>1 DEF ChooseParameter, DialogueOK
<1>3. text \in Fields
  BY <1>2, ParametersAreFields
<1>4. d \in SessionSet /\ DialogueOK(d)
  BY <1>1, <1>2, <1>3 DEF DialogueOK, ChooseParameter, SessionSet
<1>5. session' \in [Sessions -> SessionSet] /\ DialoguesOK'
  BY <1>4, DialogueGoes DEF RulesIInv, ChooseParameter
<1> QED BY <1>5 DEF RulesIInv, RulesTypeOK, ChooseParameter

LEMMA TextEntered ==
  ASSUME RulesIInv, NEW s \in Sessions, NEW text \in Inputs, EnterText(s, text)
  PROVE  RulesIInv'
<1> DEFINE d == [session[s] EXCEPT !.parameter = "rule", !.value = text, !.state = "awaiting_confirmation"]
<1>1. d \in SessionSet /\ DialogueOK(d)
  BY DEF RulesIInv, RulesTypeOK, DialoguesOK, DialogueOK, EnterText, SessionSet, Fields
<1>2. session' \in [Sessions -> SessionSet] /\ DialoguesOK'
  BY <1>1, DialogueGoes DEF RulesIInv, EnterText
<1> QED BY <1>2 DEF RulesIInv, RulesTypeOK, EnterText

LEMMA ValueEntered ==
  ASSUME RulesIInv, NEW s \in Sessions, NEW text \in Inputs, EnterValue(s, text)
  PROVE  RulesIInv'
<1> DEFINE d == [session[s] EXCEPT !.value = text, !.state = "awaiting_confirmation"]
<1>1. d \in SessionSet /\ DialogueOK(d)
  BY DEF RulesIInv, RulesTypeOK, DialoguesOK, DialogueOK, EnterValue, SessionSet
<1>2. session' \in [Sessions -> SessionSet] /\ DialoguesOK'
  BY <1>1, DialogueGoes DEF RulesIInv, EnterValue
<1> QED BY <1>2 DEF RulesIInv, RulesTypeOK, EnterValue

(* What an applied confirmation does to the files.                             *)
LEMMA ConfirmChanges ==
  ASSUME Categories \subseteq Files, RulesIInv, NEW s \in Sessions, Confirm(s)
  PROVE  /\ files' \in [Files -> Contents]
         /\ \A f \in Files : files'[f] /= files[f] =>
              /\ Readable(f) /\ (Adds(f, s) \/ Edits(f, s))
              /\ \A g \in Files \ {f} : files'[g] = files[g]
<1>1. /\ session[s] \in SessionSet /\ session[s].category \in Categories /\ session[s].value \in Inputs
      /\ session[s].mode = "edit" => /\ session[s].id \in Ids
                                     /\ session[s].parameter \in ParametersOf[session[s].category]
  BY DEF RulesIInv, RulesTypeOK, DialoguesOK, DialogueOK, Confirm
<1>2. CASE session[s].mode = "add"
  <2> DEFINE c == session[s].category
  <2>1. Readable(c) /\ AddRule(c, session[s].value)
    BY <1>2 DEF Confirm, ApplyRaises, Apply
  <2>2. /\ files' \in [Files -> Contents]
        /\ \A g \in Files \ {c} : files'[g] = files[g]
        /\ \E id \in Ids \ Used : DOMAIN files'[c] = DOMAIN files[c] \cup {id}
        /\ FileKeeps(c, DOMAIN files[c])
    BY <1>1, <2>1, AddChanges DEF RulesIInv
  <2>3. Adds(c, s)
    BY <1>2, <2>2 DEF Adds
  <2> QED BY <2>1, <2>2, <2>3
<1>3. CASE session[s].mode = "edit"
  <2>1. UpdateRule(session[s].id, session[s].parameter, session[s].value)
    BY <1>3 DEF Confirm, Apply
  <2>2. session[s].id \in Ids /\ session[s].parameter \in Fields
    BY <1>1, <1>3, ParametersAreFields
  <2>3. PICK id \in Ids, p \in Fields, v \in Inputs :
          id = session[s].id /\ p = session[s].parameter /\ v = session[s].value
    BY <1>1, <2>2
  <2>4. RulesTypeOK /\ UpdateRule(id, p, v)
    BY <2>1, <2>3 DEF RulesIInv
  <2>5. /\ files' \in [Files -> Contents]
        /\ SetsOnly(id, p, v)
    BY <2>4, UpdateChanges
  <2> QED BY <1>3, <2>3, <2>5 DEF Edits, SetsOnly
<1> QED BY <1>1, <1>2, <1>3 DEF SessionSet

LEMMA EditStarts ==
  ASSUME RulesIInv, NEW s \in Sessions, NEW id \in Ids, EditCommand(s, id)
  PROVE  RulesIInv'
<1>1. PICK i \in DOMAIN FileOrder :
        /\ FirstPlace(i, id)
        /\ Goes(s, [Reset EXCEPT !.id = id, !.category = files[FileOrder[i]][id].category,
                                 !.state = IF files[FileOrder[i]][id].category \in Categories
                                           THEN "awaiting_parameter" ELSE "awaiting_category"])
  BY DEF EditCommand
<1> DEFINE c == files[FileOrder[i]][id].category
           d == [Reset EXCEPT !.id = id, !.category = c,
                              !.state = IF c \in Categories THEN "awaiting_parameter" ELSE "awaiting_category"]
<1>2. files[FileOrder[i]][id] \in RuleSet
  BY <1>1, PlaceHolds, ReadableHolds DEF RulesIInv
<1>3. c \in Categories \cup {None}
  BY <1>2 DEF RuleSet
<1> HIDE DEF c
<1>4. d \in SessionSet /\ DialogueOK(d)
  BY <1>3 DEF Reset, SessionSet, DialogueOK
<1>5. session' \in [Sessions -> SessionSet] /\ DialoguesOK'
  BY <1>1, <1>4, DialogueGoes DEF RulesIInv, c
<1> QED BY <1>5 DEF RulesIInv, RulesTypeOK, EditCommand

LEMMA AdditionStarts ==
  ASSUME RulesIInv, NEW s \in Sessions, AddCommand(s)
  PROVE  RulesIInv'
<1> DEFINE d == [Reset EXCEPT !.mode = "add", !.state = "awaiting_category"]
<1>1. d \in SessionSet /\ DialogueOK(d)
  BY DEF Reset, SessionSet, DialogueOK
<1>2. session' \in [Sessions -> SessionSet] /\ DialoguesOK'
  BY <1>1, DialogueGoes DEF RulesIInv, AddCommand
<1> QED BY <1>2 DEF RulesIInv, RulesTypeOK, AddCommand

-----------------------------------------------------------------------------
(* The invariant                                                               *)

LEMMA RulesInitially == RulesInit => RulesIInv
  BY ResetIsOK DEF RulesInit, RulesIInv, RulesTypeOK, DialoguesOK

(* Every step keeps the files and the dialogues in shape.                      *)
LEMMA RulesStepKeeps ==
  ASSUME Categories \subseteq Files, RulesIInv, [RulesNext]_rules_vars
  PROVE  RulesIInv'
<1>1. CASE UNCHANGED rules_vars
  BY <1>1 DEF RulesIInv, RulesTypeOK, DialoguesOK, DialogueOK, rules_vars
<1>2. ASSUME NEW s \in Sessions, AddCommand(s) PROVE RulesIInv'
  BY <1>2, AdditionStarts
<1>3. ASSUME NEW s \in Sessions, NEW id \in Ids, EditCommand(s, id) PROVE RulesIInv'
  BY <1>3, EditStarts
<1>4. ASSUME NEW id \in Ids, DeleteRule(id) PROVE RulesIInv'
  <2>1. files' \in [Files -> Contents] /\ session' = session
    BY <1>4, DeleteChanges DEF RulesIInv, DeleteRule
  <2> QED BY <2>1 DEF RulesIInv, RulesTypeOK, DialoguesOK
<1>5. ASSUME NEW s \in Sessions, Confirm(s) PROVE RulesIInv'
  <2>1. files' \in [Files -> Contents]
    BY <1>5, ConfirmChanges
  <2>2. session' \in [Sessions -> SessionSet] /\ DialoguesOK'
    BY <1>5, ResetIsOK, DialogueGoes DEF RulesIInv, Confirm
  <2> QED BY <2>1, <2>2 DEF RulesIInv, RulesTypeOK
<1>6. ASSUME NEW s \in Sessions, Cancel(s) PROVE RulesIInv'
  <2>1. session' \in [Sessions -> SessionSet] /\ DialoguesOK'
    BY <1>6, ResetIsOK, DialogueGoes DEF RulesIInv, Cancel
  <2> QED BY <1>6, <2>1 DEF RulesIInv, RulesTypeOK, Cancel
<1>7. ASSUME NEW s \in Sessions, NEW text \in Inputs, ProcessInput(s, text) PROVE RulesIInv'
  BY <1>5, <1>6, <1>7, CategoryChosen, ParameterChosen, TextEntered, ValueEntered DEF ProcessInput
<1> QED BY <1>1, <1>2, <1>3, <1>4, <1>7 DEF RulesNext, HandleRulesCommand

LEMMA RulesInvariant ==
  ASSUME Categories \subseteq Files
  PROVE  RulesSpec => []RulesIInv
  BY RulesInitially, RulesStepKeeps, PTL DEF RulesSpec

(* Files and dialogues keep their shape, whatever is typed, if every category  *)
(* has its file (rules.py:132).                                                *)
THEOREM RulesTypeCorrect ==
  ASSUME Categories \subseteq Files
  PROVE  RulesSpec => []RulesTypeOK
<1>1. RulesIInv => RulesTypeOK
  BY DEF RulesIInv
<1> QED BY <1>1, RulesInvariant, PTL

(* What a dialogue asks to be confirmed is complete (rules.py:260-274), so the *)
(* fallbacks of _apply (rules.py:283-293) are never used.                      *)
THEOREM ConfirmationsAreComplete ==
  ASSUME Categories \subseteq Files
  PROVE  RulesSpec => []ConfirmsComplete
<1>1. RulesIInv => ConfirmsComplete
  BY DEF RulesIInv, DialoguesOK, DialogueOK, ConfirmsComplete
<1> QED BY <1>1, RulesInvariant, PTL

(* A file of rules changes by one deletion, or by one confirmed addition or    *)
(* edit, and keeps everything else it holds (rules.py:79-148).                 *)
THEOREM RulesChangeByConfirmation ==
  ASSUME Categories \subseteq Files
  PROVE  RulesSpec => ChangesAreConfirmed
<1> DEFINE Change == \A f \in Files : files'[f] /= files[f] =>
             /\ Readable(f)
             /\ \A g \in Files \ {f} : files'[g] = files[g]
             /\ \/ Removes(f)
                \/ \E s \in Sessions : /\ session[s].state = "awaiting_confirmation" /\ session'[s] = Reset
                                       /\ Adds(f, s) \/ Edits(f, s)
<1>1. RulesIInv /\ [RulesNext]_rules_vars => [Change]_rules_vars
  <2> SUFFICES ASSUME RulesIInv, RulesNext PROVE Change
    OBVIOUS
  <2>1. CASE UNCHANGED files
    BY <2>1
  <2>2. ASSUME NEW id \in Ids, DeleteRule(id) PROVE Change
    BY <2>2, DeleteChanges DEF RulesIInv
  <2>3. ASSUME NEW s \in Sessions, Confirm(s) PROVE Change
    <3>1. session[s].state = "awaiting_confirmation" /\ session'[s] = Reset
      BY <2>3 DEF Confirm, Goes, RulesIInv, RulesTypeOK
    <3>2. \A f \in Files : files'[f] /= files[f] =>
              /\ Readable(f) /\ (Adds(f, s) \/ Edits(f, s))
              /\ \A g \in Files \ {f} : files'[g] = files[g]
      BY <2>3, ConfirmChanges
    <3> QED BY <3>1, <3>2
  <2> QED BY <2>1, <2>2, <2>3
      DEF RulesNext, HandleRulesCommand, AddCommand, EditCommand, ProcessInput,
          ChooseCategory, ChooseParameter, EnterText, EnterValue, Cancel
<1> QED BY <1>1, RulesInvariant, PTL DEF RulesSpec, ChangesAreConfirmed

-----------------------------------------------------------------------------
(* What holds of the permissions and of the compliance scan: for every set of  *)
(* rules, and for the rules in the source.                                     *)

-----------------------------------------------------------------------------
(* Theorems about permissions                                                  *)

(* Whoever adds rules to the lists that refuse, or takes some from the list    *)
(* that approves, never makes an action allowed that was not                   *)
(* (permission.py:77-123).                                                     *)
THEOREM StricterRulesAllowLess ==
  ASSUME NEW lax, NEW strict, NEW action,
         lax.forbidden \subseteq strict.forbidden,
         lax.requires_process \subseteq strict.requires_process,
         lax.requires_supervisor \subseteq strict.requires_supervisor,
         strict.can_approve_immediately \subseteq lax.can_approve_immediately,
         Allowed(strict, action)
  PROVE  Allowed(lax, action)
  BY DEF Allowed, CheckPermission, AnyMatches

(* A list that approves only below thresholds, and lists that refuse only from *)
(* thresholds on.                                                              *)
Thresholds(permissions) ==
  /\ \A rule \in permissions.can_approve_immediately : rule.operator \in {"contains", "<"} /\ rule.threshold \in Nat
  /\ \A rule \in permissions.forbidden \cup permissions.requires_process \cup permissions.requires_supervisor :
       rule.operator \in {"contains", ">="} /\ rule.threshold \in Nat

LEMMA AboutParts ==
  \A s : About(s).about = s /\ About(s).operator = "contains" /\ About(s).threshold = 0
  BY DEF About

(* What the lists of customer service hold, rule by rule.                      *)
LEMMA CustomerServiceRules ==
  /\ \A rule \in DefaultCustomerService.can_approve_immediately :
       \/ rule.about = "refund" /\ rule.operator = "<" /\ rule.threshold = 100
       \/ rule.about = "deferred repayment" /\ rule.operator = "<" /\ rule.threshold = 7
       \/ rule.about \notin {"refund", "deferred repayment"} /\ rule.operator = "contains" /\ rule.threshold = 0
  /\ \A rule \in DefaultCustomerService.requires_supervisor :
       \/ rule.about = "refund" /\ rule.operator = ">=" /\ rule.threshold = 100
       \/ rule.about = "deferred repayment" /\ rule.operator = ">=" /\ rule.threshold = 7
       \/ /\ rule.about \notin {"refund", "deferred repayment", "query bill", "explain policy"}
          /\ rule.operator = "contains" /\ rule.threshold = 0
  /\ \A rule \in DefaultCustomerService.requires_process \cup DefaultCustomerService.forbidden :
       /\ rule.about \notin {"refund", "deferred repayment", "query bill", "explain policy"}
       /\ rule.operator = "contains" /\ rule.threshold = 0
<1> DEFINE P == DefaultCustomerService
<1>1. ASSUME NEW rule \in P.can_approve_immediately
      PROVE  \/ rule = Below("refund", 100) \/ rule = Below("deferred repayment", 7)
             \/ \E s : rule = About(s) /\ s \notin {"refund", "deferred repayment"}
  BY DEF DefaultCustomerService
<1>2. ASSUME NEW rule \in P.requires_supervisor
      PROVE  \/ rule = AtLeast("refund", 100) \/ rule = AtLeast("deferred repayment", 7)
             \/ \E s : rule = About(s) /\ s \notin {"refund", "deferred repayment", "query bill", "explain policy"}
  BY DEF DefaultCustomerService
<1>3. ASSUME NEW rule \in P.requires_process \cup P.forbidden
      PROVE  \E s : rule = About(s) /\ s \notin {"refund", "deferred repayment", "query bill", "explain policy"}
  BY DEF DefaultCustomerService
<1>4. ASSUME NEW rule \in P.can_approve_immediately
      PROVE  \/ rule.about = "refund" /\ rule.operator = "<" /\ rule.threshold = 100
             \/ rule.about = "deferred repayment" /\ rule.operator = "<" /\ rule.threshold = 7
             \/ rule.about \notin {"refund", "deferred repayment"} /\ rule.operator = "contains" /\ rule.threshold = 0
  <2>1. CASE rule = Below("refund", 100)
    BY <2>1 DEF Below
  <2>2. CASE rule = Below("deferred repayment", 7)
    BY <2>2 DEF Below
  <2>3. CASE \E s : rule = About(s) /\ s \notin {"refund", "deferred repayment"}
    BY <2>3, AboutParts
  <2> QED BY <2>1, <2>2, <2>3, <1>1
<1>5. ASSUME NEW rule \in P.requires_supervisor
      PROVE  \/ rule.about = "refund" /\ rule.operator = ">=" /\ rule.threshold = 100
             \/ rule.about = "deferred repayment" /\ rule.operator = ">=" /\ rule.threshold = 7
             \/ /\ rule.about \notin {"refund", "deferred repayment", "query bill", "explain policy"}
                /\ rule.operator = "contains" /\ rule.threshold = 0
  <2>1. CASE rule = AtLeast("refund", 100)
    BY <2>1 DEF AtLeast
  <2>2. CASE rule = AtLeast("deferred repayment", 7)
    BY <2>2 DEF AtLeast
  <2>3. CASE \E s : rule = About(s) /\ s \notin {"refund", "deferred repayment", "query bill", "explain policy"}
    BY <2>3, AboutParts
  <2> QED BY <2>1, <2>2, <2>3, <1>2
<1>6. \A rule \in P.requires_process \cup P.forbidden :
       /\ rule.about \notin {"refund", "deferred repayment", "query bill", "explain policy"}
       /\ rule.operator = "contains" /\ rule.threshold = 0
  BY <1>3, AboutParts
<1> HIDE DEF P
<1> QED BY <1>4, <1>5, <1>6 DEF P

LEMMA DefaultsAreThresholds ==
  Thresholds(DefaultCustomerService) /\ Thresholds(DefaultMarketing)
<1>1. Thresholds(DefaultCustomerService)
  <2> DEFINE P == DefaultCustomerService
  <2>1. ASSUME NEW rule \in P.can_approve_immediately
        PROVE  rule.operator \in {"contains", "<"} /\ rule.threshold \in Nat
    <3>1. rule.operator \in {"contains", "<"}
      BY CustomerServiceRules
    <3>2. rule.threshold = 100 \/ rule.threshold = 7 \/ rule.threshold = 0
      BY CustomerServiceRules
    <3> QED BY <3>1, <3>2
  <2>2. ASSUME NEW rule \in P.requires_supervisor
        PROVE  rule.operator \in {"contains", ">="} /\ rule.threshold \in Nat
    <3>1. rule.operator \in {"contains", ">="}
      BY CustomerServiceRules
    <3>2. rule.threshold = 100 \/ rule.threshold = 7 \/ rule.threshold = 0
      BY CustomerServiceRules
    <3> QED BY <3>1, <3>2
  <2>3. \A rule \in P.requires_process \cup P.forbidden : rule.operator = "contains" /\ rule.threshold = 0
    BY CustomerServiceRules
  <2> QED BY <2>1, <2>2, <2>3 DEF Thresholds
<1> DEFINE M == DefaultMarketing
<1>2. ASSUME NEW rule \in M.can_approve_immediately
      PROVE  \/ rule = Below("trial", 30) \/ rule = Below("discount", 10) \/ rule = Below("deferred payment", 15)
             \/ \E s : rule = About(s)
  BY DEF DefaultMarketing
<1>3. ASSUME NEW rule \in M.requires_supervisor
      PROVE  rule = AtLeast("trial", 30) \/ rule = AtLeast("discount", 10) \/ \E s : rule = About(s)
  BY DEF DefaultMarketing
<1>4. ASSUME NEW rule \in M.requires_process \cup M.forbidden
      PROVE  \E s : rule = About(s)
  BY DEF DefaultMarketing
<1>5. ASSUME NEW rule \in M.can_approve_immediately
      PROVE  rule.operator \in {"contains", "<"} /\ rule.threshold \in Nat
  <2>1. CASE rule = Below("trial", 30)
    BY <2>1 DEF Below
  <2>2. CASE rule = Below("discount", 10)
    BY <2>2 DEF Below
  <2>3. CASE rule = Below("deferred payment", 15)
    BY <2>3 DEF Below
  <2>4. CASE \E s : rule = About(s)
    BY <2>4, AboutParts
  <2> QED BY <2>1, <2>2, <2>3, <2>4, <1>2
<1>6. ASSUME NEW rule \in M.requires_supervisor
      PROVE  rule.operator \in {"contains", ">="} /\ rule.threshold \in Nat
  <2>1. CASE rule = AtLeast("trial", 30)
    BY <2>1 DEF AtLeast
  <2>2. CASE rule = AtLeast("discount", 10)
    BY <2>2 DEF AtLeast
  <2>3. CASE \E s : rule = About(s)
    BY <2>3, AboutParts
  <2> QED BY <2>1, <2>2, <2>3, <1>3
<1>7. \A rule \in M.requires_process \cup M.forbidden : rule.operator = "contains" /\ rule.threshold = 0
  BY <1>4, AboutParts
<1>8. Thresholds(M)
  <2> HIDE DEF M
  <2> QED BY <1>5, <1>6, <1>7 DEF Thresholds
<1> QED BY <1>1, <1>8

LEMMA SmallerMatches ==
  ASSUME NEW says, NEW n \in Nat, NEW m \in Nat, m <= n, NEW rule, rule.threshold \in Nat, NoAmount \notin Nat
  PROVE  /\ rule.operator \in {"contains", "<"} /\ Matches([says |-> says, amount |-> n], rule)
              => Matches([says |-> says, amount |-> m], rule)
         /\ rule.operator \in {"contains", ">="} /\ Matches([says |-> says, amount |-> m], rule)
              => Matches([says |-> says, amount |-> n], rule)
  BY DEF Matches, MatchesThreshold, Compares

(* What an operator may promise at some amount, he may promise at any smaller  *)
(* one, whatever else the action says, under the defaults of both domains      *)
(* (domain_permission.py:18-80).                                               *)
THEOREM SmallerAmountsStayAllowed ==
  ASSUME NoAmount \notin Nat, NEW permissions \in {DefaultCustomerService, DefaultMarketing},
         NEW says, NEW n \in Nat, NEW m \in Nat, m <= n,
         Allowed(permissions, [says |-> says, amount |-> n])
  PROVE  Allowed(permissions, [says |-> says, amount |-> m])
<1> DEFINE larger  == [says |-> says, amount |-> n]
           smaller == [says |-> says, amount |-> m]
<1>1. Thresholds(permissions)
  BY DefaultsAreThresholds
<1>2. \E rule \in permissions.can_approve_immediately : Matches(larger, rule)
  BY DEF Allowed, CheckPermission, AnyMatches
<1>3. \E rule \in permissions.can_approve_immediately : Matches(smaller, rule)
  BY <1>1, <1>2, SmallerMatches DEF Thresholds
<1>4. \A rule \in permissions.forbidden \cup permissions.requires_process \cup permissions.requires_supervisor :
        ~Matches(larger, rule)
  BY DEF Allowed, CheckPermission, AnyMatches
<1>5. \A rule \in permissions.forbidden \cup permissions.requires_process \cup permissions.requires_supervisor :
        ~Matches(smaller, rule)
  BY <1>1, <1>4, SmallerMatches DEF Thresholds
<1> QED BY <1>3, <1>5 DEF Allowed, CheckPermission, AnyMatches

(* The default thresholds leave no gap and do not overlap: a refund is the     *)
(* operator's own below 100 and the supervisor's from 100 on, and of one that  *)
(* names no amount the supervisor decides (domain_permission.py:20, 31).       *)
THEOREM RefundsAreDecidedByAmount ==
  ASSUME NoAmount \notin Nat, NEW amount \in Nat \cup {NoAmount}
  PROVE  CheckPermission(DefaultCustomerService, [says |-> {"refund"}, amount |-> amount])
         = IF amount \in Nat /\ amount < 100 THEN "approve_immediately" ELSE "requires_supervisor"
<1> DEFINE action == [says |-> {"refund"}, amount |-> amount]
           P == DefaultCustomerService
<1>1. ~AnyMatches(action, P.forbidden) /\ ~AnyMatches(action, P.requires_process)
  BY CustomerServiceRules DEF AnyMatches, Matches
<1>2. AnyMatches(action, P.requires_supervisor) => amount \in Nat /\ amount >= 100
  BY CustomerServiceRules DEF AnyMatches, Matches, MatchesThreshold, Compares
<1>3. AnyMatches(action, P.can_approve_immediately) <=> amount \in Nat /\ amount < 100
  <2>1. AnyMatches(action, P.can_approve_immediately) => amount \in Nat /\ amount < 100
    BY CustomerServiceRules DEF AnyMatches, Matches, MatchesThreshold, Compares
  <2>2. Below("refund", 100) \in P.can_approve_immediately
    BY DEF DefaultCustomerService
  <2>3. amount \in Nat /\ amount < 100 => Matches(action, Below("refund", 100))
    BY DEF Below, Matches, MatchesThreshold, Compares
  <2> QED BY <2>1, <2>2, <2>3 DEF AnyMatches
<1> HIDE DEF action, P
<1>4. ASSUME amount \in Nat, amount < 100 PROVE CheckPermission(P, action) = "approve_immediately"
  <2>1. ~AnyMatches(action, P.requires_supervisor)
    BY <1>2, <1>4
  <2> QED BY <1>1, <1>3, <1>4, <2>1 DEF CheckPermission
<1>5. ASSUME ~(amount \in Nat /\ amount < 100) PROVE CheckPermission(P, action) = "requires_supervisor"
  BY <1>1, <1>3, <1>5 DEF CheckPermission
<1> QED BY <1>4, <1>5 DEF action, P

(* But an action that asks for a refund without an amount together with what   *)
(* an operator may always do is approved: a threshold that cannot be compared  *)
(* matches nothing (permission.py:148-150), and one matching rule is enough.   *)
THEOREM UnnamedAmountsAreNotChecked ==
  ASSUME NEW says, "query bill" \in says,
         says \subseteq {"refund", "deferred repayment", "query bill", "explain policy"}
  PROVE  Allowed(DefaultCustomerService, [says |-> says, amount |-> NoAmount])
<1> DEFINE action == [says |-> says, amount |-> NoAmount]
           P == DefaultCustomerService
<1>1. ~AnyMatches(action, P.forbidden) /\ ~AnyMatches(action, P.requires_process)
  BY CustomerServiceRules DEF AnyMatches, Matches
<1>2. ~AnyMatches(action, P.requires_supervisor)
  BY CustomerServiceRules DEF AnyMatches, Matches, MatchesThreshold
<1>3. AnyMatches(action, P.can_approve_immediately)
  <2>1. About("query bill") \in P.can_approve_immediately
    BY DEF DefaultCustomerService
  <2>2. Matches(action, About("query bill"))
    BY DEF Matches, About
  <2> QED BY <2>1, <2>2 DEF AnyMatches
<1> HIDE DEF action, P
<1> QED BY <1>1, <1>2, <1>3 DEF Allowed, CheckPermission, action, P

(* A domain without defaults approves nothing (domain_permission.py:83-90).    *)
THEOREM UnknownDomainApprovesNothing ==
  ASSUME NEW action, NEW domain, domain \notin {"customer-service", "marketing"}
  PROVE  CheckDomainPermission(action, NoPermissions, domain) = "requires_supervisor"
  BY DEF CheckDomainPermission, DefaultPermissions, NoPermissions, CheckPermission, AnyMatches

-----------------------------------------------------------------------------
(* Theorems about compliance                                                   *)

(* A rule set that blocks by severity: the risk level alone tells what is      *)
(* blocked, which is all that the API returns for the Dream Engine             *)
(* (compliance.py:196-234, api_routes.py:483-493).                             *)
THEOREM RiskDecidesBlocking ==
  ASSUME NEW failed,
         \A rule \in failed : /\ rule.severity \in {"critical", "high", "medium"}
                              /\ rule.blocking = BlockedBy(rule.severity)
  PROVE  /\ Blocked(failed, "production") <=> RiskLevel(failed) \in {"critical", "high"}
         /\ Blocked(failed, "dream_engine") <=> RiskLevel(failed) = "critical"
         /\ ~Blocked(failed, "sandbox")
<1>1. \A rule \in failed : /\ "production" \in rule.blocking <=> rule.severity \in {"critical", "high"}
                           /\ "dream_engine" \in rule.blocking <=> rule.severity = "critical"
                           /\ "sandbox" \notin rule.blocking
  BY DEF BlockedBy
<1> QED BY <1>1 DEF Blocked, RiskLevel

(* A scan of one region never blocks what the scan of all regions lets pass    *)
(* (compliance.py:152-155).                                                    *)
THEOREM RegionBlocksNoMore ==
  ASSUME NEW rules, NEW config, NEW region, NEW environment,
         Blocked(ScanFails(rules, config, region), environment)
  PROVE  Blocked(ScanFails(rules, config, "all"), environment)
  BY DEF Blocked, ScanFails

(* The sixteen rules block by severity, ask for a field of the tenant or of    *)
(* the soul, and are not satisfied by a field that is not there.               *)
LEMMA RulesAreStrict ==
  \A rule \in ComplianceRules :
    /\ rule.severity \in {"critical", "high", "medium"} /\ rule.blocking = BlockedBy(rule.severity)
    /\ rule.field.part \in {"tenant", "soul"}
    /\ ~EvaluateCondition("none", rule.condition)
  BY DEF ComplianceRules, ComplianceRule, EvaluateCondition

(* A tenant whose soul cannot be read goes nowhere: what is not known to be    *)
(* disclosed is not (api_routes.py:470-479).                                   *)
THEOREM UnreadableSoulBlocks ==
  ASSUME NEW tenant, NEW soulFile, soulFile = NoSoul \/ DOMAIN soulFile = {}
  PROVE  LET failed == ScanFails(ComplianceRules, CheckedConfig(tenant, NoSoul, soulFile), "all") IN
         Blocked(failed, "production") /\ Blocked(failed, "dream_engine")
<1> DEFINE config == CheckedConfig(tenant, NoSoul, soulFile)
           rule == ComplianceRule("eu-01", "EU", "critical", "soul", "disclosure_enabled", "must_be_true")
<1>1. rule \in ComplianceRules
  BY DEF ComplianceRules
<1>2. rule.field = [part |-> "soul", name |-> "disclosure_enabled"]
      /\ rule.blocking = {"production", "dream_engine"}
  BY DEF ComplianceRule, BlockedBy
<1> HIDE DEF rule
<1>3. ResolveField(config, rule.field) = "none"
  <2>1. CASE soulFile = NoSoul
    <3>1. config = [tenant |-> tenant]
      BY <2>1 DEF CheckedConfig
    <3> HIDE DEF config
    <3> QED BY <1>2, <3>1 DEF ResolveField
  <2>2. CASE soulFile /= NoSoul
    <3>1. config = [tenant |-> tenant, soul |-> soulFile] /\ DOMAIN soulFile = {}
      BY <2>2 DEF CheckedConfig
    <3> HIDE DEF config
    <3> QED BY <1>2, <3>1 DEF ResolveField
  <2> QED BY <2>1, <2>2
<1>4. rule \in ScanFails(ComplianceRules, config, "all")
  BY <1>1, <1>3, RulesAreStrict DEF ScanFails, Passes
<1> QED BY <1>2, <1>4 DEF Blocked

(* A tenant that has just been activated fails every rule but the one about    *)
(* data that crosses borders: it may only be rehearsed.  Activating a tenant   *)
(* again takes it back there (onboarding.py:361-385).                          *)
THEOREM ActivatedTenantIsSandboxed ==
  ASSUME ActivatedSoul /= NoSoul, NEW soulFile
  PROVE  LET failed == ScanFails(ComplianceRules, CheckedConfig(ActivatedTenant, ActivatedSoul, soulFile), "all") IN
         /\ \A rule \in ComplianceRules : rule \in failed <=> rule.field.name /= "data_cross_border_enabled"
         /\ RiskLevel(failed) = "critical"
         /\ Blocked(failed, "production") /\ Blocked(failed, "dream_engine") /\ ~Blocked(failed, "sandbox")
<1> DEFINE config == [tenant |-> ActivatedTenant, soul |-> ActivatedSoul]
           failed == ScanFails(ComplianceRules, config, "all")
<1>1. CheckedConfig(ActivatedTenant, ActivatedSoul, soulFile) = config
  BY DEF CheckedConfig
<1>2. \A rule \in ComplianceRules : Passes(config, rule) <=> rule.field.name = "data_cross_border_enabled"
  BY DEF ComplianceRules, ComplianceRule, Passes, EvaluateCondition, ResolveField, ActivatedTenant, ActivatedSoul
<1>3. \A rule \in ComplianceRules : rule \in failed <=> rule.field.name /= "data_cross_border_enabled"
  BY <1>2 DEF ScanFails
<1>4. ComplianceRule("eu-01", "EU", "critical", "soul", "disclosure_enabled", "must_be_true") \in failed
  <2> DEFINE rule == ComplianceRule("eu-01", "EU", "critical", "soul", "disclosure_enabled", "must_be_true")
  <2>1. rule \in ComplianceRules
    BY DEF ComplianceRules
  <2>2. rule.field.name = "disclosure_enabled"
    BY DEF ComplianceRule
  <2> HIDE DEF rule, failed
  <2> QED BY <1>3, <2>1, <2>2 DEF rule
<1>5. RiskLevel(failed) = "critical"
  <2>1. \E rule \in failed : rule.severity = "critical"
    BY <1>4 DEF ComplianceRule
  <2> QED BY <2>1 DEF RiskLevel
<1>6. failed \subseteq ComplianceRules
  BY DEF ScanFails
<1> HIDE DEF failed
<1>7. Blocked(failed, "production") /\ Blocked(failed, "dream_engine") /\ ~Blocked(failed, "sandbox")
  BY <1>5, <1>6, RulesAreStrict, RiskDecidesBlocking
<1> QED BY <1>1, <1>3, <1>5, <1>7 DEF failed

(* The proposal pipeline scans the proposal as if it were a configuration: it  *)
(* has neither a tenant nor a soul, so it fails all the rules, whatever it     *)
(* proposes (proposal_pipeline.py:279-293).                                    *)
THEOREM ProposalsNeverPass ==
  ASSUME NEW proposal, {"tenant", "soul"} \cap DOMAIN proposal = {}
  PROVE  ProposalFlags(proposal) = ComplianceRules /\ ~ProposalPasses(proposal)
<1>1. \A rule \in ComplianceRules : ~Passes(proposal, rule)
  BY RulesAreStrict DEF Passes, ResolveField
<1>2. ProposalFlags(proposal) = ComplianceRules
  BY <1>1 DEF ProposalFlags, ScanFails
<1>3. ComplianceRules /= {}
  BY DEF ComplianceRules
<1> QED BY <1>2, <1>3 DEF ProposalPasses

-----------------------------------------------------------------------------
(* Theorems about the morning message                                          *)

Drafts == Seq(DOMAIN PriorityOrder)

LEMMA Ranks == ASSUME NEW drafts \in Drafts, NEW i \in DOMAIN drafts
               PROVE  i \in Int /\ PriorityOrder[drafts[i]] \in Int
<1>1. i \in 1 .. Len(drafts) /\ drafts[i] \in DOMAIN PriorityOrder
  BY DEF Drafts
<1>2. DOMAIN PriorityOrder = {"high", "medium", "low"}
  BY DEF PriorityOrder
<1>3. PriorityOrder["high"] = 0 /\ PriorityOrder["medium"] = 1 /\ PriorityOrder["low"] = 2
  BY DEF PriorityOrder
<1> QED BY <1>1, <1>2, <1>3

(* No draft that the morning message leaves out comes before one it shows:     *)
(* neither one of a higher priority, nor a newer one of the same               *)
(* (morning_push.py:60-74).                                                    *)
THEOREM TheMostUrgentAreShown ==
  ASSUME NEW drafts \in Drafts, NEW i \in TopProposals(drafts), NEW j \in DOMAIN drafts, j \notin TopProposals(drafts)
  PROVE  Before(drafts, i, j)
<1>1. i \in DOMAIN drafts /\ i /= j
  BY DEF TopProposals
<1>2. \A k \in DOMAIN drafts : k \in Int /\ PriorityOrder[drafts[k]] \in Int
  BY Ranks
<1> SUFFICES ASSUME ~Before(drafts, i, j) PROVE FALSE
  OBVIOUS
<1>3. Before(drafts, j, i)
  BY <1>1, <1>2 DEF Before
<1>4. AreBefore(drafts, j) \subseteq AreBefore(drafts, i)
  <2> SUFFICES ASSUME NEW k \in DOMAIN drafts, Before(drafts, k, j) PROVE Before(drafts, k, i)
    BY DEF AreBefore
  <2> QED BY <1>1, <1>2, <1>3 DEF Before
<1>5. IsFiniteSet(AreBefore(drafts, i)) /\ IsFiniteSet(AreBefore(drafts, j))
  <2>1. DOMAIN drafts = 1 .. Len(drafts) /\ Len(drafts) \in Nat
    BY DEF Drafts
  <2>2. IsFiniteSet(DOMAIN drafts)
    BY <2>1, FS_Interval
  <2> QED BY <2>2, FS_Subset DEF AreBefore
<1>6. Cardinality(AreBefore(drafts, j)) <= Cardinality(AreBefore(drafts, i))
  BY <1>4, <1>5, FS_Subset
<1>7. Cardinality(AreBefore(drafts, j)) \in Nat /\ Cardinality(AreBefore(drafts, i)) \in Nat
  BY <1>5, FS_CardinalityType
<1> QED BY <1>6, <1>7 DEF TopProposals

-----------------------------------------------------------------------------
(* Proofs about QueryRouter: what an answer that asks nothing back is known to *)
(* be about, and what the tables make of some words.                           *)

(* Nothing found is told from what is found.                                   *)
NotFoundIsNothing ==
  NotFound \notin {"contact_center", "ai_sales_bot", "global_telecom", "which of these countries", "more",
              "which country", "which number", "which area", "local", "toll-free",
              "united arab emirates"}

LEMMA Areas == DOMAIN DomainKeywords = {"contact_center", "ai_sales_bot", "global_telecom"}
  BY DEF DomainKeywords

(* A question that is not about several areas has the one it is about.         *)
LEMMA OneArea ==
  ASSUME NotFoundIsNothing, NEW query, ~AsksForArea(query)
  PROVE  /\ Domain(query) = NotFound <=> MatchedDomains(query) = {}
         /\ \A domain \in MatchedDomains(query) : Domain(query) = domain
<1>1. MatchedDomains(query) \subseteq {"contact_center", "ai_sales_bot", "global_telecom"}
  BY Areas DEF MatchedDomains
<1>2. MatchedDomains(query) /= {} => Domain(query) \in MatchedDomains(query)
  BY DEF Domain
<1>3. MatchedDomains(query) = {} => Domain(query) = NotFound
  BY DEF Domain
<1> QED BY <1>1, <1>2, <1>3 DEF AsksForArea, NotFoundIsNothing

(* The fields of an answer about one area at most.                             *)
LEMMA AnswersAbout ==
  ASSUME NEW query, ~AsksForArea(query)
  PROVE  /\ Route(query).ambiguous = (Clarifies(query) /= NotFound)
         /\ Route(query).domain = Domain(query) /\ Route(query).region = Region(query)
         /\ Route(query).is_glossary_only = IsGlossaryOnly(query)
         /\ Route(query).broad_region = BroadRegion(query) /\ Route(query).confidence = Confidence(query)
         /\ Route(query).asks = Clarifies(query)
  BY DEF Route

LEMMA AreaIsAsked ==
  ASSUME NEW query, AsksForArea(query)
  PROVE  Route(query).ambiguous /\ Route(query).asks = "which area"
  BY DEF Route

(* An answer that asks nothing back has an area, or explains a term; one about *)
(* numbers and rates has a country or a broad region; and no name of several   *)
(* countries is left open: section 6 of route.                                 *)
THEOREM AnswersKnowTheirSubject ==
  ASSUME NotFoundIsNothing, NEW query, ~Route(query).ambiguous
  PROVE  /\ Route(query).domain /= NotFound \/ Route(query).is_glossary_only
         /\ Route(query).domain = "global_telecom" => Route(query).region /= NotFound \/ Route(query).broad_region /= NotFound
         /\ ~DetectAmbiguousCountry(query.text)
<1>1. ~AsksForArea(query)
  BY AreaIsAsked
<1>2. Clarifies(query) = NotFound
  BY <1>1, AnswersAbout
<1>3. /\ Domain(query) /= NotFound \/ IsGlossaryOnly(query)
      /\ Domain(query) = "global_telecom" => Region(query) /= NotFound \/ BroadRegion(query) /= NotFound
      /\ ~DetectAmbiguousCountry(query.text)
  BY <1>2 DEF Clarifies, NotFoundIsNothing
<1> QED BY <1>1, <1>3, AnswersAbout

(* A broad region makes a question one about numbers and rates: it is answered *)
(* as such or asked back, never answered from another area.                    *)
THEOREM BroadRegionsAreTelecom ==
  ASSUME NotFoundIsNothing, NEW query, BroadRegion(query) /= NotFound, ~Route(query).ambiguous
  PROVE  Route(query).domain = "global_telecom"
<1>1. ~AsksForArea(query)
  BY AreaIsAsked
<1>2. "global_telecom" \in MatchedDomains(query)
  BY Areas DEF MatchedDomains
<1> QED BY <1>1, <1>2, OneArea, AnswersAbout

(* Full confidence is kept for questions of one area that name a country.      *)
THEOREM ConfidenceNeedsACountry ==
  ASSUME NEW query, ~AsksForArea(query)
  PROVE  Route(query).confidence = "high" <=> Route(query).domain /= NotFound /\ Route(query).region /= NotFound
<1>1. Confidence(query) = "high" <=> Domain(query) /= NotFound /\ Region(query) /= NotFound
  BY DEF Confidence
<1> QED BY <1>1, AnswersAbout

(* Who asks for a direct number and not for a toll-free one is never asked     *)
(* which kind is meant.                                                        *)
THEOREM DirectNumbersAreLocal ==
  ASSUME NotFoundIsNothing, NEW query, "did" \in query.text.word, ~IsTollFree(query.text)
  PROVE  NumberType(query.text) = "local" /\ Route(query).asks /= "which number"
<1>1. NumberType(query.text) = "local"
  BY DEF NumberType, IsLocal
<1>2. Clarifies(query) /= "which number"
  BY <1>1 DEF Clarifies, NotFoundIsNothing
<1> QED BY <1>1, <1>2, AreaIsAsked, AnswersAbout

(* The row that is found is the first that fits.                               *)
LEMMA FirstIsFound ==
  ASSUME NEW table, NEW text, NEW n \in Nat, DOMAIN table = 1 .. n, NEW i \in 1 .. n, First(table, text, i)
  PROVE  Found(table, text) = table[i][2]
<1>1. ASSUME NEW j \in 1 .. n, First(table, text, j) PROVE j = i
  <2>1. ~ j < i /\ ~ i < j
    BY <1>1 DEF First
  <2> QED BY <2>1
<1>2. (CHOOSE k \in DOMAIN table : First(table, text, k)) = i
  BY <1>1
<1>3. \E k \in DOMAIN table : table[k][1] \in text.word
  BY DEF First
<1> QED BY <1>2, <1>3 DEF Found

LEMMA RegionRows == DOMAIN RegionMap = 1 .. 41 /\ RegionMap[24] = <<"in", "IN">>
<1>1. DOMAIN RegionMap = 1 .. 41
  BY DEF RegionMap
<1>2. RegionMap[24] = <<"in", "IN">>
  BY DEF RegionMap
<1> QED BY <1>1, <1>2

LEMMA AliasRows ==
  /\ DOMAIN CountryAliases = 1 .. 23
  /\ CountryAliases[8][1] = "uae" /\ CountryAliases[8][2] = "united arab emirates"
<1>1. DOMAIN CountryAliases = 1 .. 23
  BY DEF CountryAliases
<1>2. CountryAliases[8][1] = "uae" /\ CountryAliases[8][2] = "united arab emirates"
  BY DEF CountryAliases
<1> QED BY <1>1, <1>2

(* The word "in" is taken for India unless an earlier row of REGION_MAP fits:  *)
(* whatever country a question names after it is not the one that is found.    *)
THEOREM InIsIndia ==
  ASSUME NEW query, "in" \in query.text.word, \A i \in 1 .. 23 : RegionMap[i][1] \notin query.text.word
  PROVE  Region(query) = "IN"
<1>1. First(RegionMap, query.text, 24)
  <2>1. RegionMap[24][1] \in query.text.word
    BY RegionRows
  <2>2. \A j \in 1 .. 24 - 1 : RegionMap[j][1] \notin query.text.word
    OBVIOUS
  <2> QED BY <2>1, <2>2 DEF First
<1>2. Found(RegionMap, query.text) = RegionMap[24][2]
  <2>1. 24 \in 1 .. 41 /\ 41 \in Nat
    OBVIOUS
  <2> QED BY <1>1, <2>1, RegionRows, FirstIsFound
<1> QED BY <1>2, RegionRows DEF Region

Emirates == "united arab emirates"

(* The name that "uae" is expanded to contains "rate": every question about    *)
(* the Emirates is one about numbers and rates, and one that has a keyword of  *)
(* another area is asked back for its area.                                    *)
THEOREM TheEmiratesAreTelecom ==
  ASSUME NotFoundIsNothing, NEW query, "uae" \in query.replaced.word,
         Emirates \notin query.replaced.has,
         \A i \in 1 .. 7 : CountryAliases[i][1] \notin query.replaced.word
  PROVE  /\ "global_telecom" \in MatchedDomains(query)
         /\ "plan" \in query.replaced.has => Route(query).asks = "which area"
<1>1. First(CountryAliases, query.replaced, 8)
  <2>1. CountryAliases[8][1] \in query.replaced.word
    BY AliasRows
  <2>2. \A j \in 1 .. 8 - 1 : CountryAliases[j][1] \notin query.replaced.word
    OBVIOUS
  <2> QED BY <2>1, <2>2 DEF First
<1>2. Found(CountryAliases, query.replaced) = CountryAliases[8][2]
  <2>1. 8 \in 1 .. 23 /\ 23 \in Nat
    OBVIOUS
  <2> QED BY <1>1, <2>1, AliasRows, FirstIsFound
<1>3. Found(CountryAliases, query.replaced) = Emirates
  BY <1>2, AliasRows DEF Emirates
<1>4. "rate" \in ExpandQuery(query).has /\ query.replaced.has \subseteq ExpandQuery(query).has
  BY <1>3 DEF ExpandQuery, Appends, Within, NotFoundIsNothing, Emirates
<1>5. "rate" \in DomainKeywords["global_telecom"] /\ "plan" \in DomainKeywords["contact_center"]
  BY DEF DomainKeywords
<1>6. "global_telecom" \in MatchedDomains(query)
  BY <1>4, <1>5, Areas DEF MatchedDomains, LowerHas
<1>7. ASSUME "plan" \in query.replaced.has PROVE Route(query).asks = "which area"
  <2>1. "contact_center" \in MatchedDomains(query)
    BY <1>4, <1>5, <1>7, Areas DEF MatchedDomains, LowerHas
  <2>2. AsksForArea(query)
    BY <1>6, <2>1 DEF AsksForArea
  <2> QED BY <2>2, AreaIsAsked
<1> QED BY <1>6, <1>7

-----------------------------------------------------------------------------
(* What holds of the way from a message to its reply: for every message, what  *)
(* the weights of triage amount to; for every number of questions and every    *)
(* order of their answers, that each answer finds its place.                   *)

-----------------------------------------------------------------------------
(* Classification                                                              *)

(* The score of an intent is one of five.                                      *)
LEMMA ScoreRange ==
  ASSUME NEW m \in Messages, NEW i \in 1 .. 3
  PROVE  /\ Score(m, i) \in {0, 65, 80, 95}
         /\ Score(m, i) = 0 <=> m.hits[i] = 0
  BY DEF Messages, Score, AtMost

(* One of the intents is the first of the highest score.                       *)
LEMMA BestExists ==
  ASSUME NEW m \in Messages
  PROVE  \E i \in 1 .. 3 : Best(m, i)
<1> DEFINE a == Score(m, 1)
           b == Score(m, 2)
           c == Score(m, 3)
<1>1. a \in Nat /\ b \in Nat /\ c \in Nat
  BY ScoreRange
<1> HIDE DEF a, b, c
<1>2. CASE b <= a /\ c <= a
  BY <1>1, <1>2 DEF Best, a, b, c
<1>3. CASE a < b /\ c <= b
  BY <1>1, <1>3 DEF Best, a, b, c
<1>4. CASE a < c /\ b < c
  BY <1>1, <1>4 DEF Best, a, b, c
<1> QED BY <1>1, <1>2, <1>3, <1>4

(* What classification returns.                                                *)
LEMMA Classes ==
  ASSUME NEW m \in Messages
  PROVE  /\ Foreign(m) => Classify(m) = [intent |-> "language_barrier", confidence |-> 90]
         /\ ~Foreign(m) /\ NoKeyword(m) => Classify(m) = [intent |-> "general_question", confidence |-> 40]
         /\ ~Foreign(m) /\ ~NoKeyword(m) =>
              /\ Classify(m).intent \in {"product_inquiry", "complaint", "purchase_intent"}
              /\ Classify(m).confidence \in {65, 80, 95}
<1>1. ASSUME ~Foreign(m), ~NoKeyword(m)
      PROVE  /\ Classify(m).intent \in {"product_inquiry", "complaint", "purchase_intent"}
             /\ Classify(m).confidence \in {65, 80, 95}
  <2> DEFINE best == CHOOSE i \in 1 .. 3 : Best(m, i)
  <2>1. best \in 1 .. 3 /\ Best(m, best)
    BY BestExists
  <2>2. PICK j \in 1 .. 3 : m.hits[j] /= 0
    BY <1>1 DEF NoKeyword
  <2>3. Score(m, j) <= Score(m, best)
    BY <2>1, <2>2 DEF Best
  <2>4. Classify(m) = [intent |-> Keyworded[best], confidence |-> Score(m, best)]
    BY <1>1 DEF Classify
  <2> HIDE DEF best
  <2>5. Score(m, best) \in {65, 80, 95}
    BY <2>1, <2>2, <2>3, ScoreRange
  <2>6. Keyworded[best] \in {"product_inquiry", "complaint", "purchase_intent"}
    BY <2>1 DEF Keyworded
  <2> QED BY <2>4, <2>5, <2>6
<1> QED BY <1>1 DEF Classify

(* Whatever a message says, the router is never so unsure that it overrides    *)
(* the classification, and it notifies the operator of exactly the messages    *)
(* that have no keyword and are in a language the service speaks: one keyword  *)
(* is enough for it to be sure, though the docstring has it notify below 0.8   *)
(* (model_router.py:149-178).                                                  *)
THEOREM RouterIsSureOfKeywords ==
  ASSUME NEW m \in Messages
  PROVE  /\ MessageRoute(m).role = RouteTo[Classify(m).intent]
         /\ MessageRoute(m).notice <=> NoKeyword(m) /\ ~Foreign(m)
<1>1. Classify(m).confidence \in {40, 65, 80, 90, 95} /\ (Classify(m).confidence = 40 <=> NoKeyword(m) /\ ~Foreign(m))
  BY Classes
<1> DEFINE c == Classify(m)
<1>2. ~(c.confidence < 30)
  BY <1>1
<1>3. MessageRoute(m).role = RouteTo[c.intent] /\ MessageRoute(m).notice = (c.confidence < 60)
  BY <1>2 DEF MessageRoute, Low, Medium
<1> DEFINE k == c.confidence
<1>4. k \in {40, 65, 80, 90, 95} /\ (k = 40 <=> NoKeyword(m) /\ ~Foreign(m))
  BY <1>1
<1> HIDE DEF k
<1>5. k < 60 <=> k = 40
  BY <1>4
<1> QED BY <1>3, <1>4, <1>5 DEF k

(* Exactly the messages with a keyword, in a language the service speaks, are  *)
(* answered by the slow model and get a placeholder                            *)
(* (model_router.py:189-195).                                                  *)
THEOREM KeywordsArePlaceheld ==
  ASSUME NEW m \in Messages
  PROVE  UsesPlaceholder(m) <=> ~NoKeyword(m) /\ ~Foreign(m)
<1>1. Classify(m).confidence \in {40, 65, 80, 90, 95}
  BY Classes
<1>2. UsesPlaceholder(m) <=> ModelTier[Classify(m).intent] = "slow"
  BY <1>1 DEF UsesPlaceholder, MessageRoute, Low
<1>3. Classify(m).intent \in {"product_inquiry", "complaint", "purchase_intent"} <=> ~NoKeyword(m) /\ ~Foreign(m)
  BY Classes
<1>4. Classify(m).intent \in {"product_inquiry", "complaint", "purchase_intent", "language_barrier", "general_question"}
  BY Classes
<1> QED BY <1>2, <1>3, <1>4 DEF ModelTier

-----------------------------------------------------------------------------
(* Triage                                                                      *)

(* The parts of the votes, as numbers.                                         *)
LEMMA SignalRanges ==
  ASSUME NEW m \in Messages, NEW h \in Histories
  PROVE  /\ Classify(m).confidence \in {40, 65, 80, 90, 95}
         /\ LengthConfidence(m) \in {20, 50, 80, 90}
         /\ LanguageConfidence(m) \in {50, 70, 95}
         /\ UrgencyConfidence(m) \in {50, 70, 90, 95}
         /\ HistoryConfidence(h) \in {50, 70, 80}
         /\ Foreign(m) <=> LanguageConfidence(m) = 95
         /\ m.urgent = 0 => UrgencyConfidence(m) = 50
         /\ m.urgent = 1 => UrgencyConfidence(m) = 70
         /\ m.urgent = 2 => UrgencyConfidence(m) = 90
         /\ m.urgent > 2 => UrgencyConfidence(m) = 95
         /\ m.length < 5 <=> LengthConfidence(m) = 20
         /\ m.length < 20 <=> LengthConfidence(m) \in {20, 50}
<1>1. m.length \in Nat /\ m.urgent \in Nat /\ m.language \in {"unknown", "zh", "en", "other"}
  BY DEF Messages, Languages
<1>2. Classify(m).confidence \in {40, 65, 80, 90, 95}
  BY Classes
<1>3. /\ LengthConfidence(m) \in {20, 50, 80, 90}
      /\ m.length < 5 <=> LengthConfidence(m) = 20
      /\ m.length < 20 <=> LengthConfidence(m) \in {20, 50}
  <2> DEFINE n == m.length
  <2>1. n \in Nat
    BY <1>1
  <2>2. CASE n < 5
    BY <2>1, <2>2 DEF LengthConfidence
  <2>3. CASE n >= 5 /\ n < 20
    BY <2>1, <2>3 DEF LengthConfidence
  <2>4. CASE n >= 20 /\ n < 100
    BY <2>1, <2>4 DEF LengthConfidence
  <2>5. CASE n >= 100
    BY <2>1, <2>5 DEF LengthConfidence
  <2> QED BY <2>1, <2>2, <2>3, <2>4, <2>5
<1>4. LanguageConfidence(m) \in {50, 70, 95} /\ (Foreign(m) <=> LanguageConfidence(m) = 95)
  BY <1>1 DEF LanguageConfidence, Foreign
<1>5. /\ UrgencyConfidence(m) \in {50, 70, 90, 95}
      /\ m.urgent = 0 => UrgencyConfidence(m) = 50
      /\ m.urgent = 1 => UrgencyConfidence(m) = 70
      /\ m.urgent = 2 => UrgencyConfidence(m) = 90
      /\ m.urgent > 2 => UrgencyConfidence(m) = 95
  BY <1>1 DEF UrgencyConfidence, AtMost
<1>6. HistoryConfidence(h) \in {50, 70, 80}
  BY DEF HistoryConfidence
<1> QED BY <1>2, <1>3, <1>4, <1>5, <1>6

(* Only urgency votes against what the keywords suggest, and never outvotes it.*)
LEMMA VotesAdd ==
  ASSUME NEW m \in Messages, NEW h \in Histories
  PROVE  LET base == Classify(m).intent
             others == 35 * Classify(m).confidence + 10 * LengthConfidence(m)
                       + 15 * LanguageConfidence(m) + 10 * HistoryConfidence(h)
         IN  /\ LanguageIntent(m) = base
             /\ Voted(m) = {base, UrgencyIntent(m)}
             /\ UrgencyIntent(m) = base => Vote(m, h, base) = others + 20 * UrgencyConfidence(m)
             /\ UrgencyIntent(m) /= base => /\ Vote(m, h, base) = others
                                            /\ Vote(m, h, UrgencyIntent(m)) = 20 * UrgencyConfidence(m)
             /\ others >= 2850
<1> DEFINE base == Classify(m).intent
           k == Classify(m).confidence
           l == LengthConfidence(m)
           g == LanguageConfidence(m)
           u == UrgencyConfidence(m)
           p == HistoryConfidence(h)
           others == 35 * k + 10 * l + 15 * g + 10 * p
<1>1. LanguageIntent(m) = base
  BY Classes DEF LanguageIntent
<1>2. Voted(m) = {base, UrgencyIntent(m)}
  BY <1>1 DEF Voted
<1>3. k \in {40, 65, 80, 90, 95} /\ l \in {20, 50, 80, 90} /\ g \in {50, 70, 95} /\ u \in {50, 70, 90, 95} /\ p \in {50, 70, 80}
  BY SignalRanges
<1>4. Vote(m, h, base) = 35 * k + 10 * l + 15 * g + (IF UrgencyIntent(m) = base THEN 20 * u ELSE 0) + 10 * p
  BY <1>1 DEF Vote, Votes
<1>5. UrgencyIntent(m) /= base => Vote(m, h, UrgencyIntent(m)) = 0 + 0 + 0 + 20 * u + 0
  BY <1>1 DEF Vote, Votes
<1> HIDE DEF base, k, l, g, u, p
<1>6. others >= 2850
  BY <1>3
<1>7. UrgencyIntent(m) = base => Vote(m, h, base) = others + 20 * u
  BY <1>3, <1>4
<1>8. UrgencyIntent(m) /= base => Vote(m, h, base) = others /\ Vote(m, h, UrgencyIntent(m)) = 20 * u
  BY <1>3, <1>4, <1>5
<1> QED BY <1>1, <1>2, <1>6, <1>7, <1>8 DEF base, k, l, g, u, p

LEMMA KeywordsWin ==
  ASSUME NEW m \in Messages, NEW h \in Histories
  PROVE  Winner(m, h) = Classify(m).intent
<1> DEFINE base == Classify(m).intent
           u == UrgencyConfidence(m)
<1>1. u \in {50, 70, 90, 95}
  BY SignalRanges
<1>2. Vote(m, h, base) \in Nat
  BY VotesAdd, SignalRanges
<1>3. UrgencyIntent(m) /= base => Vote(m, h, UrgencyIntent(m)) < Vote(m, h, base)
  <2>1. UrgencyIntent(m) /= base => Vote(m, h, UrgencyIntent(m)) = 20 * u /\ Vote(m, h, base) >= 2850
    BY VotesAdd
  <2> HIDE DEF u, base
  <2> QED BY <1>1, <1>2, <2>1
<1>4. Voted(m) = {base, UrgencyIntent(m)}
  BY VotesAdd
<1>5. Wins(m, h, base)
  <2>1. Vote(m, h, base) <= Vote(m, h, base)
    BY <1>2
  <2>2. UrgencyIntent(m) /= base => Vote(m, h, UrgencyIntent(m)) <= Vote(m, h, base)
    <3>1. UrgencyIntent(m) /= base => Vote(m, h, UrgencyIntent(m)) = 20 * u
      BY VotesAdd
    <3> HIDE DEF u, base
    <3> QED BY <1>1, <1>2, <1>3, <3>1
  <2>3. \A other \in Voted(m) : Vote(m, h, other) <= Vote(m, h, base)
    <3> SUFFICES ASSUME NEW other \in Voted(m) PROVE Vote(m, h, other) <= Vote(m, h, base)
      OBVIOUS
    <3>1. other = base \/ (other = UrgencyIntent(m) /\ UrgencyIntent(m) /= base)
      BY <1>4
    <3> QED BY <2>1, <2>2, <3>1
  <2>4. base \in Voted(m)
    BY <1>4
  <2> QED BY <2>3, <2>4 DEF Wins
<1>6. \A intent \in Voted(m) : Wins(m, h, intent) => intent = base
  <2> SUFFICES ASSUME NEW intent \in Voted(m), intent /= base, Wins(m, h, intent) PROVE FALSE
    OBVIOUS
  <2>1. intent = UrgencyIntent(m) /\ Vote(m, h, intent) < Vote(m, h, base)
    BY <1>3, <1>4
  <2>2. Vote(m, h, base) <= Vote(m, h, intent)
    BY <1>4 DEF Wins
  <2>3. Vote(m, h, intent) \in Int
    BY <2>1, <1>1, VotesAdd
  <2> QED BY <1>2, <2>1, <2>2, <2>3
<1>7. base \in Voted(m)
  BY <1>4
<1> HIDE DEF base
<1> QED BY <1>5, <1>6, <1>7 DEF Winner, base

(* What triage decides: two urgency markers make a complaint of anything;      *)
(* otherwise the intent is what the keywords, or the language, suggest.  The   *)
(* length of the message, the history and a single urgency marker are weighed  *)
(* but never decide (triage.py:183-211).                                       *)
THEOREM UrgencyOrKeywordsDecide ==
  ASSUME NEW m \in Messages, NEW h \in Histories
  PROVE  FinalIntent(m, h) = IF m.urgent >= 2 THEN "complaint" ELSE Classify(m).intent
<1>1. m.urgent \in Nat
  BY DEF Messages
<1>2. m.urgent >= 2 => UrgencyConfidence(m) > 70
  <2>1. m.urgent >= 2 => UrgencyConfidence(m) = 90 \/ UrgencyConfidence(m) = 95
    BY <1>1, SignalRanges
  <2> QED BY <2>1
<1>3. LanguageIntent(m) = Classify(m).intent
  BY VotesAdd
<1>4. CASE m.urgent >= 2
  BY <1>2, <1>4 DEF FinalIntent
<1>5. CASE ~(m.urgent >= 2)
  BY <1>3, <1>5, KeywordsWin DEF FinalIntent
<1> QED BY <1>4, <1>5

(* A message is seen as mixed only because of urgency markers: keywords of     *)
(* several intents never make it so (triage.py:183-189).                       *)
THEOREM OnlyUrgencyIsMixed ==
  ASSUME NEW m \in Messages, NEW h \in Histories, MultiIntent(m, h)
  PROVE  m.urgent >= 2 /\ Classify(m).intent /= "complaint"
<1> DEFINE base == Classify(m).intent
           u == UrgencyConfidence(m)
<1>1. PICK other \in Voted(m) : other /= base /\ 2 * Vote(m, h, other) > Vote(m, h, base)
  BY KeywordsWin DEF MultiIntent
<1>2. other = UrgencyIntent(m) /\ UrgencyIntent(m) /= base
  BY <1>1, VotesAdd
<1>3. Vote(m, h, other) = 20 * u /\ Vote(m, h, base) >= 2850 /\ Vote(m, h, base) \in Nat
  <2>1. Vote(m, h, other) = 20 * u /\ Vote(m, h, base) >= 2850
    BY <1>2, VotesAdd
  <2>2. Vote(m, h, base) \in Nat
    BY VotesAdd, SignalRanges
  <2> QED BY <2>1, <2>2
<1>4. u \in {50, 70, 90, 95}
  BY SignalRanges
<1> HIDE DEF u, base
<1>5. u \in {90, 95}
  BY <1>1, <1>3, <1>4
<1>6. m.urgent \in Nat
  BY DEF Messages
<1>7. m.urgent >= 2
  BY <1>5, <1>6, SignalRanges DEF u
<1> QED BY <1>2, <1>7 DEF UrgencyIntent, base

(* The model is asked again only about messages that say next to nothing: no   *)
(* keyword, fewer than twenty characters; and with urgency markers only if     *)
(* there are exactly two of them in fewer than five characters: one is sure to *)
(* be a question, three are sure to be urgent (triage.py:198-226).             *)
THEOREM FallbackOnlyWhenUnclear ==
  ASSUME NEW m \in Messages, NEW h \in Histories, Triage(m, h).fallback
  PROVE  /\ NoKeyword(m) /\ ~Foreign(m) /\ m.length < 20
         /\ m.urgent = 0 \/ (m.urgent = 2 /\ m.length < 5)
<1> DEFINE k == Classify(m).confidence
           l == LengthConfidence(m)
           g == LanguageConfidence(m)
           u == UrgencyConfidence(m)
           p == HistoryConfidence(h)
           x == IF MultiIntent(m, h) THEN 30 ELSE 80
<1>1. k \in {40, 65, 80, 90, 95} /\ l \in {20, 50, 80, 90} /\ g \in {50, 70, 95} /\ u \in {50, 70, 90, 95} /\ p \in {50, 70, 80}
  BY SignalRanges
<1>2. x \in {30, 80} /\ (x = 30 => u \in {90, 95})
  <2>1. m.urgent \in Nat
    BY DEF Messages
  <2> QED BY <2>1, OnlyUrgencyIsMixed, SignalRanges
<1>3. 35 * k + 10 * l + 15 * g + 20 * u + 10 * p + 10 * x < 5000
  BY DEF Triage, TriageConfidence
<1>4. g = 95 => k = 90
  BY SignalRanges, Classes
<1>5. k = 40 /\ (l = 20 \/ l = 50) /\ (u = 50 \/ (u = 90 /\ l = 20))
  <2> HIDE DEF k, l, g, u, p, x
  <2>1. k = 40
    BY <1>1, <1>2, <1>3, <1>4
  <2>2. l = 20 \/ l = 50
    BY <1>1, <1>2, <1>3, <2>1
  <2>3. u = 50 \/ (u = 90 /\ l = 20)
    BY <1>1, <1>2, <1>3, <2>1, <2>2
  <2> QED BY <2>1, <2>2, <2>3
<1>6. NoKeyword(m) /\ ~Foreign(m)
  BY <1>5, Classes
<1>7. m.length < 20 /\ (l = 20 => m.length < 5)
  BY <1>5, SignalRanges
<1>8. u = 50 => m.urgent = 0
  <2>1. m.urgent \in Nat
    BY DEF Messages
  <2> QED BY <2>1, SignalRanges
<1>9. u = 90 => m.urgent = 2
  <2>1. m.urgent \in Nat
    BY DEF Messages
  <2> QED BY <2>1, SignalRanges
<1> QED BY <1>5, <1>6, <1>7, <1>8, <1>9

-----------------------------------------------------------------------------
(* Mood                                                                        *)

(* A mood that is flagged is worse than the one before.  The first message of  *)
(* a conversation is never flagged, though detect_deterioration flags anger    *)
(* there: the flow does not ask it when there is no mood before                *)
(* (placeholder_stream.py:150, 193; sentiment.py:104-105).                     *)
THEOREM FirstAngerIsNotFlagged ==
  ASSUME NEW mood \in Moods \cup {"none"}, NEW previous \in Moods \cup {"none"}
  PROVE  /\ Deteriorated(mood, previous) => previous /= "none" /\ Severity[mood] > Severity[previous]
         /\ DetectDeterioration("angry", "none") /\ ~Deteriorated("angry", "none")
  BY DEF Deteriorated, DetectDeterioration

-----------------------------------------------------------------------------
(* The replies of a conversation                                               *)

(* A flow that waits for the slow model knows where its placeholder is.        *)
PlaceholdersKnown ==
  \A q \in Questions : Slow(q) /\ phase[q] \in {"waiting", "failed"} =>
    /\ place[q] \in DOMAIN shown
    /\ shown[place[q]] = [to |-> q, text |-> "placeholder"]

(* What is shown is the reply of a question, as far as it has come.            *)
ShownFits ==
  \A i \in DOMAIN shown :
    LET q == shown[i].to IN
    IF shown[i].text = "answer" THEN phase[q] = "answered"
    ELSE Slow(q) /\ phase[q] \in {"waiting", "failed"}

AnsweredShown ==
  \A q \in Questions : phase[q] = "answered" => \E i \in DOMAIN shown : shown[i] = [to |-> q, text |-> "answer"]

OneReply == \A i, j \in DOMAIN shown : shown[i].to = shown[j].to => i = j

RepliesIInv == RepliesTypeOK /\ PlaceholdersKnown /\ ShownFits /\ AnsweredShown /\ OneReply

Reply == [to : Questions, text : {"placeholder", "answer"}]

LEMMA ShownAreReplies ==
  ASSUME RepliesTypeOK
  PROVE  /\ \A i \in DOMAIN shown : shown[i] \in Reply /\ shown[i].to \in Questions
         /\ DOMAIN shown = 1 .. Len(shown) /\ Len(shown) \in Nat
<1>1. shown \in Seq(Reply)
  BY DEF RepliesTypeOK, Reply
<1>2. DOMAIN shown = 1 .. Len(shown) /\ Len(shown) \in Nat
  BY <1>1
<1>3. \A i \in DOMAIN shown : shown[i] \in Reply
  <2> TAKE i \in DOMAIN shown
  <2>1. i \in 1 .. Len(shown)
    BY <1>2
  <2> QED BY <1>1, <2>1
<1>4. \A r \in Reply : r.to \in Questions
  BY DEF Reply
<1> QED BY <1>2, <1>3, <1>4

(* Another reply is shown.                                                     *)
LEMMA Shown ==
  ASSUME RepliesTypeOK, NEW q \in Questions, NEW text \in {"placeholder", "answer"}, Shows(text, q)
  PROVE  /\ shown' \in Seq(Reply) /\ DOMAIN shown' = DOMAIN shown \cup {Len(shown) + 1}
         /\ Len(shown) + 1 \notin DOMAIN shown /\ Len(shown) + 1 \in Nat
         /\ shown'[Len(shown) + 1] = [to |-> q, text |-> text]
         /\ \A i \in DOMAIN shown : shown'[i] = shown[i]
<1> DEFINE r == [to |-> q, text |-> text]
<1>1. r \in Reply /\ shown \in Seq(Reply) /\ shown' = Append(shown, r)
  BY DEF RepliesTypeOK, Shows, Reply
<1> HIDE DEF r
<1>2. shown' \in Seq(Reply) /\ Len(shown') = Len(shown) + 1 /\ Len(shown) \in Nat
  BY <1>1
<1>3. DOMAIN shown = 1 .. Len(shown) /\ DOMAIN shown' = 1 .. Len(shown) + 1
  BY <1>1, <1>2
<1>4. \A i \in 1 .. Len(shown) : shown'[i] = shown[i]
  BY <1>1
<1>5. shown'[Len(shown) + 1] = r
  BY <1>1
<1> QED BY <1>2, <1>3, <1>4, <1>5 DEF r

(* A placeholder is replaced.                                                  *)
LEMMA Replaced ==
  ASSUME RepliesTypeOK, NEW q \in Questions, NEW n \in DOMAIN shown, shown[n].to = q,
         shown' = [shown EXCEPT ![n].text = "answer"]
  PROVE  /\ shown' \in Seq(Reply) /\ DOMAIN shown' = DOMAIN shown
         /\ shown'[n] = [to |-> q, text |-> "answer"]
         /\ \A i \in DOMAIN shown : i /= n => shown'[i] = shown[i]
<1>1. shown \in Seq(Reply) /\ shown[n] \in Reply
  <2>1. shown \in Seq(Reply)
    BY DEF RepliesTypeOK, Reply
  <2> QED BY <2>1, ShownAreReplies
<1> DEFINE r == [shown[n] EXCEPT !.text = "answer"]
<1>2. r = [to |-> q, text |-> "answer"] /\ r \in Reply
  BY <1>1 DEF Reply
<1>3. shown' = [shown EXCEPT ![n] = r]
  OBVIOUS
<1> HIDE DEF r
<1>4. DOMAIN shown = 1 .. Len(shown) /\ Len(shown) \in Nat
  BY ShownAreReplies
<1>5. DOMAIN shown' = DOMAIN shown /\ shown'[n] = r /\ \A i \in DOMAIN shown : i /= n => shown'[i] = shown[i]
  BY <1>3
<1>6. \A i \in DOMAIN shown : shown'[i] \in Reply
  BY <1>2, <1>5, ShownAreReplies
<1>7. shown' = [i \in 1 .. Len(shown) |-> shown'[i]]
  BY <1>3, <1>4
<1>8. shown' \in [1 .. Len(shown) -> Reply]
  BY <1>4, <1>6, <1>7
<1>9. shown' \in Seq(Reply)
  <2>1. \E len \in Nat : shown' \in [1 .. len -> Reply]
    BY <1>4, <1>8
  <2> DEFINE t == shown'
             R == Reply
  <2>2. t \in UNION {[1 .. len -> R] : len \in Nat}
    BY <2>1, Zenon
  <2>3. UNION {[1 .. len -> R] : len \in Nat} = Seq(R)
    BY SeqDef, Zenon
  <2> HIDE DEF t, R
  <2>4. t \in Seq(R)
    BY <2>2, <2>3
  <2> QED BY <2>4 DEF t, R
<1> QED BY <1>2, <1>5, <1>9

LEMMA RepliesInitially == RepliesInit => RepliesIInv
  BY DEF RepliesInit, RepliesIInv, RepliesTypeOK, PlaceholdersKnown, ShownFits, AnsweredShown, OneReply

LEMMA HandleKeeps ==
  ASSUME RepliesIInv, NEW q \in Questions, HandleCustomerMessage(q)
  PROVE  RepliesIInv'
<1>1. /\ phase[q] = "new" /\ phase'[q] = "waiting"
      /\ \A o \in Questions : o /= q => phase'[o] = phase[o]
      /\ phase' \in [Questions -> {"new", "waiting", "answered", "failed"}]
  BY DEF RepliesIInv, RepliesTypeOK, HandleCustomerMessage
<1>2. \A i \in DOMAIN shown : shown[i].to /= q /\ shown[i].to \in Questions
  <2>1. \A i \in DOMAIN shown : shown[i].to \in Questions
    BY ShownAreReplies DEF RepliesIInv
  <2> QED BY <1>1, <2>1 DEF RepliesIInv, ShownFits
<1>3. CASE Slow(q)
  <2> DEFINE n == Len(shown) + 1
  <2>1. Shows("placeholder", q) /\ place' = [place EXCEPT ![q] = n]
    BY <1>3 DEF HandleCustomerMessage
  <2>2. /\ shown' \in Seq(Reply) /\ DOMAIN shown' = DOMAIN shown \cup {n} /\ n \notin DOMAIN shown /\ n \in Nat
        /\ shown'[n] = [to |-> q, text |-> "placeholder"]
        /\ \A i \in DOMAIN shown : shown'[i] = shown[i]
    BY <2>1, Shown DEF RepliesIInv
  <2> HIDE DEF n
  <2>3. place' \in [Questions -> Nat] /\ place'[q] = n /\ \A o \in Questions : o /= q => place'[o] = place[o]
    BY <2>1, <2>2 DEF RepliesIInv, RepliesTypeOK
  <2>4. RepliesTypeOK'
    BY <1>1, <2>2, <2>3 DEF RepliesTypeOK, Reply
  <2>5. PlaceholdersKnown'
    BY <1>1, <2>2, <2>3 DEF RepliesIInv, PlaceholdersKnown, Slow
  <2>6. ShownFits'
    BY <1>1, <1>2, <1>3, <2>2 DEF RepliesIInv, ShownFits, Slow
  <2>7. AnsweredShown'
    BY <1>1, <2>2 DEF RepliesIInv, AnsweredShown
  <2>8. OneReply'
    BY <1>2, <2>2 DEF RepliesIInv, OneReply
  <2> QED BY <2>4, <2>5, <2>6, <2>7, <2>8 DEF RepliesIInv
<1>4. CASE ~Slow(q)
  <2>1. place' = place /\ shown' = shown
    BY <1>4 DEF HandleCustomerMessage
  <2>2. RepliesTypeOK'
    BY <1>1, <2>1 DEF RepliesIInv, RepliesTypeOK
  <2>3. PlaceholdersKnown'
    BY <1>1, <1>4, <2>1 DEF RepliesIInv, PlaceholdersKnown, Slow
  <2>4. ShownFits'
    BY <1>1, <1>2, <2>1 DEF RepliesIInv, ShownFits, Slow
  <2>5. AnsweredShown' /\ OneReply'
    BY <1>1, <2>1 DEF RepliesIInv, AnsweredShown, OneReply
  <2> QED BY <2>2, <2>3, <2>4, <2>5 DEF RepliesIInv
<1> QED BY <1>3, <1>4

LEMMA AnswerKeeps ==
  ASSUME RepliesIInv, NEW q \in Questions, Answers(q)
  PROVE  RepliesIInv'
<1>1. /\ phase[q] = "waiting" /\ phase'[q] = "answered" /\ place' = place
      /\ \A o \in Questions : o /= q => phase'[o] = phase[o]
      /\ phase' \in [Questions -> {"new", "waiting", "answered", "failed"}]
  BY DEF RepliesIInv, RepliesTypeOK, Answers
<1>2. \A i \in DOMAIN shown : shown[i] \in Reply
  BY ShownAreReplies DEF RepliesIInv
<1>3. CASE Slow(q)
  <2>0. place[q] \in DOMAIN shown /\ shown[place[q]] = [to |-> q, text |-> "placeholder"]
    BY <1>1, <1>3 DEF RepliesIInv, PlaceholdersKnown
  <2> PICK n \in DOMAIN shown : n = place[q]
    BY <2>0
  <2>1. n \in DOMAIN shown /\ shown[n] = [to |-> q, text |-> "placeholder"] /\ shown[n].to = q
    BY <2>0
  <2>2. shown' = [shown EXCEPT ![n].text = "answer"]
    BY <1>3 DEF Answers
  <2>3. /\ shown' \in Seq(Reply) /\ DOMAIN shown' = DOMAIN shown
        /\ shown'[n] = [to |-> q, text |-> "answer"]
        /\ \A i \in DOMAIN shown : i /= n => shown'[i] = shown[i]
    BY <2>1, <2>2, Replaced DEF RepliesIInv
  <2>4. \A i \in DOMAIN shown : i /= n => shown[i].to /= q /\ shown[i].to \in Questions
    BY <1>2, <2>1 DEF RepliesIInv, OneReply, Reply
  <2>5. RepliesTypeOK'
    BY <1>1, <2>3 DEF RepliesIInv, RepliesTypeOK, Reply
  <2>6. PlaceholdersKnown'
    <3> SUFFICES ASSUME NEW o \in Questions, Slow(o), phase'[o] \in {"waiting", "failed"}
                 PROVE  place'[o] \in DOMAIN shown' /\ shown'[place'[o]] = [to |-> o, text |-> "placeholder"]
      BY DEF PlaceholdersKnown, Slow
    <3>1. o /= q /\ phase[o] \in {"waiting", "failed"}
      BY <1>1
    <3>2. place[o] \in DOMAIN shown /\ shown[place[o]] = [to |-> o, text |-> "placeholder"]
      BY <3>1 DEF RepliesIInv, PlaceholdersKnown
    <3>3. place[o] /= n
      BY <2>1, <3>1, <3>2
    <3> QED BY <1>1, <2>3, <3>2, <3>3
  <2>7. ShownFits'
    BY <1>1, <2>3, <2>4 DEF RepliesIInv, ShownFits, Slow
  <2>8. AnsweredShown'
    <3> SUFFICES ASSUME NEW o \in Questions, phase'[o] = "answered"
                 PROVE  \E i \in DOMAIN shown' : shown'[i] = [to |-> o, text |-> "answer"]
      BY DEF AnsweredShown
    <3>1. CASE o = q
      BY <2>1, <2>3, <3>1
    <3>2. CASE o /= q
      <4>1. PICK i \in DOMAIN shown : shown[i] = [to |-> o, text |-> "answer"]
        BY <1>1, <3>2 DEF RepliesIInv, AnsweredShown
      <4>2. i /= n
        BY <2>1, <3>2, <4>1
      <4> QED BY <2>3, <4>1, <4>2
    <3> QED BY <3>1, <3>2
  <2>9. OneReply'
    BY <2>1, <2>3, <2>4 DEF RepliesIInv, OneReply
  <2> QED BY <2>5, <2>6, <2>7, <2>8, <2>9 DEF RepliesIInv
<1>4. CASE ~Slow(q)
  <2> DEFINE n == Len(shown) + 1
  <2>1. Shows("answer", q)
    BY <1>4 DEF Answers
  <2>2. /\ shown' \in Seq(Reply) /\ DOMAIN shown' = DOMAIN shown \cup {n} /\ n \notin DOMAIN shown /\ n \in Nat
        /\ shown'[n] = [to |-> q, text |-> "answer"]
        /\ \A i \in DOMAIN shown : shown'[i] = shown[i]
    BY <2>1, Shown DEF RepliesIInv
  <2> HIDE DEF n
  <2>3. \A i \in DOMAIN shown : shown[i].to /= q /\ shown[i].to \in Questions
    BY <1>1, <1>2, <1>4 DEF RepliesIInv, ShownFits, Reply
  <2>4. RepliesTypeOK'
    BY <1>1, <2>2 DEF RepliesIInv, RepliesTypeOK, Reply
  <2>5. PlaceholdersKnown'
    BY <1>1, <1>4, <2>2 DEF RepliesIInv, PlaceholdersKnown, Slow
  <2>6. ShownFits'
    BY <1>1, <2>2, <2>3 DEF RepliesIInv, ShownFits, Slow
  <2>7. AnsweredShown'
    <3> SUFFICES ASSUME NEW o \in Questions, phase'[o] = "answered"
                 PROVE  \E i \in DOMAIN shown' : shown'[i] = [to |-> o, text |-> "answer"]
      BY DEF AnsweredShown
    <3>1. CASE o = q
      BY <2>2, <3>1
    <3>2. CASE o /= q
      <4>1. PICK i \in DOMAIN shown : shown[i] = [to |-> o, text |-> "answer"]
        BY <1>1, <3>2 DEF RepliesIInv, AnsweredShown
      <4> QED BY <2>2, <4>1
    <3> QED BY <3>1, <3>2
  <2>8. OneReply'
    BY <2>2, <2>3 DEF RepliesIInv, OneReply
  <2> QED BY <2>4, <2>5, <2>6, <2>7, <2>8 DEF RepliesIInv
<1> QED BY <1>3, <1>4

LEMMA FailureKeeps ==
  ASSUME RepliesIInv, NEW q \in Questions, Fails(q)
  PROVE  RepliesIInv'
<1>1. /\ phase[q] = "waiting" /\ phase'[q] = "failed" /\ place' = place /\ shown' = shown
      /\ \A o \in Questions : o /= q => phase'[o] = phase[o]
      /\ phase' \in [Questions -> {"new", "waiting", "answered", "failed"}]
  BY DEF RepliesIInv, RepliesTypeOK, Fails
<1>2. \A i \in DOMAIN shown : shown[i].to \in Questions
  BY ShownAreReplies DEF RepliesIInv
<1>3. RepliesTypeOK'
  BY <1>1 DEF RepliesIInv, RepliesTypeOK
<1>4. PlaceholdersKnown'
  BY <1>1 DEF RepliesIInv, PlaceholdersKnown, Slow
<1>5. ShownFits'
  BY <1>1, <1>2 DEF RepliesIInv, ShownFits, Slow
<1>6. AnsweredShown' /\ OneReply'
  BY <1>1 DEF RepliesIInv, AnsweredShown, OneReply
<1> QED BY <1>3, <1>4, <1>5, <1>6 DEF RepliesIInv

LEMMA RepliesStepKeeps == RepliesIInv /\ [RepliesNext]_replies_vars => RepliesIInv'
<1>1. ASSUME RepliesIInv, UNCHANGED replies_vars PROVE RepliesIInv'
  BY <1>1 DEF RepliesIInv, RepliesTypeOK, PlaceholdersKnown, ShownFits, AnsweredShown, OneReply, replies_vars, Slow
<1> QED BY <1>1, HandleKeeps, AnswerKeeps, FailureKeeps DEF RepliesNext

LEMMA RepliesInvariant == RepliesSpec => []RepliesIInv
  BY RepliesInitially, RepliesStepKeeps, PTL DEF RepliesSpec

(* However the flows of a conversation alternate and whichever models fail, no *)
(* question gets two replies, an answered one shows its answer, and what still *)
(* shows a placeholder is waiting for a slow model or has lost it              *)
(* (placeholder_stream.py:116-215).                                            *)
THEOREM RepliesFindTheirPlace == RepliesSpec => []RepliesMatch
<1>1. RepliesIInv => RepliesMatch
  <2> SUFFICES ASSUME RepliesIInv, NEW q \in Questions
               PROVE  /\ phase[q] = "answered" <=> \E i \in DOMAIN shown : shown[i] = [to |-> q, text |-> "answer"]
                      /\ Slow(q) /\ phase[q] \in {"waiting", "failed"}
                           <=> \E i \in DOMAIN shown : shown[i] = [to |-> q, text |-> "placeholder"]
    BY DEF RepliesMatch, RepliesIInv, OneReply
  <2>1. \A i \in DOMAIN shown : shown[i] = [to |-> q, text |-> "answer"] => phase[q] = "answered"
    BY DEF RepliesIInv, ShownFits
  <2>2. \A i \in DOMAIN shown : shown[i] = [to |-> q, text |-> "placeholder"]
                                   => Slow(q) /\ phase[q] \in {"waiting", "failed"}
    BY DEF RepliesIInv, ShownFits
  <2> QED BY <2>1, <2>2 DEF RepliesIInv, AnsweredShown, PlaceholdersKnown
<1> QED BY <1>1, RepliesInvariant, PTL

(* An answer stays as it is, whatever arrives after it                         *)
(* (placeholder_stream.py:197-202).                                            *)
THEOREM AnswersAreFinal == RepliesSpec => AnswersStand
<1> DEFINE Stands == \A i \in DOMAIN shown :
             /\ i \in DOMAIN shown' /\ shown'[i].to = shown[i].to
             /\ shown[i].text = "answer" => shown'[i] = shown[i]
<1>1. RepliesIInv /\ [RepliesNext]_replies_vars => [Stands]_replies_vars
  <2> SUFFICES ASSUME RepliesIInv, RepliesNext PROVE Stands
    OBVIOUS
  <2>1. ASSUME UNCHANGED shown PROVE Stands
    BY <2>1
  <2>2. ASSUME NEW q \in Questions, NEW text \in {"placeholder", "answer"}, Shows(text, q) PROVE Stands
    BY <2>2, Shown DEF RepliesIInv
  <2>3. ASSUME NEW q \in Questions, Answers(q), Slow(q) PROVE Stands
    <3>1. place[q] \in DOMAIN shown /\ shown[place[q]] = [to |-> q, text |-> "placeholder"]
      BY <2>3 DEF RepliesIInv, PlaceholdersKnown, Answers
    <3>2. shown' = [shown EXCEPT ![place[q]].text = "answer"]
      BY <2>3 DEF Answers
    <3>3. /\ DOMAIN shown' = DOMAIN shown /\ shown'[place[q]].to = q
          /\ \A i \in DOMAIN shown : i /= place[q] => shown'[i] = shown[i]
      BY <3>1, <3>2
    <3> QED BY <3>1, <3>3
  <2> QED BY <2>1, <2>2, <2>3 DEF RepliesNext, HandleCustomerMessage, Answers, Fails
<1> QED BY <1>1, RepliesInvariant, PTL DEF RepliesSpec, AnswersStand

-----------------------------------------------------------------------------
(* Proofs about Monitoring: what the readers of a window see, when an alert is *)
(* raised, and what becomes of the takeovers a month is billed by.             *)

(* The tables are as sla_aggregator.py and alerts.yaml have them.              *)
TablesFit ==
  /\ Values \subseteq Int /\ Capacity \in Nat \ {0}
  /\ WindowSeconds \in [Windows -> Nat]
  /\ AlertRules \subseteq [metric : Metrics, window : Windows, percentile : 0 .. 100, threshold : Int,
                           direction : {"above", "below"}, cooldown_seconds : Nat]
  /\ NoSnapshot \notin Snapshots /\ Unlimited \notin Int

Point == [value : Values, at : Nat]

(* What was recorded is in the order of its times, and none lies ahead.        *)
InOrder ==
  \A m \in Metrics : \A i \in 1 .. Len(recorded[m]) :
    /\ recorded[m][i].at <= now
    /\ \A j \in 1 .. Len(recorded[m]) : i <= j => recorded[m][i].at <= recorded[m][j].at

(* A buffer has every recent point, and only points its capacity allows.       *)
InPlace(p) == \A i \in kept[p] : i \in 1 .. Len(recorded[p[1]]) /\ i > Len(recorded[p[1]]) - Capacity

BuffersHold == \A p \in Metrics \X Windows : Recent(p) \subseteq kept[p] /\ InPlace(p)

(* A rule's last alert is the one it remembers.                                *)
Remembered == \A a \in fired : a.at <= last_fired[a.rule]

MonitoringIInv == MonitoringTypeOK /\ InOrder /\ BuffersHold /\ Remembered /\ CooldownsHold

-----------------------------------------------------------------------------
(* The points of a metric                                                      *)

LEMMA Points ==
  ASSUME MonitoringTypeOK, NEW m \in Metrics
  PROVE  /\ recorded[m] \in Seq(Point) /\ Len(recorded[m]) \in Nat
         /\ \A i \in 1 .. Len(recorded[m]) : recorded[m][i].value \in Values /\ recorded[m][i].at \in Nat
<1>1. recorded[m] \in Seq(Point) /\ Len(recorded[m]) \in Nat
  <2>1. recorded \in [Metrics -> Seq(Point)]
    BY DEF MonitoringTypeOK, Point
  <2>2. recorded[m] \in Seq(Point)
    BY <2>1
  <2> QED BY <2>2
<1>2. \A i \in 1 .. Len(recorded[m]) : recorded[m][i] \in Point
  BY <1>1
<1> QED BY <1>1, <1>2 DEF Point

(* A trimmed buffer is what a reader should see.                               *)
LEMMA Exact ==
  ASSUME TablesFit, MonitoringIInv, NEW p \in Metrics \X Windows
  PROVE  EvictOld(p) = Recent(p)
<1> DEFINE n == Len(recorded[p[1]])
           At(i) == recorded[p[1]][i].at
           limit == now - WindowSeconds[p[2]]
<1>1. p[1] \in Metrics /\ p[2] \in Windows /\ WindowSeconds[p[2]] \in Nat
  BY DEF TablesFit
<1>2. n \in Nat /\ limit \in Int /\ \A i \in 1 .. n : At(i) \in Nat
  <2>1. now \in Nat /\ MonitoringTypeOK
    BY DEF MonitoringIInv, MonitoringTypeOK
  <2>2. limit \in Int
    BY <1>1, <2>1
  <2> QED BY <1>1, <2>1, <2>2, Points
<1>3. \A i, j \in 1 .. n : j <= i => At(j) <= At(i)
  BY <1>1 DEF MonitoringIInv, InOrder
<1>4. \A i \in kept[p] : i \in 1 .. n /\ i > n - Capacity
  BY DEF MonitoringIInv, BuffersHold, InPlace
<1>5. \A i : Fresh(p, i) <=> At(i) >= limit
  BY DEF Fresh
<1>6. Recent(p) = {i \in 1 .. n : i > n - Capacity /\ Fresh(p, i)}
  BY DEF Recent
<1>7. Recent(p) \subseteq kept[p]
  BY DEF MonitoringIInv, BuffersHold
<1> HIDE DEF n, At, limit
<1>8. \A i \in EvictOld(p) : i \in Recent(p)
  <2> SUFFICES ASSUME NEW i \in kept[p], NEW j \in kept[p], j <= i, Fresh(p, j) PROVE i \in Recent(p)
    BY DEF EvictOld
  <2>1. At(j) >= limit /\ At(j) <= At(i) /\ At(i) \in Nat /\ At(j) \in Nat
    BY <1>2, <1>3, <1>4, <1>5
  <2>2. At(i) >= limit
    BY <1>2, <2>1
  <2> QED BY <1>4, <1>5, <1>6, <2>2
<1>9. \A i \in Recent(p) : i \in EvictOld(p)
  <2> SUFFICES ASSUME NEW i \in Recent(p) PROVE i \in EvictOld(p)
    OBVIOUS
  <2>1. i \in kept[p] /\ Fresh(p, i) /\ i \in 1 .. n
    BY <1>6, <1>7
  <2>2. i <= i
    BY <1>2, <2>1
  <2> QED BY <2>1, <2>2 DEF EvictOld
<1> QED BY <1>8, <1>9

-----------------------------------------------------------------------------
(* The invariant                                                               *)

LEMMA MonitoringInitially == TablesFit /\ MonitoringInit => MonitoringIInv
  BY DEF TablesFit, MonitoringInit, MonitoringIInv, MonitoringTypeOK, InOrder, BuffersHold, InPlace, Recent, Remembered, CooldownsHold, NoCsat, NoEscalation

(* What leaves the clock and the points alone leaves the windows alone.        *)
LEMMA WindowsStay ==
  ASSUME MonitoringIInv, UNCHANGED <<now, recorded, kept>>
  PROVE  InOrder' /\ BuffersHold'
  BY DEF MonitoringIInv, InOrder, BuffersHold, InPlace, Recent, Fresh

LEMMA AlertsStay ==
  ASSUME MonitoringIInv, UNCHANGED <<last_fired, fired>>
  PROVE  Remembered' /\ CooldownsHold'
  BY DEF MonitoringIInv, Remembered, CooldownsHold

(* Trimming some buffers.                                                      *)
LEMMA ReadsKeep ==
  ASSUME TablesFit, MonitoringIInv, NEW pairs, Reads(pairs), UNCHANGED <<now, recorded>>
  PROVE  kept' \in [Metrics \X Windows -> SUBSET Nat] /\ InOrder' /\ BuffersHold'
<1>1. \A p \in Metrics \X Windows : kept'[p] = kept[p] \/ kept'[p] = EvictOld(p)
  BY DEF Reads
<1>2. \A p \in Metrics \X Windows : Recent(p) \subseteq kept'[p] /\ kept'[p] \subseteq kept[p]
  <2> SUFFICES ASSUME NEW p \in Metrics \X Windows PROVE Recent(p) \subseteq kept'[p] /\ kept'[p] \subseteq kept[p]
    OBVIOUS
  <2>1. EvictOld(p) = Recent(p) /\ Recent(p) \subseteq kept[p]
    BY Exact DEF MonitoringIInv, BuffersHold
  <2> QED BY <1>1, <2>1
<1>3. kept' \in [Metrics \X Windows -> SUBSET Nat]
  <2>1. kept \in [Metrics \X Windows -> SUBSET Nat]
    BY DEF MonitoringIInv, MonitoringTypeOK
  <2>2. \A p \in Metrics \X Windows : kept'[p] \in SUBSET Nat
    BY <1>2, <2>1
  <2> QED BY <2>2 DEF Reads
<1>4. \A p \in Metrics \X Windows : Recent(p)' = Recent(p)
  BY DEF Recent, Fresh
<1>5. InOrder'
  BY DEF MonitoringIInv, InOrder
<1>6. BuffersHold'
  <2> SUFFICES ASSUME NEW p \in Metrics \X Windows PROVE Recent(p)' \subseteq kept'[p] /\ InPlace(p)'
    BY DEF BuffersHold
  <2>1. InPlace(p)
    BY DEF MonitoringIInv, BuffersHold
  <2> QED BY <1>2, <1>4, <2>1 DEF InPlace
<1> QED BY <1>3, <1>5, <1>6

LEMMA TickKeeps ==
  ASSUME TablesFit, MonitoringIInv, Tick
  PROVE  MonitoringIInv'
<1>1. now \in Nat /\ now' \in Nat /\ now' > now /\ UNCHANGED <<sla, alerts, live, monthly>>
  BY DEF Tick, MonitoringIInv, MonitoringTypeOK
<1>2. UNCHANGED <<recorded, kept, last_fired, fired, pending, pushed, takeovers, csat, escalations, monthly>>
  BY <1>1 DEF sla, alerts, live
<1>3. MonitoringTypeOK'
  BY <1>1, <1>2 DEF MonitoringIInv, MonitoringTypeOK
<1>4. InOrder'
  <2> SUFFICES ASSUME NEW m \in Metrics, NEW i \in 1 .. Len(recorded[m]) PROVE recorded[m][i].at <= now'
    BY <1>2 DEF MonitoringIInv, InOrder
  <2>1. recorded[m][i].at \in Nat /\ recorded[m][i].at <= now
    BY Points DEF MonitoringIInv, InOrder
  <2> QED BY <1>1, <2>1
<1>5. \A p \in Metrics \X Windows : Recent(p)' \subseteq Recent(p)
  <2> SUFFICES ASSUME NEW p \in Metrics \X Windows, NEW i \in Recent(p)' PROVE i \in Recent(p)
    OBVIOUS
  <2>1. /\ i \in 1 .. Len(recorded[p[1]]) /\ i > Len(recorded[p[1]]) - Capacity
        /\ recorded[p[1]][i].at >= now' - WindowSeconds[p[2]]
    BY <1>2 DEF Recent, Fresh
  <2>2. recorded[p[1]][i].at \in Nat /\ WindowSeconds[p[2]] \in Nat
    BY <2>1, Points DEF MonitoringIInv, TablesFit
  <2>3. recorded[p[1]][i].at >= now - WindowSeconds[p[2]]
    BY <1>1, <2>1, <2>2
  <2> QED BY <2>1, <2>3 DEF Recent, Fresh
<1>6. BuffersHold'
  <2> SUFFICES ASSUME NEW p \in Metrics \X Windows PROVE Recent(p)' \subseteq kept'[p] /\ InPlace(p)'
    BY DEF BuffersHold
  <2> QED BY <1>2, <1>5 DEF MonitoringIInv, BuffersHold, InPlace
<1>7. Remembered' /\ CooldownsHold'
  BY <1>2, AlertsStay
<1> QED BY <1>3, <1>4, <1>6, <1>7 DEF MonitoringIInv

LEMMA RecordKeeps ==
  ASSUME TablesFit, MonitoringIInv, NEW metric \in Metrics, NEW value \in Values, Record(metric, value)
  PROVE  MonitoringIInv'
<1> DEFINE n == Len(recorded[metric])
           point == [value |-> value, at |-> now]
<1>1. /\ recorded' = [recorded EXCEPT ![metric] = Append(recorded[metric], point)]
      /\ kept' = [p \in Metrics \X Windows |->
                    IF p[1] = metric THEN Pushed(kept[p], n + 1) ELSE kept[p]]
      /\ UNCHANGED <<now, last_fired, fired, pending, pushed, takeovers, csat, escalations, monthly>>
  <2>1. recorded' = [recorded EXCEPT ![metric] = Append(recorded[metric], point)]
    BY DEF Record
  <2>2. kept' = [p \in Metrics \X Windows |->
                    IF p[1] = metric THEN Pushed(kept[p], n + 1) ELSE kept[p]]
    BY DEF Record
  <2>3. UNCHANGED <<now, alerts, live, monthly>>
    BY DEF Record
  <2> QED BY <2>1, <2>2, <2>3 DEF alerts, live
<1>2. now \in Nat /\ n \in Nat /\ point \in Point /\ Capacity \in Nat \ {0}
  BY Points DEF MonitoringIInv, MonitoringTypeOK, Point, TablesFit
<1>3. /\ recorded'[metric] = Append(recorded[metric], point) /\ recorded[metric] \in Seq(Point)
      /\ \A m \in Metrics : m /= metric => recorded'[m] = recorded[m]
  BY <1>1, Points DEF MonitoringIInv, MonitoringTypeOK
<1> HIDE DEF point
<1>4. Len(recorded'[metric]) = n + 1 /\ recorded'[metric][n + 1] = point /\ recorded'[metric] \in Seq(Point)
  BY <1>2, <1>3
<1>5. \A i \in 1 .. n : recorded'[metric][i] = recorded[metric][i]
  BY <1>3
<1> HIDE DEF n
<1>6. point.at = now
  BY DEF point
<1>7. recorded' \in [Metrics -> Seq(Point)]
  <2>1. recorded \in [Metrics -> Seq(Point)]
    BY DEF MonitoringIInv, MonitoringTypeOK, Point
  <2> QED BY <1>1, <1>3, <1>4, <2>1
<1>8. kept' \in [Metrics \X Windows -> SUBSET Nat]
  <2>1. kept \in [Metrics \X Windows -> SUBSET Nat]
    BY DEF MonitoringIInv, MonitoringTypeOK
  <2>2. ASSUME NEW p \in Metrics \X Windows PROVE kept'[p] \in SUBSET Nat
    <3>1. kept[p] \in SUBSET Nat /\ (kept'[p] = Pushed(kept[p], n + 1) \/ kept'[p] = kept[p])
      BY <1>1, <2>1
    <3> QED BY <1>2, <3>1 DEF Pushed
  <2> QED BY <1>1, <2>2
<1>9. MonitoringTypeOK'
  BY <1>1, <1>7, <1>8 DEF MonitoringIInv, MonitoringTypeOK, Point
<1>10. InOrder'
  <2> SUFFICES ASSUME NEW m \in Metrics, NEW i \in 1 .. Len(recorded'[m])
               PROVE  /\ recorded'[m][i].at <= now
                      /\ \A j \in 1 .. Len(recorded'[m]) : i <= j => recorded'[m][i].at <= recorded'[m][j].at
    BY <1>1 DEF InOrder
  <2>1. CASE m /= metric
    BY <1>3, <2>1 DEF MonitoringIInv, InOrder
  <2>2. CASE m = metric
    <3>1. \A k \in 1 .. n : recorded'[metric][k].at <= now /\ recorded'[metric][k].at \in Nat
      BY <1>5, Points DEF MonitoringIInv, InOrder, n
    <3>2. \A k, j \in 1 .. n : k <= j => recorded'[metric][k].at <= recorded'[metric][j].at
      BY <1>5 DEF MonitoringIInv, InOrder, n
    <3>3. recorded'[metric][n + 1].at = now
      BY <1>4, <1>6
    <3>4. i \in 1 .. n + 1
      BY <1>4, <2>2
    <3>5. recorded'[metric][i].at <= now
      BY <1>2, <3>1, <3>3, <3>4
    <3>6. ASSUME NEW j \in 1 .. n + 1, i <= j PROVE recorded'[metric][i].at <= recorded'[metric][j].at
      <4>1. CASE j = n + 1
        BY <3>3, <3>5, <4>1
      <4>2. CASE j /= n + 1
        <5>1. j \in 1 .. n /\ i \in 1 .. n
          BY <1>2, <3>4, <3>6, <4>2
        <5> QED BY <3>2, <3>6, <5>1
      <4> QED BY <4>1, <4>2
    <3> QED BY <1>4, <2>2, <3>5, <3>6
  <2> QED BY <2>1, <2>2
<1>11. BuffersHold'
  <2>1. ASSUME NEW p \in Metrics \X Windows PROVE Recent(p)' \subseteq kept'[p] /\ InPlace(p)'
    <3>1. CASE p[1] /= metric
      <4>1. recorded'[p[1]] = recorded[p[1]] /\ kept'[p] = kept[p] /\ now' = now
        BY <1>1, <1>3, <3>1
      <4>2. Recent(p)' = Recent(p)
        BY <4>1 DEF Recent, Fresh
      <4> QED BY <4>1, <4>2 DEF MonitoringIInv, BuffersHold, InPlace
    <3>2. CASE p[1] = metric
      <4> DEFINE old == kept[p]
                 from == now - WindowSeconds[p[2]]
      <4>1. kept'[p] = Pushed(old, n + 1) /\ now' = now /\ Len(recorded'[p[1]]) = n + 1
        BY <1>1, <1>4, <3>2
      <4>2. \A i \in old : i \in 1 .. n /\ i > n - Capacity
        BY <3>2 DEF MonitoringIInv, BuffersHold, InPlace, n
      <4>3. \A i \in 1 .. n : i > n - Capacity /\ recorded[metric][i].at >= from => i \in old
        <5>1. Recent(p) \subseteq old
          BY DEF MonitoringIInv, BuffersHold
        <5> QED BY <3>2, <5>1 DEF Recent, Fresh, n
      <4>4. ASSUME NEW i PROVE i \in Recent(p)' <=> /\ i \in 1 .. n + 1 /\ i > n + 1 - Capacity
                                                   /\ recorded'[metric][i].at >= from
        <5>1. i \in Recent(p)' <=> /\ i \in 1 .. Len(recorded'[p[1]]) /\ i > Len(recorded'[p[1]]) - Capacity
                                  /\ recorded'[p[1]][i].at >= now' - WindowSeconds[p[2]]
          BY DEF Recent, Fresh
        <5> HIDE DEF n
        <5>2. now' - WindowSeconds[p[2]] = from /\ recorded'[p[1]] = recorded'[metric] /\ Len(recorded'[p[1]]) = n + 1
          BY <3>2, <4>1
        <5> HIDE DEF from
        <5> QED BY <1>2, <5>1, <5>2
      <4> HIDE DEF old, from
      <4>5. \A i \in Pushed(old, n + 1) : i \in 1 .. n + 1 /\ i > n + 1 - Capacity
        BY <1>2, <4>2 DEF Pushed
      <4>6. InPlace(p)'
        <5>1. SUFFICES ASSUME NEW i \in Pushed(old, n + 1)
                       PROVE  i \in 1 .. Len(recorded'[p[1]]) /\ i > Len(recorded'[p[1]]) - Capacity
          BY <4>1 DEF InPlace
        <5> QED BY <1>2, <4>1, <4>5
      <4>7. ASSUME NEW i \in Recent(p)' PROVE i \in Pushed(old, n + 1)
        <5>1. i \in 1 .. n + 1 /\ i > n + 1 - Capacity /\ recorded'[metric][i].at >= from
          BY <4>4
        <5>2. CASE i = n + 1
          BY <1>2, <5>1, <5>2 DEF Pushed
        <5>3. CASE i /= n + 1
          <6>1. i \in 1 .. n /\ i > n - Capacity
            BY <1>2, <5>1, <5>3
          <6>2. i \in old
            BY <1>5, <4>3, <5>1, <6>1
          <6> QED BY <1>2, <5>1, <6>2 DEF Pushed
        <5> QED BY <5>2, <5>3
      <4> QED BY <4>1, <4>6, <4>7
    <3> QED BY <3>1, <3>2
  <2> QED BY <2>1 DEF BuffersHold
<1>12. Remembered' /\ CooldownsHold'
  BY <1>1, AlertsStay
<1> QED BY <1>9, <1>10, <1>11, <1>12 DEF MonitoringIInv

LEMMA SlaSummaryKeeps ==
  ASSUME TablesFit, MonitoringIInv, NEW window \in Windows, SlaSummary(window)
  PROVE  MonitoringIInv'
<1>1. Reads(Metrics \X {window}) /\ UNCHANGED <<now, recorded, alerts, live, monthly>>
  BY DEF SlaSummary
<1>2. UNCHANGED <<now, recorded, last_fired, fired, pending, pushed, takeovers, csat, escalations, monthly>>
  BY <1>1 DEF alerts, live
<1>3. kept' \in [Metrics \X Windows -> SUBSET Nat] /\ InOrder' /\ BuffersHold'
  BY <1>1, <1>2, ReadsKeep
<1>4. MonitoringTypeOK'
  BY <1>2, <1>3 DEF MonitoringIInv, MonitoringTypeOK
<1>5. Remembered' /\ CooldownsHold'
  BY <1>2, AlertsStay
<1> QED BY <1>3, <1>4, <1>5 DEF MonitoringIInv

(* A rule is due only when its last alert is a cooldown ago.                   *)
LEMMA EvaluateKeeps ==
  ASSUME TablesFit, MonitoringIInv, Evaluate
  PROVE  MonitoringIInv'
<1> DEFINE due   == {rule \in AlertRules : Due(rule)}
           fires == {rule \in due : Triggered(rule)}
           new   == {[rule |-> rule, at |-> now] : rule \in fires}
<1>1. /\ Reads({Pair(rule) : rule \in due})
      /\ last_fired' = [rule \in AlertRules |-> IF rule \in fires THEN now ELSE last_fired[rule]]
      /\ fired' = fired \cup new /\ pending' = pending \cup new
      /\ UNCHANGED <<now, recorded, pushed, takeovers, csat, escalations, monthly>>
  BY DEF Evaluate, live
<1>2. kept' \in [Metrics \X Windows -> SUBSET Nat] /\ InOrder' /\ BuffersHold'
  <2> HIDE DEF due
  <2>1. UNCHANGED <<now, recorded>>
    BY <1>1
  <2> QED BY <1>1, <2>1, ReadsKeep
<1>3. fires \subseteq AlertRules
  OBVIOUS
<1>4. \A rule \in fires : now - last_fired[rule] >= rule.cooldown_seconds
  BY DEF Due
<1>5. \A a \in new : a.rule \in fires /\ a.at = now /\ a = [rule |-> a.rule, at |-> now]
  OBVIOUS
<1>6. now \in Nat /\ last_fired \in [AlertRules -> Nat] /\ fired \in SUBSET [rule : AlertRules, at : Nat]
  BY DEF MonitoringIInv, MonitoringTypeOK
<1> HIDE DEF fires, due, new
<1>7. MonitoringTypeOK'
  <2>1. last_fired' \in [AlertRules -> Nat]
    BY <1>1, <1>6
  <2>2. new \in SUBSET [rule : AlertRules, at : Nat]
    BY <1>3, <1>5, <1>6
  <2>3. fired' \in SUBSET [rule : AlertRules, at : Nat] /\ pending' \subseteq fired' /\ pushed' \subseteq fired'
    BY <1>1, <1>6, <2>2 DEF MonitoringIInv, MonitoringTypeOK
  <2> QED BY <1>1, <1>2, <2>1, <2>3 DEF MonitoringIInv, MonitoringTypeOK
<1>8. \A rule \in AlertRules : last_fired[rule] \in Nat /\ rule.cooldown_seconds \in Nat
  BY <1>6 DEF TablesFit
<1>9. \A rule \in fires : last_fired[rule] + rule.cooldown_seconds <= now /\ last_fired[rule] <= now
  BY <1>3, <1>4, <1>6, <1>8
<1>10. \A a \in fired : a.rule \in AlertRules /\ a.at \in Nat /\ a.at <= last_fired[a.rule]
  BY <1>6 DEF MonitoringIInv, Remembered
<1>11. Remembered'
  <2> SUFFICES ASSUME NEW a \in fired' PROVE a.at <= last_fired'[a.rule]
    BY DEF Remembered
  <2>1. CASE a \in new
    BY <1>1, <1>3, <1>5, <1>6, <2>1
  <2>2. CASE a \in fired
    <3>1. CASE a.rule \in fires
      BY <1>1, <1>6, <1>8, <1>9, <1>10, <2>2, <3>1
    <3>2. CASE a.rule \notin fires
      BY <1>1, <1>10, <2>2, <3>2
    <3> QED BY <3>1, <3>2
  <2> QED BY <1>1, <2>1, <2>2
<1>12. CooldownsHold'
  <2> SUFFICES ASSUME NEW a \in fired', NEW b \in fired', a.rule = b.rule, a.at < b.at
               PROVE  a.at + a.rule.cooldown_seconds <= b.at
    BY DEF CooldownsHold
  <2>1. CASE a \in fired /\ b \in fired
    BY <2>1 DEF MonitoringIInv, CooldownsHold
  <2>2. CASE a \in fired /\ b \in new
    <3>1. a.at <= last_fired[a.rule] /\ last_fired[a.rule] + a.rule.cooldown_seconds <= now /\ b.at = now
      BY <1>5, <1>9, <1>10, <2>2
    <3>2. a.at \in Nat /\ last_fired[a.rule] \in Nat /\ a.rule.cooldown_seconds \in Nat
      BY <1>8, <1>10, <2>2
    <3> QED BY <1>6, <3>1, <3>2
  <2>3. CASE a \in new
    <3>1. a.at = now /\ a.rule \in fires
      BY <1>5, <2>3
    <3>2. b.at = now \/ b.at <= last_fired[b.rule]
      BY <1>1, <1>5, <1>10
    <3>3. b.at \in Nat /\ last_fired[b.rule] <= now /\ last_fired[b.rule] \in Nat
      BY <1>1, <1>3, <1>5, <1>6, <1>8, <1>9, <1>10, <3>1
    <3> QED BY <1>6, <3>1, <3>2, <3>3
  <2> QED BY <1>1, <2>1, <2>2, <2>3
<1> QED BY <1>2, <1>7, <1>11, <1>12 DEF MonitoringIInv

(* What touches no window and no alert.                                        *)
LEMMA CountersKeep ==
  ASSUME MonitoringIInv, UNCHANGED <<now, sla, alerts>>, MonitoringTypeOK'
  PROVE  MonitoringIInv'
<1>1. UNCHANGED <<now, recorded, kept, last_fired, fired>>
  BY DEF sla, alerts
<1> QED BY <1>1, WindowsStay, AlertsStay DEF MonitoringIInv

LEMMA NotifyKeeps ==
  ASSUME MonitoringIInv, NEW alert \in pending, Notify(alert)
  PROVE  MonitoringIInv'
<1>1. UNCHANGED <<now, recorded, kept, last_fired, fired, takeovers, csat, escalations, monthly>>
  BY DEF Notify, sla, live
<1>2. MonitoringTypeOK'
  BY <1>1 DEF Notify, MonitoringIInv, MonitoringTypeOK
<1> QED BY <1>1, <1>2, WindowsStay, AlertsStay DEF MonitoringIInv

CountersMove ==
  \/ \E takeover \in Takeovers : RecordTakeover(takeover)
  \/ \E conversation \in Conversations :
       \/ \E score \in 1 .. 5 : RecordCsat(conversation, score)
       \/ RecordEscalation(conversation) \/ RecordResolution(conversation)
  \/ \E period \in Periods : CloseMonth(period)

LEMMA CountersMoveKeeps ==
  ASSUME MonitoringIInv, CountersMove
  PROVE  MonitoringIInv'
<1>1. UNCHANGED <<now, sla, alerts>>
  BY DEF CountersMove, RecordTakeover, RecordCsat, RecordEscalation, RecordResolution, CloseMonth
<1>2. UNCHANGED <<recorded, kept, last_fired, fired, pending, pushed>>
  BY <1>1 DEF sla, alerts
<1>3. /\ takeovers' \in SUBSET Takeovers /\ csat' \in [Conversations -> 0 .. 5]
      /\ escalations' \in [Conversations -> {"none", "escalated", "resolved"}]
      /\ monthly' \in [Periods -> Snapshots \cup {NoSnapshot}]
  <2>1. CurrentSnapshot \in Snapshots
    BY DEF CurrentSnapshot, Snapshots, MonitoringIInv, MonitoringTypeOK
  <2>2. CASE \E takeover \in Takeovers : RecordTakeover(takeover)
    BY <2>2 DEF RecordTakeover, MonitoringIInv, MonitoringTypeOK
  <2>3. CASE \E c \in Conversations : \E score \in 1 .. 5 : RecordCsat(c, score)
    BY <2>3 DEF RecordCsat, MonitoringIInv, MonitoringTypeOK
  <2>4. CASE \E c \in Conversations : RecordEscalation(c) \/ RecordResolution(c)
    BY <2>4 DEF RecordEscalation, RecordResolution, MonitoringIInv, MonitoringTypeOK
  <2>5. CASE \E period \in Periods : CloseMonth(period)
    BY <2>1, <2>5 DEF CloseMonth, NoCsat, NoEscalation, MonitoringIInv, MonitoringTypeOK
  <2> QED BY <2>2, <2>3, <2>4, <2>5 DEF CountersMove
<1>4. MonitoringTypeOK'
  BY <1>1, <1>2, <1>3 DEF MonitoringIInv, MonitoringTypeOK
<1> QED BY <1>1, <1>4, CountersKeep

LEMMA MonitoringStepKeeps ==
  ASSUME TablesFit, MonitoringIInv, [MonitoringNext]_monitoring_vars
  PROVE  MonitoringIInv'
<1>1. CASE UNCHANGED monitoring_vars
  <2>1. UNCHANGED <<now, recorded, kept, last_fired, fired, pending, pushed, takeovers, csat, escalations, monthly>>
    BY <1>1 DEF monitoring_vars, sla, alerts, live
  <2>2. MonitoringTypeOK'
    BY <2>1 DEF MonitoringIInv, MonitoringTypeOK
  <2> QED BY <2>1, <2>2, WindowsStay, AlertsStay DEF MonitoringIInv
<1>2. CASE Tick
  BY <1>2, TickKeeps
<1>3. CASE Evaluate
  BY <1>3, EvaluateKeeps
<1>4. CASE \E metric \in Metrics, value \in Values : Record(metric, value)
  BY <1>4, RecordKeeps
<1>5. CASE \E window \in Windows : SlaSummary(window)
  BY <1>5, SlaSummaryKeeps
<1>6. CASE \E alert \in pending : Notify(alert)
  <2>1. PICK alert \in pending : Notify(alert)
    BY <1>6
  <2> QED BY <2>1, NotifyKeeps
<1>7. CASE CountersMove
  BY <1>7, CountersMoveKeeps
<1> QED BY <1>1, <1>2, <1>3, <1>4, <1>5, <1>6, <1>7 DEF MonitoringNext, CountersMove

LEMMA MonitoringInvariant == TablesFit /\ MonitoringSpec => []MonitoringIInv
<1> SUFFICES ASSUME TablesFit PROVE MonitoringSpec => []MonitoringIInv
  OBVIOUS
<1>1. MonitoringInit => MonitoringIInv
  BY MonitoringInitially
<1>2. MonitoringIInv /\ [MonitoringNext]_monitoring_vars => MonitoringIInv'
  BY MonitoringStepKeeps
<1> QED BY <1>1, <1>2, PTL DEF MonitoringSpec

(* Every buffer, alert and counter is in its range.                            *)
THEOREM MonitoringTypeCorrect == TablesFit /\ MonitoringSpec => []MonitoringTypeOK
<1>1. MonitoringIInv => MonitoringTypeOK
  BY DEF MonitoringIInv
<1> QED BY <1>1, MonitoringInvariant, PTL

(* A reader of a window sees the recent points of its metric, whichever other  *)
(* readers trimmed the buffer before: SLAAggregator.get_percentiles.           *)
THEOREM ReadersSeeTheirWindow == TablesFit /\ MonitoringSpec => []WindowsAreExact
<1> SUFFICES ASSUME TablesFit PROVE MonitoringSpec => []WindowsAreExact
  OBVIOUS
<1>1. MonitoringIInv => WindowsAreExact
  BY Exact DEF WindowsAreExact
<1> QED BY <1>1, MonitoringInvariant, PTL

(* AlertEngine.evaluate never raises a rule's alert again within its cooldown. *)
THEOREM AlertsKeepTheirDistance == TablesFit /\ MonitoringSpec => []CooldownsHold
<1>1. MonitoringIInv => CooldownsHold
  BY DEF MonitoringIInv
<1> QED BY <1>1, MonitoringInvariant, PTL

-----------------------------------------------------------------------------
(* What raises an alert                                                        *)

(* A share of x whole hundredths of m lies within 0..m.                        *)
LEMMA Shares ==
  ASSUME NEW pct \in 0 .. 100, NEW m \in Nat
  PROVE  (pct * m) \div 100 \in 0 .. m /\ (pct * m) % 100 \in 0 .. 99
<1> DEFINE x == pct * m
           y == (100 - pct) * m
<1>1. x \in Nat /\ y \in Nat /\ x + y = 100 * m
  OBVIOUS
<1> HIDE DEF x, y
<1>2. x \in Nat /\ x <= 100 * m
  BY <1>1
<1>3. x \div 100 \in 0 .. m /\ x % 100 \in 0 .. 99
  BY <1>2
<1> QED BY <1>3 DEF x

(* A value interpolated between two others is not beyond both.                 *)
LEMMA Between ==
  ASSUME NEW a \in Int, NEW b \in Int, NEW d \in 0 .. 99, NEW t \in Int
  PROVE  /\ 100 * a + d * (b - a) \in Int
         /\ a <= t /\ b <= t => 100 * a + d * (b - a) <= 100 * t
         /\ a >= t /\ b >= t => 100 * a + d * (b - a) >= 100 * t
<1> DEFINE value == 100 * a + d * (b - a)
           left  == (100 - d) * (t - a)
           right == d * (t - b)
<1>1. value \in Int /\ left \in Int /\ right \in Int /\ 100 * t - value = left + right
  OBVIOUS
<1>2. a <= t /\ b <= t => left >= 0 /\ right >= 0
  OBVIOUS
<1>3. a >= t /\ b >= t => left <= 0 /\ right <= 0
  OBVIOUS
<1> HIDE DEF left, right, value
<1>4. a <= t /\ b <= t => value <= 100 * t
  BY <1>1, <1>2
<1>5. a >= t /\ b >= t => value >= 100 * t
  BY <1>1, <1>3
<1> QED BY <1>1, <1>4, <1>5 DEF value

(* Some value is as far out as a percentile: numbers interpolated by           *)
(* PercentileCalculator are within what was recorded.                          *)
LEMMA PercentileWithin ==
  ASSUME NEW n \in Nat \ {0}, NEW values \in [1 .. n -> Int], NEW pct \in 0 .. 100, NEW t \in Int
  PROVE  /\ Percentile(values, n, pct) > 100 * t => \E i \in 1 .. n : values[i] > t
         /\ Percentile(values, n, pct) < 100 * t => \E i \in 1 .. n : values[i] < t
<1> DEFINE f == (pct * (n - 1)) \div 100
           d == (pct * (n - 1)) % 100
           c == IF f + 1 < n THEN f + 1 ELSE f
           a == values[f + 1]
           b == values[c + 1]
<1>1. n - 1 \in Nat
  OBVIOUS
<1>2. f \in 0 .. n - 1 /\ d \in 0 .. 99
  BY <1>1, Shares
<1>3. Percentile(values, n, pct) = 100 * a + d * (b - a)
  BY DEF Percentile
<1> HIDE DEF f, d
<1>4. f + 1 \in 1 .. n /\ c + 1 \in 1 .. n
  BY <1>2
<1>5. a \in Int /\ b \in Int
  BY <1>4
<1> HIDE DEF a, b, c
<1>6. /\ 100 * a + d * (b - a) \in Int
      /\ a <= t /\ b <= t => 100 * a + d * (b - a) <= 100 * t
      /\ a >= t /\ b >= t => 100 * a + d * (b - a) >= 100 * t
  BY <1>2, <1>5, Between
<1>7. Percentile(values, n, pct) \in Int
  BY <1>3, <1>6
<1>8. ASSUME Percentile(values, n, pct) > 100 * t PROVE \E i \in 1 .. n : values[i] > t
  <2>1. a > t \/ b > t
    <3> HIDE DEF Percentile
    <3> DEFINE q == 100 * a + d * (b - a)
    <3>1. q \in Int /\ q > 100 * t /\ (a <= t /\ b <= t => q <= 100 * t)
      BY <1>3, <1>6, <1>8
    <3> HIDE DEF q
    <3> QED BY <1>5, <3>1
  <2> QED BY <1>4, <2>1 DEF a, b
<1>9. ASSUME Percentile(values, n, pct) < 100 * t PROVE \E i \in 1 .. n : values[i] < t
  <2>1. a < t \/ b < t
    <3> DEFINE q == 100 * a + d * (b - a)
    <3>1. q \in Int /\ q < 100 * t /\ (a >= t /\ b >= t => q >= 100 * t)
      BY <1>3, <1>6, <1>9
    <3> HIDE DEF q
    <3> QED BY <1>5, <3>1
  <2> QED BY <1>4, <2>1 DEF a, b
<1> QED BY <1>8, <1>9

LEMMA TriggeredByAValue ==
  ASSUME TablesFit, MonitoringIInv, NEW rule \in AlertRules, Triggered(rule)
  PROVE  Cause(rule)
<1>1. /\ rule.metric \in Metrics /\ rule.window \in Windows
      /\ rule.percentile \in 0 .. 100 /\ rule.threshold \in Int
  BY DEF TablesFit
<1>2. Pair(rule) \in Metrics \X Windows /\ Pair(rule)[1] = rule.metric
  BY <1>1 DEF Pair
<1>3. EvictOld(Pair(rule)) = Recent(Pair(rule))
  BY <1>2, Exact
<1>4. PICK points : points = Recent(Pair(rule))
  OBVIOUS
<1>5. points /= {} /\ points \subseteq 1 .. Len(recorded[rule.metric]) /\ IsFiniteSet(points)
  <2>1. points /= {} /\ points \subseteq 1 .. Len(recorded[rule.metric])
    BY <1>2, <1>3, <1>4 DEF Triggered, Recent
  <2>2. Len(recorded[rule.metric]) \in Nat
    BY <1>1, Points DEF MonitoringIInv
  <2>3. IsFiniteSet(1 .. Len(recorded[rule.metric]))
    BY <2>2, FS_Interval
  <2> QED BY <2>1, <2>3, FS_Subset
<1>6. Cardinality(points) \in Nat \ {0}
  BY <1>5, FS_CardinalityType, FS_EmptySet
<1>7. PICK n : n = Cardinality(points)
  OBVIOUS
<1>8. PICK o \in Orderings(rule.metric, points) :
        Beyond(rule, Percentile([i \in DOMAIN o |-> recorded[rule.metric][o[i]].value], n, rule.percentile))
  BY <1>3, <1>4, <1>7 DEF Triggered
<1>9. o \in [1 .. n -> points]
  BY <1>7, <1>8 DEF Orderings
<1>10. PICK values : values = [i \in DOMAIN o |-> recorded[rule.metric][o[i]].value]
  OBVIOUS
<1>11. \A i \in 1 .. n : o[i] \in points /\ values[i] = recorded[rule.metric][o[i]].value
  BY <1>9, <1>10
<1>12. \A i \in 1 .. n : values[i] \in Int
  <2> TAKE i \in 1 .. n
  <2>1. o[i] \in 1 .. Len(recorded[rule.metric])
    BY <1>5, <1>11
  <2>2. recorded[rule.metric][o[i]].value \in Values
    BY <1>1, <2>1, Points DEF MonitoringIInv
  <2> QED BY <1>11, <2>2 DEF TablesFit
<1>13. values \in [1 .. n -> Int]
  BY <1>9, <1>10, <1>12
<1>14. Beyond(rule, Percentile(values, n, rule.percentile)) /\ n \in Nat \ {0}
  BY <1>6, <1>7, <1>8, <1>10
<1>15. /\ Percentile(values, n, rule.percentile) > 100 * rule.threshold => \E i \in 1 .. n : values[i] > rule.threshold
       /\ Percentile(values, n, rule.percentile) < 100 * rule.threshold => \E i \in 1 .. n : values[i] < rule.threshold
  BY <1>1, <1>13, <1>14, PercentileWithin
<1>16. CASE rule.direction = "below"
  <2>1. PICK i \in 1 .. n : values[i] < rule.threshold
    BY <1>14, <1>15, <1>16 DEF Beyond
  <2> QED BY <1>4, <1>11, <1>16, <2>1 DEF Cause
<1>17. CASE rule.direction /= "below"
  <2>1. PICK i \in 1 .. n : values[i] > rule.threshold
    BY <1>14, <1>15, <1>17 DEF Beyond
  <2> QED BY <1>4, <1>11, <1>17, <2>1 DEF Cause
<1> QED BY <1>16, <1>17

(* An alert is raised only when a value of its window is beyond the threshold: *)
(* AlertEngine.evaluate, with percentiles that are interpolated.               *)
THEOREM AlertsAreCaused == TablesFit /\ MonitoringSpec => AlertsHaveACause
<1> SUFFICES ASSUME TablesFit PROVE MonitoringSpec => AlertsHaveACause
  OBVIOUS
<1>1. MonitoringIInv /\ [MonitoringNext]_monitoring_vars => [\A alert \in fired' \ fired : Cause(alert.rule)]_monitoring_vars
  <2> SUFFICES ASSUME MonitoringIInv, MonitoringNext, NEW alert \in fired' \ fired PROVE Cause(alert.rule)
    OBVIOUS
  <2>1. CASE Evaluate
    <3>1. PICK rule \in AlertRules : Triggered(rule) /\ alert = [rule |-> rule, at |-> now]
      BY <2>1 DEF Evaluate
    <3> QED BY <3>1, TriggeredByAValue
  <2>2. CASE CountersMove
    <3>1. UNCHANGED <<now, sla, alerts>>
      BY <2>2 DEF CountersMove, RecordTakeover, RecordCsat, RecordEscalation, RecordResolution, CloseMonth
    <3> QED BY <3>1 DEF alerts
  <2>3. CASE Tick \/ \E metric \in Metrics, value \in Values : Record(metric, value)
    BY <2>3 DEF Tick, Record, alerts
  <2>4. CASE (\E window \in Windows : SlaSummary(window)) \/ \E a \in pending : Notify(a)
    BY <2>4 DEF SlaSummary, Notify, alerts
  <2> QED BY <2>1, <2>2, <2>3, <2>4 DEF MonitoringNext, CountersMove
<1> QED BY <1>1, MonitoringInvariant, PTL DEF MonitoringSpec, AlertsHaveACause

-----------------------------------------------------------------------------
(* Months and bills                                                            *)

LEMMA BilledKeeps ==
  ASSUME TablesFit, MonitoringIInv, BilledOnce, [MonitoringNext]_monitoring_vars
  PROVE  BilledOnce'
<1>1. CASE UNCHANGED <<takeovers, monthly>>
  BY <1>1 DEF BilledOnce
<1>2. CASE \E takeover \in Takeovers : RecordTakeover(takeover)
  <2>1. PICK takeover \in Takeovers : RecordTakeover(takeover)
    BY <1>2
  <2> QED BY <2>1 DEF RecordTakeover, BilledOnce
<1>3. CASE \E period \in Periods : CloseMonth(period)
  <2>1. PICK period \in Periods : CloseMonth(period)
    BY <1>3
  <2>2. takeovers' = {} /\ monthly' = [monthly EXCEPT ![period] = CurrentSnapshot] /\ CurrentSnapshot.takeovers = takeovers
    BY <2>1 DEF CloseMonth, CurrentSnapshot
  <2>3. monthly'[period].takeovers = takeovers /\ \A p \in Periods : p /= period => monthly'[p] = monthly[p]
    BY <2>2 DEF MonitoringIInv, MonitoringTypeOK
  <2>4. \A p \in Periods : monthly'[p] /= NoSnapshot /\ p /= period => monthly'[p].takeovers \cap takeovers = {}
    BY <2>3 DEF BilledOnce
  <2> QED BY <2>2, <2>3, <2>4 DEF BilledOnce
<1>4. UNCHANGED <<takeovers, monthly>> \/ (\E takeover \in Takeovers : RecordTakeover(takeover))
                                      \/ (\E period \in Periods : CloseMonth(period))
  BY DEF MonitoringNext, Tick, Evaluate, Record, SlaSummary, Notify, RecordCsat, RecordEscalation, RecordResolution, live, monitoring_vars
<1> QED BY <1>1, <1>2, <1>3, <1>4

(* A takeover is in one final bill at most, and no longer counted then:        *)
(* close_month resets the live counters it copies.                             *)
THEOREM TakeoversBilledOnce == TablesFit /\ MonitoringSpec => []BilledOnce
<1> SUFFICES ASSUME TablesFit PROVE MonitoringSpec => []BilledOnce
  OBVIOUS
<1>1. MonitoringInit => BilledOnce
  BY DEF MonitoringInit, BilledOnce
<1>2. MonitoringIInv /\ BilledOnce /\ [MonitoringNext]_monitoring_vars => BilledOnce'
  BY BilledKeeps
<1> QED BY <1>1, <1>2, MonitoringInvariant, PTL DEF MonitoringSpec

(* What was counted is lost only when close_month overwrites the snapshot of   *)
(* a month that is closed already.                                             *)
THEOREM TakeoversStayCounted == TablesFit /\ MonitoringSpec => TakeoversAreKept
<1> SUFFICES ASSUME TablesFit PROVE MonitoringSpec => TakeoversAreKept
  OBVIOUS
<1>1. MonitoringIInv /\ [MonitoringNext]_monitoring_vars => [\A takeover \in Counted \ Counted' : Overwritten(takeover)]_monitoring_vars
  <2> SUFFICES ASSUME MonitoringIInv, MonitoringNext, NEW takeover \in Counted, takeover \notin Counted' PROVE Overwritten(takeover)
    OBVIOUS
  <2>1. CASE UNCHANGED <<takeovers, monthly>>
    BY <2>1 DEF Counted
  <2>2. CASE \E t \in Takeovers : RecordTakeover(t)
    BY <2>2 DEF RecordTakeover, Counted
  <2>3. CASE \E period \in Periods : CloseMonth(period)
    <3>1. PICK period \in Periods : CloseMonth(period)
      BY <2>3
    <3>2. monthly' = [monthly EXCEPT ![period] = CurrentSnapshot] /\ CurrentSnapshot.takeovers = takeovers
      BY <3>1 DEF CloseMonth, CurrentSnapshot
    <3>3. monthly'[period] = CurrentSnapshot /\ \A p \in Periods : p /= period => monthly'[p] = monthly[p]
      BY <3>2 DEF MonitoringIInv, MonitoringTypeOK
    <3>4. CurrentSnapshot /= NoSnapshot
      BY DEF CurrentSnapshot, Snapshots, MonitoringIInv, MonitoringTypeOK, TablesFit
    <3>5. takeover \notin takeovers
      BY <3>2, <3>3, <3>4 DEF Counted
    <3>6. PICK p \in Periods : monthly[p] /= NoSnapshot /\ takeover \in monthly[p].takeovers
      BY <3>5 DEF Counted
    <3>7. p = period
      BY <3>3, <3>6 DEF Counted
    <3> QED BY <3>3, <3>6, <3>7 DEF Overwritten
  <2>4. UNCHANGED <<takeovers, monthly>> \/ (\E t \in Takeovers : RecordTakeover(t))
                                        \/ (\E period \in Periods : CloseMonth(period))
    BY DEF MonitoringNext, Tick, Evaluate, Record, SlaSummary, Notify, RecordCsat, RecordEscalation, RecordResolution, live
  <2> QED BY <2>1, <2>2, <2>3, <2>4
<1> QED BY <1>1, MonitoringInvariant, PTL DEF MonitoringSpec, TakeoversAreKept

(* One round of a bill: nothing, all that is left, or what the tier has room   *)
(* for.                                                                        *)
Has(bill, remaining, prev_max, billed, total) ==
  bill.remaining = remaining /\ bill.prev_max = prev_max /\ bill.billed = billed /\ bill.total = total

LEMMA FillNothing ==
  ASSUME NEW bill, NEW tier, bill.remaining = 0
  PROVE  Fill(bill, tier) = bill
  BY DEF Fill

LEMMA FillLast ==
  ASSUME NEW bill, NEW tier, bill.remaining \in Int, bill.remaining > 0, tier.cap = Unlimited
  PROVE  Has(Fill(bill, tier), 0, bill.prev_max, bill.billed + bill.remaining,
             bill.total + tier.price * bill.remaining)
<1>1. Taken(bill, tier) = bill.remaining
  BY DEF Taken, Room
<1> QED BY <1>1 DEF Fill, Has

LEMMA FillFits ==
  ASSUME NEW bill, NEW tier, bill.remaining \in Int, bill.prev_max \in Int, bill.remaining > 0,
         tier.cap \in Int, tier.cap /= Unlimited, bill.remaining <= tier.cap - bill.prev_max
  PROVE  Has(Fill(bill, tier), 0, tier.cap, bill.billed + bill.remaining,
             bill.total + tier.price * bill.remaining)
<1>1. Taken(bill, tier) = bill.remaining
  BY DEF Taken, Room
<1> QED BY <1>1 DEF Fill, Has

LEMMA FillOver ==
  ASSUME NEW bill, NEW tier, bill.remaining \in Int, bill.prev_max \in Int, bill.remaining > 0,
         tier.cap \in Int, tier.cap /= Unlimited, bill.remaining > tier.cap - bill.prev_max,
         NEW room, room = tier.cap - bill.prev_max
  PROVE  Has(Fill(bill, tier), bill.remaining - room, tier.cap, bill.billed + room, bill.total + tier.price * room)
<1>1. Taken(bill, tier) = room
  BY DEF Taken, Room
<1> QED BY <1>1 DEF Fill, Has

Charge(n) ==
  IF n <= 100 THEN 0 ELSE IF n <= 1000 THEN 50 * (n - 100)
  ELSE IF n <= 10000 THEN 45000 + 30 * (n - 1000) ELSE 315000 + 15 * (n - 10000)

(* Every conversation of a month is billed in exactly one tier, at the price   *)
(* of the tier its number is in: TieredBilling.calculate with the default      *)
(* tiers.                                                                      *)
THEOREM ConversationsAreBilledOnce ==
  ASSUME NEW n \in Nat, Unlimited \notin Int
  PROVE  Calculate(n).billed = n /\ Calculate(n).remaining = 0 /\ Calculate(n).total = Charge(n)
<1> DEFINE start  == [remaining |-> n, prev_max |-> 0, billed |-> 0, total |-> 0]
           first  == Fill(start, DefaultTiers[1])
           second == Fill(first, DefaultTiers[2])
           third  == Fill(second, DefaultTiers[3])
           fourth == Fill(third, DefaultTiers[4])
<1>1. Calculate(n) = fourth
  BY DEF Calculate
<1>2. /\ DefaultTiers[1].cap = 100 /\ DefaultTiers[1].price = 0
      /\ DefaultTiers[2].cap = 1000 /\ DefaultTiers[2].price = 50
      /\ DefaultTiers[3].cap = 10000 /\ DefaultTiers[3].price = 30
      /\ DefaultTiers[4].cap = Unlimited /\ DefaultTiers[4].price = 15
      /\ 100 /= Unlimited /\ 1000 /= Unlimited /\ 10000 /= Unlimited
  BY DEF DefaultTiers
<1>3. start.remaining = n /\ start.prev_max = 0 /\ start.billed = 0 /\ start.total = 0
  OBVIOUS
<1> HIDE DEF start
<1>4. SUFFICES fourth.remaining = 0 /\ fourth.billed = n /\ fourth.total = Charge(n)
  BY <1>1
<1>5. CASE n = 0
  <2>1. first = start
    BY <1>3, <1>5, FillNothing
  <2>2. second = start
    BY <1>3, <1>5, <2>1, FillNothing
  <2>3. third = start
    BY <1>3, <1>5, <2>2, FillNothing
  <2>4. fourth = start
    BY <1>3, <1>5, <2>3, FillNothing
  <2> QED BY <1>3, <1>5, <2>4 DEF Charge
<1>6. CASE n \in 1 .. 100
  <2>1. Has(first, 0, DefaultTiers[1].cap, start.billed + start.remaining, start.total + DefaultTiers[1].price * start.remaining)
    <3>1. start.remaining \in Int /\ start.remaining > 0 /\ start.remaining <= DefaultTiers[1].cap - start.prev_max
      BY <1>2, <1>3, <1>6
    <3>2. start.prev_max \in Int /\ DefaultTiers[1].cap \in Int /\ DefaultTiers[1].cap /= Unlimited
      BY <1>2, <1>3
    <3> QED BY <3>1, <3>2, FillFits
  <2>2. first.remaining = 0 /\ first.billed = n /\ first.total = 0
    BY <1>2, <1>3, <1>6, <2>1 DEF Has
  <2> HIDE DEF first
  <2>3. second = first
    BY <2>2, FillNothing
  <2>4. third = first
    BY <2>2, <2>3, FillNothing
  <2>5. fourth = first
    BY <2>2, <2>4, FillNothing
  <2> QED BY <1>6, <2>2, <2>5 DEF Charge
<1>7. CASE n > 100
  <2>1. Has(first, start.remaining - 100, DefaultTiers[1].cap, start.billed + 100,
            start.total + DefaultTiers[1].price * 100)
    <3>1. /\ start.remaining \in Int /\ start.remaining > 0 /\ start.prev_max \in Int
          /\ start.remaining > DefaultTiers[1].cap - start.prev_max /\ 100 = DefaultTiers[1].cap - start.prev_max
      BY <1>2, <1>3, <1>7
    <3>2. DefaultTiers[1].cap \in Int /\ DefaultTiers[1].cap /= Unlimited
      BY <1>2
    <3> QED BY <3>1, <3>2, FillOver
  <2>2. first.remaining = n - 100 /\ first.prev_max = 100 /\ first.billed = 100 /\ first.total = 0
    BY <1>2, <1>3, <1>7, <2>1 DEF Has
  <2> HIDE DEF first
  <2>3. CASE n <= 1000
    <3>1. Has(second, 0, DefaultTiers[2].cap, first.billed + first.remaining,
              first.total + DefaultTiers[2].price * first.remaining)
      <4>1. /\ first.remaining \in Int /\ first.remaining > 0 /\ first.prev_max \in Int
            /\ first.remaining <= DefaultTiers[2].cap - first.prev_max
        BY <1>2, <1>7, <2>2, <2>3
      <4>2. DefaultTiers[2].cap \in Int /\ DefaultTiers[2].cap /= Unlimited
        BY <1>2
      <4> QED BY <4>1, <4>2, FillFits
    <3>2. second.remaining = 0 /\ second.billed = n /\ second.total = 50 * (n - 100)
      BY <1>2, <1>7, <2>2, <3>1 DEF Has
    <3> HIDE DEF second
    <3>3. third = second
      BY <3>2, FillNothing
    <3>4. fourth = second
      BY <3>2, <3>3, FillNothing
    <3> QED BY <1>7, <2>3, <3>2, <3>4 DEF Charge
  <2>4. CASE n > 1000
    <3>1. Has(second, first.remaining - 900, DefaultTiers[2].cap, first.billed + 900,
              first.total + DefaultTiers[2].price * 900)
      <4>1. /\ first.remaining \in Int /\ first.remaining > 0 /\ first.prev_max \in Int
            /\ first.remaining > DefaultTiers[2].cap - first.prev_max /\ 900 = DefaultTiers[2].cap - first.prev_max
        BY <1>2, <2>2, <2>4
      <4>2. DefaultTiers[2].cap \in Int /\ DefaultTiers[2].cap /= Unlimited
        BY <1>2
      <4> QED BY <4>1, <4>2, FillOver
    <3>2. second.remaining = n - 1000 /\ second.prev_max = 1000 /\ second.billed = 1000 /\ second.total = 45000
      BY <1>2, <2>2, <3>1 DEF Has
    <3> HIDE DEF second
    <3>3. CASE n <= 10000
      <4>1. Has(third, 0, DefaultTiers[3].cap, second.billed + second.remaining,
                second.total + DefaultTiers[3].price * second.remaining)
        <5>1. /\ second.remaining \in Int /\ second.remaining > 0 /\ second.prev_max \in Int
              /\ second.remaining <= DefaultTiers[3].cap - second.prev_max
          BY <1>2, <2>4, <3>2, <3>3
        <5>2. DefaultTiers[3].cap \in Int /\ DefaultTiers[3].cap /= Unlimited
          BY <1>2
        <5> QED BY <5>1, <5>2, FillFits
      <4>2. third.remaining = 0 /\ third.billed = n /\ third.total = 45000 + 30 * (n - 1000)
        BY <1>2, <2>4, <3>2, <4>1 DEF Has
      <4> HIDE DEF third
      <4>3. fourth = third
        BY <4>2, FillNothing
      <4> QED BY <2>4, <3>3, <4>2, <4>3 DEF Charge
    <3>4. CASE n > 10000
      <4>1. Has(third, second.remaining - 9000, DefaultTiers[3].cap, second.billed + 9000,
                second.total + DefaultTiers[3].price * 9000)
        <5>1. /\ second.remaining \in Int /\ second.remaining > 0 /\ second.prev_max \in Int
              /\ second.remaining > DefaultTiers[3].cap - second.prev_max /\ 9000 = DefaultTiers[3].cap - second.prev_max
          BY <1>2, <3>2, <3>4
        <5>2. DefaultTiers[3].cap \in Int /\ DefaultTiers[3].cap /= Unlimited
          BY <1>2
        <5> QED BY <5>1, <5>2, FillOver
      <4>2. third.remaining = n - 10000 /\ third.billed = 10000 /\ third.total = 315000
        BY <1>2, <3>2, <4>1 DEF Has
      <4> HIDE DEF third
      <4>3. Has(fourth, 0, third.prev_max, third.billed + third.remaining, third.total + DefaultTiers[4].price * third.remaining)
        BY <1>2, <3>4, <4>2, FillLast
      <4>4. fourth.remaining = 0 /\ fourth.billed = n /\ fourth.total = 315000 + 15 * (n - 10000)
        BY <1>2, <3>4, <4>2, <4>3 DEF Has
      <4> QED BY <3>4, <4>4 DEF Charge
    <3> QED BY <2>4, <3>3, <3>4
  <2> QED BY <1>7, <2>3, <2>4
<1> QED BY <1>5, <1>6, <1>7

(* More conversations never cost less.                                         *)
THEOREM BillsGrow ==
  ASSUME NEW m \in Nat, NEW n \in Nat, m <= n, Unlimited \notin Int
  PROVE  Calculate(m).total <= Calculate(n).total
<1>1. Calculate(m).total = Charge(m) /\ Calculate(n).total = Charge(n)
  BY ConversationsAreBilledOnce
<1>2. Charge(m) <= Charge(n)
  BY DEF Charge
<1> QED BY <1>1, <1>2

(* Months that are not closed are all billed what is counted at the moment:    *)
(* /api/billing/invoices bills it once for each of them.                       *)
THEOREM OpenMonthsShareTheCount ==
  ASSUME NEW p \in Periods, NEW q \in Periods, monthly[p] = NoSnapshot, monthly[q] = NoSnapshot
  PROVE  Invoices[p] = Invoices[q]
  BY DEF Invoices, GenerateBill, BillingSnapshot

(* The check of a tier list compares a cap with itself: TieredBilling refuses  *)
(* an empty list, and no other, whatever its gaps and overlaps.                *)
THEOREM NoTierListIsRefused ==
  ASSUME Unlimited \notin Int, NEW tiers \in Seq([cap : Int \cup {Unlimited}, price : Int]), tiers /= <<>>
  PROVE  ValidTiers(tiers)
<1> SUFFICES ASSUME NEW i \in DOMAIN tiers, Gap(tiers, i) PROVE FALSE
  BY DEF ValidTiers
<1>1. i \in Nat /\ i - 1 \in 1 .. Len(tiers) /\ i > 1
  BY DEF Gap
<1>2. tiers[i - 1].cap \in Int \cup {Unlimited}
  <2> DEFINE k == i - 1
             Tiers == [cap : Int \cup {Unlimited}, price : Int]
  <2>1. k \in 1 .. Len(tiers) /\ tiers \in Seq(Tiers)
    BY <1>1
  <2>2. tiers[k] \in Tiers
    <3> HIDE DEF k, Tiers
    <3> QED BY <2>1
  <2> QED BY <2>2
<1>3. Less(tiers[i - 1].cap, tiers[i - 1].cap)
  BY <1>1 DEF Gap, PrevMax
<1> QED BY <1>2, <1>3 DEF Less

-----------------------------------------------------------------------------
(* Proofs about KnowledgeBase: a search misses no chunk, whoever ingests at    *)
(* the same time; and when no source is ingested twice at a time a search      *)
(* finds nothing else either, and a document is there as one whole version.    *)

-----------------------------------------------------------------------------
(* The greatest element of a bounded set of numbers                          *)

LEMMA Least ==
  ASSUME NEW T, T \subseteq Nat, T # {}
  PROVE  \E x \in T : \A y \in T : x <= y
<1> DEFINE R == {ss \in Nat \X Nat : ss[1] < ss[2]}
<1>1. IsWellFoundedOn(R, Nat)
  BY NatLessThanWellFounded DEF OpToRel
<1>2. \A x, y \in Nat : y < x => <<y, x>> \in R
  OBVIOUS
<1> HIDE DEF R
<1>3. PICK x \in T : \A y \in T : ~ (<<y, x>> \in R)
  BY <1>1, WFMin
<1>4. ASSUME NEW y \in T PROVE x <= y
  <2>1. x \in Nat /\ y \in Nat /\ ~ (y < x)
    BY <1>2, <1>3
  <2> QED
    BY ONLY <2>1
<1> QED
  BY <1>4

LEMMA Greatest ==
  ASSUME NEW S, S \subseteq Nat, S # {}, NEW n \in Nat, \A x \in S : x <= n
  PROVE  Max(S) \in S /\ \A x \in S : x <= Max(S)
<1> DEFINE T == {n - x : x \in S}
<1>1. T \subseteq Nat /\ T # {}
  <2>1. ASSUME NEW x \in S PROVE n - x \in Nat
    OBVIOUS
  <2> QED
    BY <2>1
<1>2. PICK t \in T : \A y \in T : t <= y
  BY <1>1, Least
<1>3. PICK m \in S : t = n - m
  BY <1>2
<1>4. ASSUME NEW x \in S PROVE m >= x
  <2>1. n - x \in T /\ x \in Nat /\ m \in Nat
    OBVIOUS
  <2>2. n - m <= n - x
    BY <1>2, <1>3, <2>1
  <2> QED
    BY ONLY <2>1, <2>2, n \in Nat
<1>5. Max(S) \in S /\ \A x \in S : Max(S) >= x
  BY <1>4 DEF Max
<1> QED
  BY <1>5

-----------------------------------------------------------------------------
(* The invariant *)

Entry(r) == [row |-> r.row, term |-> r.term]

(* A table and its index: row numbers are used once and every chunk is       *)
(* indexed under its own.                                                    *)
Indexed(view) ==
  /\ \A r \in view.rows : r \in Chunk(r.term) /\ r.term \in Terms
  /\ \A e \in view.fts : e \in [row : Nat, term : Terms]
  /\ \E n \in Nat : \A r \in view.rows : r.row <= n
  /\ \A r, q \in view.rows : r.row = q.row => r = q
  /\ \A r \in view.rows : Entry(r) \in view.fts

(* And nothing else is in the index.                                         *)
ExactIndex(view) == \A e \in view.fts : \E r \in view.rows : e = Entry(r)

Committed == [rows |-> rows, fts |-> fts]

JobType == [pc : {"idle", "choosing", "clearing", "reading", "saving"}, queue : Seq(Sources),
            todo : Seq(Terms), count : Nat, page : Nat, runs : Nat]

Works(j) == job[j].pc \in {"reading", "saving"}

Base ==
  /\ TypeOK
  /\ job \in [Jobs -> JobType]
  /\ \A j \in Jobs : /\ Range(job[j].queue) \subseteq Range(SourcesOf[j])
                     /\ job[j].pc \in {"clearing", "reading", "saving"} => job[j].queue # <<>>
  /\ Indexed(Committed) /\ Indexed(tx)

(* What one ingest per source adds: while a source is ingested no chunk of   *)
(* it is committed, and the transaction adds this source's chunks alone.     *)
Apart ==
  /\ ExactIndex(Committed) /\ ExactIndex(tx)
  /\ \A j \in Jobs : Works(j) => /\ \A r \in rows : r.source # Source(j)
                                 /\ writer # j => job[j].count = 0
  /\ writer # NoJob => /\ rows \subseteq tx.rows
                       /\ \A r \in tx.rows : \/ r \in rows
                                             \/ r.source = Source(writer) /\ r.index < job[writer].count

(* What is read of a document and not yet saved is the rest of one version;  *)
(* what is saved, its beginning.                                             *)
Rest(j, v) ==
  /\ Len(ChunksOf[v]) = job[j].count + Len(job[j].todo)
  /\ \A i \in 1..Len(job[j].todo) : job[j].todo[i] = ChunksOf[v][job[j].count + i]
  /\ writer = j => ChunksIn(tx.rows, Source(j)) = FirstChunks(v, job[j].count)

Whole ==
  /\ DocumentsAreWhole
  /\ \A j \in Jobs : /\ Works(j) /\ Source(j) \notin Web /\ job[j].pc = "reading" => writer # j
                     /\ Works(j) /\ Source(j) \notin Web /\ job[j].pc = "saving" =>
                          \E v \in Versions : Rest(j, v)

-----------------------------------------------------------------------------
(* The operations on the tables                                              *)

LEMMA NextRowIsFresh ==
  ASSUME NEW view, Indexed(view)
  PROVE  NextRow(view) \in Nat /\ \A r \in view.rows : r.row < NextRow(view)
<1> DEFINE S == {r.row : r \in view.rows} \cup {0}
<1>1. PICK n \in Nat : \A r \in view.rows : r.row <= n
  BY DEF Indexed
<1>2. \A r \in view.rows : r.row \in Nat
  BY DEF Indexed, Chunk
<1>3. S \subseteq Nat /\ S # {} /\ \A x \in S : x <= n
  BY <1>1, <1>2
<1>4. Max(S) \in S /\ \A x \in S : x <= Max(S)
  BY ONLY <1>1, <1>3, Greatest
<1>5. NextRow(view) = 1 + Max(S)
  BY DEF NextRow
<1> HIDE DEF S
<1>6. Max(S) \in Nat /\ \A x \in S : x < 1 + Max(S)
  <2> DEFINE m == Max(S)
  <2>1. m \in Nat
    BY ONLY <1>3, <1>4
  <2> HIDE DEF m
  <2>2. ASSUME NEW x \in S PROVE x < 1 + m
    <3>1. x \in Nat /\ x <= m
      BY ONLY <1>3, <1>4, <2>2 DEF m
    <3> QED
      BY ONLY <2>1, <3>1
  <2> QED
    BY ONLY <2>1, <2>2 DEF m
<1>7. \A r \in view.rows : r.row \in S
  BY DEF S
<1> QED
  BY ONLY <1>5, <1>6, <1>7

LEMMA DeleteKeeps ==
  ASSUME NEW view, NEW gone, gone \subseteq view.rows, Indexed(view)
  PROVE  Indexed(Delete(view, gone)) /\ (ExactIndex(view) => ExactIndex(Delete(view, gone)))
<1> DEFINE after == Delete(view, gone)
<1>1. /\ after.rows = view.rows \ gone
      /\ after.fts = view.fts \ {Entry(r) : r \in gone}
  BY DEF Delete, Entry
<1> HIDE DEF after
<1>2. Indexed(after)
  <2>1. \E n \in Nat : \A r \in after.rows : r.row <= n
    BY <1>1 DEF Indexed
  <2>2. ASSUME NEW r \in after.rows PROVE Entry(r) \in after.fts
    <3>1. \A g \in gone : Entry(g) # Entry(r)
      BY <1>1 DEF Indexed, Entry
    <3> QED
      BY <1>1, <3>1 DEF Indexed
  <2> QED
    BY <1>1, <2>1, <2>2 DEF Indexed
<1>3. ASSUME ExactIndex(view) PROVE ExactIndex(after)
  BY <1>1, <1>3 DEF ExactIndex
<1> QED
  BY <1>2, <1>3 DEF after

LEMMA SaveKeeps ==
  ASSUME NEW view, NEW s \in Sources, NEW index \in Nat, NEW term \in Terms, Indexed(view)
  PROVE  LET after == SaveChunk(view, s, index, term) IN
         /\ Indexed(after)
         /\ (\A r \in view.rows : r.source = s => r.index < index) =>
              /\ ExactIndex(view) => ExactIndex(after)
              /\ view.rows \subseteq after.rows
              /\ ChunksIn(after.rows, s) = ChunksIn(view.rows, s) \cup {<<index, term>>}
         /\ \A r \in after.rows : r \in view.rows \/ (r.source = s /\ r.index = index)
<1> DEFINE after == SaveChunk(view, s, index, term)
           new   == NextRow(view)
           chunk == [row |-> new, source |-> s, index |-> index, term |-> term]
           left  == {r \in view.rows : r.source /= s \/ r.index /= index}
<1>1. new \in Nat /\ \A r \in view.rows : r.row < new
  BY NextRowIsFresh
<1>2. /\ after.rows = left \cup {chunk} /\ left \subseteq view.rows
      /\ after.fts = view.fts \cup {Entry(chunk)}
  BY DEF SaveChunk, Entry
<1>3. /\ chunk \in Chunk(chunk.term) /\ chunk.term \in Terms /\ chunk.row = new
      /\ chunk.source = s /\ chunk.index = index /\ chunk.term = term
      /\ Entry(chunk) \in [row : Nat, term : Terms]
  BY <1>1 DEF Chunk, Entry
<1>4. \A r \in left : r \in view.rows /\ (r.source /= s \/ r.index /= index)
  OBVIOUS
<1>5. \A r \in view.rows : r.source /= s \/ r.index /= index => r \in left
  OBVIOUS
<1> HIDE DEF after, new, chunk, left
<1>6. Indexed(after)
  <2>1. \A r \in after.rows : r.row \in Nat /\ r.row <= new
    BY <1>1, <1>2, <1>3 DEF Indexed, Chunk
  <2>2. \A r, q \in after.rows : r.row = q.row => r = q
    <3> SUFFICES ASSUME NEW r \in after.rows, NEW q \in after.rows, r.row = q.row PROVE r = q
      OBVIOUS
    <3>1. \A x \in view.rows : x.row \in Nat /\ x.row # new
      BY <1>1 DEF Indexed, Chunk
    <3> QED
      BY <1>2, <1>3, <1>4, <3>1 DEF Indexed
  <2>3. \A r \in after.rows : Entry(r) \in after.fts
    BY <1>2, <1>4 DEF Indexed
  <2>4. \A r \in after.rows : r \in Chunk(r.term) /\ r.term \in Terms
    BY <1>2, <1>3, <1>4 DEF Indexed
  <2>5. \A e \in after.fts : e \in [row : Nat, term : Terms]
    BY <1>2, <1>3 DEF Indexed
  <2>6. \E n \in Nat : \A r \in after.rows : r.row <= n
    BY <1>1, <2>1
  <2> QED
    BY <2>2, <2>3, <2>4, <2>5, <2>6 DEF Indexed
<1>7. ASSUME \A r \in view.rows : r.source = s => r.index < index
      PROVE  /\ ExactIndex(view) => ExactIndex(after)
             /\ view.rows \subseteq after.rows
             /\ ChunksIn(after.rows, s) = ChunksIn(view.rows, s) \cup {<<index, term>>}
  <2>1. \A r \in view.rows : r.index \in Nat
    BY DEF Indexed, Chunk
  <2>2. left = view.rows
    <3>1. ASSUME NEW r \in view.rows PROVE r \in left
      <4>1. r.index \in Nat /\ (r.source = s => r.index < index)
        BY <1>7, <2>1
      <4>2. r.source /= s \/ r.index /= index
        BY <4>1
      <4> QED
        BY <1>5, <4>2
    <3> QED
      BY <1>2, <3>1
  <2>3. ExactIndex(view) => ExactIndex(after)
    BY <1>2, <2>2 DEF ExactIndex
  <2>4. ChunksIn(after.rows, s) = ChunksIn(view.rows, s) \cup {<<index, term>>}
    BY <1>2, <1>3, <2>2 DEF ChunksIn
  <2> QED
    BY <1>2, <2>2, <2>3, <2>4
<1>8. \A r \in after.rows : r \in view.rows \/ (r.source = s /\ r.index = index)
  BY <1>2, <1>3
<1> QED
  BY <1>6, <1>7, <1>8 DEF after

-----------------------------------------------------------------------------
(* The ingest processes *)

LEMMA SourceTyped ==
  ASSUME Base, NEW j \in Jobs, job[j].queue # <<>>
  PROVE  /\ Source(j) \in Sources /\ Source(j) \in Range(SourcesOf[j])
         /\ Tail(job[j].queue) \in Seq(Sources) /\ Range(Tail(job[j].queue)) \subseteq Range(SourcesOf[j])
         /\ Source(j) = job[j].queue[1]
<1> DEFINE q == job[j].queue
<1>1. q \in Seq(Sources) /\ q # <<>> /\ Range(q) \subseteq Range(SourcesOf[j])
  BY DEF Base, JobType
<1>2. Source(j) = Head(q)
  BY DEF Source
<1> HIDE DEF q
<1>3. Head(q) = q[1] /\ 1 \in DOMAIN q /\ Head(q) \in Sources /\ Tail(q) \in Seq(Sources)
  BY ONLY <1>1
<1>4. \A i \in DOMAIN Tail(q) : i + 1 \in DOMAIN q /\ Tail(q)[i] = q[i + 1]
  BY ONLY <1>1
<1>5. Head(q) \in Range(q) /\ Range(Tail(q)) \subseteq Range(q)
  BY <1>3, <1>4 DEF Range
<1> QED
  BY <1>1, <1>2, <1>3, <1>5 DEF q

LEMMA TodoTyped ==
  ASSUME Base, NEW j \in Jobs, job[j].todo # <<>>
  PROVE  /\ Head(job[j].todo) \in Terms /\ Tail(job[j].todo) \in Seq(Terms)
         /\ Len(Tail(job[j].todo)) = Len(job[j].todo) - 1 /\ Len(job[j].todo) \in Nat \ {0}
         /\ Head(job[j].todo) = job[j].todo[1]
         /\ \A i \in 1..(Len(job[j].todo) - 1) : Tail(job[j].todo)[i] = job[j].todo[i + 1]
<1> DEFINE t == job[j].todo
<1>1. t \in Seq(Terms) /\ t # <<>>
  BY DEF Base, JobType
<1> HIDE DEF t
<1>2. /\ Head(t) \in Terms /\ Tail(t) \in Seq(Terms) /\ Len(Tail(t)) = Len(t) - 1 /\ Len(t) \in Nat \ {0}
      /\ Head(t) = t[1]
      /\ \A i \in 1..(Len(t) - 1) : Tail(t)[i] = t[i + 1]
  BY ONLY <1>1
<1> QED
  BY <1>2 DEF t

LEMMA ViewIndexed ==
  ASSUME Base, NEW j \in Jobs
  PROVE  Indexed(View(j)) /\ (Apart => ExactIndex(View(j)))
BY DEF Base, Apart, View, Committed

(* A step that leaves the tables alone: the writer stays or gives up.        *)
LEMMA BaseQuiet ==
  ASSUME Base, NEW j \in Jobs, NEW new \in JobType, job' = [job EXCEPT ![j] = new],
         UNCHANGED <<rows, fts, origin>>,
         \/ writer' = writer /\ tx' = tx /\ (writer = j => new.pc \in {"reading", "saving"})
         \/ writer = j /\ writer' = NoJob /\ tx' = NoTx,
         Range(new.queue) \subseteq Range(SourcesOf[j]),
         new.pc \in {"clearing", "reading", "saving"} => new.queue # <<>>
  PROVE  Base'
<1>1. /\ job' \in [Jobs -> JobType] /\ job'[j] = new /\ \A k \in Jobs \ {j} : job'[k] = job[k]
  BY DEF Base
<1>2. Indexed(NoTx)
  BY DEF Indexed, NoTx
<1>3. Indexed(Committed)' /\ Indexed(tx')
  BY <1>2 DEF Base, Committed, Indexed
<1>4. TypeOK'
  <2>1. NoTx.rows = {} /\ NoTx.fts = {}
    BY DEF NoTx
  <2> QED
    BY <1>1, <2>1, KnowledgeAssumption DEF Base, TypeOK
<1>5. \A k \in Jobs : /\ Range(job'[k].queue) \subseteq Range(SourcesOf[k])
                      /\ job'[k].pc \in {"clearing", "reading", "saving"} => job'[k].queue # <<>>
  BY <1>1 DEF Base
<1> QED
  BY <1>1, <1>3, <1>4, <1>5 DEF Base

LEMMA IdleTyped ==
  ASSUME NEW runs \in Nat
  PROVE  Idle(runs) \in JobType /\ Idle(runs).queue = <<>> /\ Idle(runs).pc = "idle"
<1>1. <<>> \in Seq(Sources) /\ <<>> \in Seq(Terms)
  OBVIOUS
<1> QED
  BY <1>1 DEF Idle, JobType

LEMMA EmptyRange == Range(<<>>) = {}
BY DEF Range

LEMMA JobOf ==
  ASSUME Base, NEW j \in Jobs
  PROVE  /\ job[j] \in JobType /\ Range(job[j].queue) \subseteq Range(SourcesOf[j])
         /\ job[j].pc \in {"clearing", "reading", "saving"} => job[j].queue # <<>>
         /\ writer = j => job[j].pc \in {"reading", "saving"}
BY KnowledgeAssumption DEF Base, TypeOK

LEMMA BaseStarts ==
  ASSUME Base, NEW j \in Jobs, Starts(j)
  PROVE  Base'
<1> DEFINE new == [Idle(job[j].runs + 1) EXCEPT !.pc = "choosing", !.queue = SourcesOf[j]]
<1>1. new \in JobType /\ new.queue = SourcesOf[j] /\ new.pc = "choosing"
  <2>1. job[j].runs + 1 \in Nat /\ SourcesOf[j] \in Seq(Sources)
    BY JobOf, KnowledgeAssumption DEF JobType
  <2> DEFINE old == Idle(job[j].runs + 1)
  <2>2. old \in JobType
    BY <2>1, IdleTyped
  <2>3. new = [old EXCEPT !.pc = "choosing", !.queue = SourcesOf[j]]
    OBVIOUS
  <2> HIDE DEF new, old
  <2> QED
    BY ONLY <2>1, <2>2, <2>3 DEF JobType
<1>2. writer # j
  BY JobOf DEF Starts
<1>3. job' = [job EXCEPT ![j] = new] /\ UNCHANGED <<rows, fts, writer, tx, origin>>
  BY DEF Starts
<1> HIDE DEF new
<1> QED
  BY <1>1, <1>2, <1>3, BaseQuiet

LEMMA BaseTakesSource ==
  ASSUME Base, NEW j \in Jobs, TakesSource(j)
  PROVE  Base'
<1>1. /\ writer # j /\ job[j] \in JobType /\ Range(job[j].queue) \subseteq Range(SourcesOf[j])
      /\ UNCHANGED <<rows, fts, writer, tx, origin>> /\ job[j].pc = "choosing"
  BY JobOf DEF TakesSource
<1>2. CASE job' = [job EXCEPT ![j] = Idle(job[j].runs)]
  BY <1>1, <1>2, IdleTyped, EmptyRange, BaseQuiet DEF JobType
<1>3. CASE job[j].queue # <<>> /\ job' = [job EXCEPT ![j].queue = Tail(job[j].queue)]
  <2> DEFINE new == [job[j] EXCEPT !.queue = Tail(job[j].queue)]
  <2>1. /\ new \in JobType /\ Range(new.queue) \subseteq Range(SourcesOf[j]) /\ new.pc = "choosing"
    BY <1>1, <1>3, SourceTyped DEF JobType
  <2>2. job' = [job EXCEPT ![j] = new]
    BY <1>3
  <2> HIDE DEF new
  <2> QED
    BY <1>1, <2>1, <2>2, BaseQuiet
<1>4. CASE job[j].queue # <<>> /\ job' = [job EXCEPT ![j].pc = "clearing"]
  <2> DEFINE new == [job[j] EXCEPT !.pc = "clearing"]
  <2>1. /\ new \in JobType /\ new.queue = job[j].queue /\ new.pc = "clearing"
    BY <1>1 DEF JobType
  <2>2. job' = [job EXCEPT ![j] = new]
    BY <1>4
  <2> HIDE DEF new
  <2> QED
    BY <1>1, <1>4, <2>1, <2>2, BaseQuiet
<1> QED
  BY <1>2, <1>3, <1>4 DEF TakesSource, MovesTo

LEMMA BaseReads ==
  ASSUME Base, NEW j \in Jobs, ReadsFile(j) \/ FetchesPage(j)
  PROVE  Base'
<1>1. /\ job[j] \in JobType /\ Range(job[j].queue) \subseteq Range(SourcesOf[j])
      /\ UNCHANGED <<rows, fts, writer, tx, origin>> /\ job[j].pc = "reading" /\ job[j].queue # <<>>
  BY JobOf DEF ReadsFile, FetchesPage
<1>2. PICK todo \in Seq(Terms), page \in Nat :
        job' = [job EXCEPT ![j] = [@ EXCEPT !.pc = "saving", !.todo = todo, !.page = page]]
  <2>1. CASE ReadsFile(j)
    <3>1. ChunksOf[origin[Source(j)]] \in Seq(Terms) /\ job[j].page \in Nat
      BY <1>1, <2>1, KnowledgeAssumption DEF ReadsFile, JobType
    <3>2. job' = [job EXCEPT ![j] = [@ EXCEPT !.pc = "saving", !.todo = ChunksOf[origin[Source(j)]],
                                              !.page = job[j].page]]
      BY <1>1, <2>1 DEF ReadsFile, JobType
    <3> QED
      BY <3>1, <3>2
  <2>2. CASE FetchesPage(j)
    <3>1. PICK todo : /\ \/ todo = <<>>
                         \/ /\ origin[Source(j)] \in Versions /\ job[j].page \in DOMAIN ChunksOf[origin[Source(j)]]
                            /\ todo = <<ChunksOf[origin[Source(j)]][job[j].page]>>
                      /\ job' = [job EXCEPT ![j].pc = "saving", ![j].todo = todo, ![j].page = job[j].page + 1]
      BY <2>2 DEF FetchesPage
    <3>2. todo \in Seq(Terms) /\ job[j].page + 1 \in Nat
      <4>1. <<>> \in Seq(Terms) /\ \A t \in Terms : <<t>> \in Seq(Terms)
        OBVIOUS
      <4>2. \A v \in Versions : \A i \in DOMAIN ChunksOf[v] : ChunksOf[v][i] \in Terms
        BY DEF Terms, Range
      <4>3. job[j].page + 1 \in Nat
        BY <1>1 DEF JobType
      <4>4. todo \in Seq(Terms)
        BY ONLY <3>1, <4>1, <4>2
      <4> QED
        BY <4>3, <4>4
    <3>3. job' = [job EXCEPT ![j] = [@ EXCEPT !.pc = "saving", !.todo = todo, !.page = job[j].page + 1]]
      BY <3>1
    <3> QED
      BY <3>2, <3>3
  <2> QED
    BY <2>1, <2>2
<1> DEFINE new == [job[j] EXCEPT !.pc = "saving", !.todo = todo, !.page = page]
<1>3. new \in JobType /\ new.queue = job[j].queue /\ new.pc = "saving"
  BY <1>1, <1>2 DEF JobType
<1>4. job' = [job EXCEPT ![j] = new]
  BY <1>2
<1> HIDE DEF new
<1> QED
  BY <1>1, <1>3, <1>4, BaseQuiet

LEMMA BaseDies ==
  ASSUME Base, NEW j \in Jobs, Dies(j)
  PROVE  Base'
<1>1. Idle(job[j].runs) \in JobType /\ Idle(job[j].runs).queue = <<>> /\ Idle(job[j].runs).pc = "idle"
  BY JobOf, IdleTyped DEF JobType
<1>2. /\ job' = [job EXCEPT ![j] = Idle(job[j].runs)] /\ UNCHANGED <<rows, fts, origin>>
      /\ \/ writer # j /\ writer' = writer /\ tx' = tx
         \/ writer = j /\ writer' = NoJob /\ tx' = NoTx
  BY DEF Dies
<1> QED
  BY <1>1, <1>2, EmptyRange, BaseQuiet

LEMMA BaseClears ==
  ASSUME Base, NEW j \in Jobs, Clears(j)
  PROVE  Base'
<1> DEFINE s     == Source(j)
           gone  == {r \in rows : r.source = s}
           after == Delete(Committed, gone)
<1>1. /\ writer = NoJob /\ UNCHANGED <<writer, tx, origin>> /\ job[j].pc = "clearing"
      /\ rows' = after.rows /\ fts' = after.fts
      /\ job' = [job EXCEPT ![j] = [@ EXCEPT !.pc = "reading", !.count = 0, !.page = 1]]
  BY KnowledgeAssumption DEF Clears, View, Committed, ClearSource
<1>2. Indexed(after)
  BY DeleteKeeps DEF Base, Committed
<1>3. Committed' = [rows |-> after.rows, fts |-> after.fts]
  BY <1>1 DEF Committed
<1>4. Indexed(Committed)'
  BY <1>2, <1>3 DEF Indexed
<1> HIDE DEF after
<1>5. job[j] \in JobType /\ job[j].queue # <<>>
  BY <1>1, JobOf
<1> DEFINE new == [job[j] EXCEPT !.pc = "reading", !.count = 0, !.page = 1]
<1>6. new \in JobType /\ new.queue = job[j].queue /\ new.pc = "reading"
  BY <1>5 DEF JobType
<1>7. job' = [job EXCEPT ![j] = new]
  BY <1>1
<1> HIDE DEF new
<1>8. /\ job' \in [Jobs -> JobType]
      /\ \A k \in Jobs : /\ Range(job'[k].queue) \subseteq Range(SourcesOf[k])
                         /\ job'[k].pc \in {"clearing", "reading", "saving"} => job'[k].queue # <<>>
  BY <1>5, <1>6, <1>7 DEF Base
<1>9. TypeOK'
  <2>1. /\ \A r \in rows' : r \in Chunk(r.term) /\ r.term \in Terms
        /\ \A e \in fts' : e \in [row : Nat, term : Terms]
    BY <1>1, <1>2 DEF Indexed
  <2> QED
    BY <1>1, <2>1 DEF Base, TypeOK
<1> QED
  BY <1>1, <1>4, <1>8, <1>9 DEF Base, Indexed

(* One chunk saved: the writer's transaction and count move on.              *)
LEMMA BaseSaves ==
  ASSUME Base, NEW j \in Jobs, Saves(j)
  PROVE  Base'
<1> DEFINE term == Head(job[j].todo)
           new  == [job[j] EXCEPT !.todo = Tail(job[j].todo), !.count = job[j].count + 1]
<1>1. /\ job[j].pc = "saving" /\ job[j] \in JobType /\ job[j].queue # <<>> /\ job[j].todo # <<>>
      /\ writer' = j /\ tx' = SaveChunk(View(j), Source(j), job[j].count, term)
      /\ UNCHANGED <<rows, fts, origin>> /\ job[j].count \in Nat
  BY JobOf DEF Saves, JobType
<1>2. Source(j) \in Sources /\ term \in Terms /\ Tail(job[j].todo) \in Seq(Terms)
  BY <1>1, SourceTyped, TodoTyped
<1>3. Indexed(tx')
  BY <1>1, <1>2, ViewIndexed, SaveKeeps
<1>4. new \in JobType /\ new.queue = job[j].queue /\ new.pc = "saving"
  <2> DEFINE old == job[j]
             n   == job[j].count + 1
  <2>1. old \in JobType /\ old.pc = "saving" /\ Tail(old.todo) \in Seq(Terms) /\ n \in Nat
    BY <1>1, <1>2
  <2>2. new = [old EXCEPT !.todo = Tail(old.todo), !.count = n]
    OBVIOUS
  <2> HIDE DEF new, old, n
  <2>3. new \in JobType /\ new.queue = old.queue /\ new.pc = "saving"
    BY ONLY <2>1, <2>2 DEF JobType
  <2> QED
    BY <2>3 DEF old
<1>5. job' = [job EXCEPT ![j] = new]
  BY DEF Saves
<1> HIDE DEF new, term
<1>6. /\ job' \in [Jobs -> JobType] /\ job'[j].pc = "saving"
      /\ \A k \in Jobs : /\ Range(job'[k].queue) \subseteq Range(SourcesOf[k])
                         /\ job'[k].pc \in {"clearing", "reading", "saving"} => job'[k].queue # <<>>
  BY <1>1, <1>4, <1>5 DEF Base
<1>7. Indexed(Committed)'
  BY <1>1 DEF Base, Committed, Indexed
<1>8. TypeOK'
  <2>1. /\ \A r \in tx'.rows : r \in Chunk(r.term) /\ r.term \in Terms
        /\ \A e \in tx'.fts : e \in [row : Nat, term : Terms]
    BY <1>3 DEF Indexed
  <2> QED
    BY <1>1, <1>6, <2>1, KnowledgeAssumption DEF Base, TypeOK
<1> QED
  BY <1>3, <1>6, <1>7, <1>8 DEF Base, Indexed

LEMMA BaseHasSaved ==
  ASSUME Base, NEW j \in Jobs, HasSaved(j)
  PROVE  Base'
<1>1. /\ job[j].pc = "saving" /\ job[j] \in JobType /\ job[j].queue # <<>> /\ UNCHANGED origin
      /\ Range(job[j].queue) \subseteq Range(SourcesOf[j])
  BY JobOf DEF HasSaved
<1>2. CASE UNCHANGED <<rows, fts, writer, tx>> /\ job' = [job EXCEPT ![j].pc = "reading"]
  <2> DEFINE new == [job[j] EXCEPT !.pc = "reading"]
  <2>1. new \in JobType /\ new.queue = job[j].queue /\ new.pc = "reading"
    BY <1>1 DEF JobType
  <2>2. job' = [job EXCEPT ![j] = new]
    BY <1>2
  <2> HIDE DEF new
  <2> QED
    BY <1>1, <1>2, <2>1, <2>2, BaseQuiet
<1>3. CASE /\ rows' = View(j).rows /\ fts' = View(j).fts
           /\ writer' = (IF writer = j THEN NoJob ELSE writer) /\ tx' = (IF writer = j THEN NoTx ELSE tx)
           /\ job' = [job EXCEPT ![j].pc = "choosing", ![j].queue = Tail(job[j].queue)]
  <2> DEFINE new == [job[j] EXCEPT !.pc = "choosing", !.queue = Tail(job[j].queue)]
  <2>1. new \in JobType /\ Range(new.queue) \subseteq Range(SourcesOf[j]) /\ new.pc = "choosing"
    BY <1>1, SourceTyped DEF JobType
  <2>2. job' = [job EXCEPT ![j] = new]
    BY <1>3
  <2> HIDE DEF new
  <2>3. /\ job' \in [Jobs -> JobType] /\ \A k \in Jobs \ {j} : job'[k] = job[k]
        /\ \A k \in Jobs : /\ Range(job'[k].queue) \subseteq Range(SourcesOf[k])
                           /\ job'[k].pc \in {"clearing", "reading", "saving"} => job'[k].queue # <<>>
    BY <2>1, <2>2 DEF Base
  <2>4. Indexed(View(j))
    BY ViewIndexed
  <2>5. Indexed(Committed)'
    BY <1>3, <2>4 DEF Committed, Indexed
  <2>6. NoTx.rows = {} /\ NoTx.fts = {}
    BY DEF NoTx
  <2>7. Indexed(tx')
    BY <1>3, <2>6 DEF Base, Indexed
  <2>8. TypeOK'
    <3>1. /\ \A r \in rows' : r \in Chunk(r.term) /\ r.term \in Terms
          /\ \A e \in fts' : e \in [row : Nat, term : Terms]
      BY <1>3, <2>4 DEF Indexed
    <3> QED
      BY <1>1, <1>3, <2>3, <2>6, <3>1, KnowledgeAssumption DEF Base, TypeOK
  <2> QED
    BY <2>3, <2>5, <2>7, <2>8 DEF Base
<1> QED
  BY <1>2, <1>3 DEF HasSaved, MovesTo

LEMMA BaseSteps ==
  ASSUME Base, [Next]_vars
  PROVE  Base'
<1>1. CASE UNCHANGED vars
  BY <1>1 DEF vars, Base, TypeOK, Committed, Indexed
<1>2. ASSUME NEW s \in Sources, Edited(s) PROVE Base'
  <2>1. UNCHANGED <<rows, fts, writer, tx, job>> /\ origin' \in [Sources -> Origins]
    BY <1>2 DEF Edited, Base, TypeOK
  <2> QED
    BY <2>1 DEF Base, TypeOK, Committed, Indexed
<1> QED
  BY <1>1, <1>2, BaseStarts, BaseTakesSource, BaseReads, BaseDies, BaseClears, BaseSaves, BaseHasSaved
     DEF Next, Step

LEMMA BaseInit == Init => Base
<1> SUFFICES ASSUME Init PROVE Base
  OBVIOUS
<1>1. Committed.rows = {} /\ Committed.fts = {} /\ NoTx.rows = {} /\ NoTx.fts = {}
  BY DEF Init, Committed, NoTx
<1>2. Indexed(Committed) /\ Indexed(tx)
  BY <1>1 DEF Init, Indexed
<1>3. \A j \in Jobs : job[j] \in JobType /\ job[j].queue = <<>> /\ job[j].pc = "idle"
  BY IdleTyped DEF Init
<1>4. job \in [Jobs -> JobType]
  BY <1>3 DEF Init
<1> QED
  BY <1>1, <1>2, <1>3, <1>4, EmptyRange DEF Init, Base, TypeOK, Origins

(* A search misses no chunk that holds its term, also when two ingests take  *)
(* the same source at the same time (triggers kb_ai and kb_ad).              *)
SearchMissesNothing == \A t \in Terms : {r \in rows : r.term = t} \subseteq Matching(t)

THEOREM SearchesMissNothing == Spec => []SearchMissesNothing
<1>1. Base => SearchMissesNothing
  BY DEF Base, Indexed, Committed, SearchMissesNothing, Matching, Entry
<1>2. Base /\ [Next]_vars => Base'
  BY BaseSteps
<1> QED
  BY <1>1, <1>2, BaseInit, PTL DEF Spec

-----------------------------------------------------------------------------
(* One ingest per source                                                     *)

LEMMA SourcesApart ==
  ASSUME OneIngestPerSource, Base, NEW j \in Jobs, NEW k \in Jobs, j # k,
         job[j].queue # <<>>, job[k].queue # <<>>
  PROVE  Source(j) # Source(k)
BY SourceTyped DEF OneIngestPerSource

LEMMA ApartQuiet ==
  ASSUME Base, Apart, NEW j \in Jobs, \A k \in Jobs \ {j} : job'[k] = job[k], UNCHANGED <<rows, fts>>,
         \/ writer' = writer /\ tx' = tx /\ (writer = j => job'[j].pc \in {"reading", "saving"})
         \/ writer = j /\ writer' = NoJob /\ tx' = NoTx,
         job'[j].pc \in {"reading", "saving"} => /\ Works(j) /\ job'[j].queue = job[j].queue
                                                 /\ job'[j].count = job[j].count /\ writer' = writer
  PROVE  Apart'
<1>1. \A k \in Jobs \ {j} : job'[k] = job[k]
  OBVIOUS
<1>2. NoTx.rows = {} /\ NoTx.fts = {}
  BY DEF NoTx
<1>3. ExactIndex(Committed)' /\ ExactIndex(tx')
  BY <1>2 DEF Apart, Committed, ExactIndex
<1>4. ASSUME NEW k \in Jobs, Works(k)' PROVE Works(k) /\ Source(k)' = Source(k) /\ job'[k].count = job[k].count
  BY <1>1, <1>4 DEF Works, Source
<1>5. ASSUME NEW k \in Jobs, Works(k)'
      PROVE  /\ \A r \in rows' : r.source # Source(k)'
             /\ writer' # k => job'[k].count = 0
  BY <1>1, <1>4, <1>5 DEF Apart, Works
<1>6. ASSUME writer' # NoJob
      PROVE  /\ rows' \subseteq tx'.rows
             /\ \A r \in tx'.rows : \/ r \in rows'
                                    \/ r.source = Source(writer)' /\ r.index < job'[writer'].count
  <2>1. writer' = writer /\ tx' = tx /\ writer \in Jobs
    BY <1>6 DEF Base, TypeOK
  <2>2. Works(writer)'
    BY <1>1, <1>6, <2>1 DEF Base, TypeOK, Works
  <2>3. Source(writer)' = Source(writer) /\ job'[writer'].count = job[writer].count
    BY <1>4, <2>1, <2>2 DEF Source, Works
  <2> QED
    BY <1>6, <2>1, <2>3 DEF Apart
<1> QED
  BY <1>3, <1>5, <1>6 DEF Apart

LEMMA ApartClears ==
  ASSUME OneIngestPerSource, Base, Apart, NEW j \in Jobs, Clears(j)
  PROVE  Apart'
<1> DEFINE s     == Source(j)
           gone  == {r \in rows : r.source = s}
           after == Delete(Committed, gone)
<1>1. /\ writer = NoJob /\ UNCHANGED <<writer, tx>> /\ job[j].pc = "clearing"
      /\ rows' = after.rows /\ fts' = after.fts /\ after.rows = rows \ gone
      /\ job'[j].count = 0 /\ job'[j].queue = job[j].queue /\ \A k \in Jobs \ {j} : job'[k] = job[k]
  BY KnowledgeAssumption DEF Clears, View, Committed, ClearSource, Base, JobType, Delete
<1>2. ExactIndex(after)
  BY DeleteKeeps DEF Base, Committed, Apart
<1>3. ExactIndex(Committed)' /\ ExactIndex(tx')
  BY <1>1, <1>2 DEF Apart, Committed, ExactIndex
<1> HIDE DEF after
<1>4. ASSUME NEW k \in Jobs, Works(k)'
      PROVE  /\ \A r \in rows' : r.source # Source(k)'
             /\ writer' # k => job'[k].count = 0
  BY <1>1, <1>4 DEF Works, Apart, Source
<1> QED
  BY <1>1, <1>3, <1>4 DEF Apart

(* What the writer adds to.                                                  *)
LEMMA ViewApart ==
  ASSUME Base, Apart, NEW j \in Jobs, Works(j), writer \in {NoJob, j}
  PROVE  /\ rows \subseteq View(j).rows
         /\ \A r \in View(j).rows : r \in rows \/ (r.source = Source(j) /\ r.index < job[j].count)
         /\ \A r \in View(j).rows : r.source = Source(j) => r.index < job[j].count
BY KnowledgeAssumption DEF Apart, View

LEMMA ApartSaves ==
  ASSUME OneIngestPerSource, Base, Apart, NEW j \in Jobs, Saves(j)
  PROVE  Apart'
<1> DEFINE term == Head(job[j].todo)
           s    == Source(j)
           n    == job[j].count
<1>1. /\ Works(j) /\ job[j] \in JobType /\ job[j].queue # <<>> /\ job[j].todo # <<>> /\ writer \in {NoJob, j}
      /\ writer' = j /\ tx' = SaveChunk(View(j), s, n, term)
      /\ UNCHANGED <<rows, fts>> /\ n \in Nat
  BY JobOf DEF Saves, JobType, Works
<1>2. s \in Sources /\ term \in Terms
  BY <1>1, SourceTyped, TodoTyped
<1>3. /\ job'[j].pc = "saving" /\ job'[j].count = n + 1 /\ job'[j].queue = job[j].queue
      /\ \A k \in Jobs \ {j} : job'[k] = job[k]
  BY DEF Saves, Base, JobType
<1>4. /\ \A r \in View(j).rows : r.source = s => r.index < n
      /\ rows \subseteq View(j).rows
      /\ \A r \in View(j).rows : r \in rows \/ (r.source = s /\ r.index < n)
  BY <1>1, ViewApart
<1>5. Indexed(View(j)) /\ ExactIndex(View(j))
  BY ViewIndexed
<1>6. /\ ExactIndex(tx') /\ View(j).rows \subseteq tx'.rows
      /\ \A r \in tx'.rows : r \in View(j).rows \/ (r.source = s /\ r.index = n)
  BY <1>1, <1>2, <1>4, <1>5, SaveKeeps
<1> HIDE DEF term, s, n
<1>7. /\ rows' \subseteq tx'.rows
      /\ \A r \in tx'.rows : r \in rows' \/ (r.source = s /\ r.index < n + 1)
  <2>1. \A r \in View(j).rows : r.index \in Nat
    BY <1>5 DEF Indexed, Chunk
  <2>2. ASSUME NEW r \in tx'.rows PROVE r \in rows' \/ (r.source = s /\ r.index < n + 1)
    <3>1. CASE r \in View(j).rows /\ r.source = s /\ r.index < n
      <4>1. r.index \in Nat
        BY <2>1, <3>1
      <4> QED
        BY <1>1, <3>1, <4>1
    <3>2. CASE r.source = s /\ r.index = n
      BY <1>1, <3>2
    <3> QED
      BY <1>1, <1>4, <1>6, <3>1, <3>2
  <2> QED
    BY <1>1, <1>4, <1>6, <2>2
<1>8. Source(j)' = s
  BY <1>3 DEF Source, s
<1>9. ASSUME NEW k \in Jobs, Works(k)'
      PROVE  /\ \A r \in rows' : r.source # Source(k)'
             /\ writer' # k => job'[k].count = 0
  <2>1. CASE k = j
    BY <1>1, <1>8, <2>1 DEF Apart, s
  <2>2. CASE k # j
    BY <1>1, <1>3, <1>9, <2>2, KnowledgeAssumption DEF Apart, Works, Source
  <2> QED
    BY <2>1, <2>2
<1>10. ExactIndex(Committed)'
  BY <1>1 DEF Apart, Committed, ExactIndex
<1>11. writer' # NoJob => /\ rows' \subseteq tx'.rows
                          /\ \A r \in tx'.rows : \/ r \in rows'
                                                 \/ r.source = Source(writer)' /\ r.index < job'[writer'].count
  <2>1. Source(writer)' = Source(j)'
    BY <1>1 DEF Source
  <2> QED
    BY <1>1, <1>3, <1>7, <1>8, <2>1
<1> QED
  BY <1>6, <1>9, <1>10, <1>11 DEF Apart

(* What a commit publishes: the transaction of the process, if it has one.   *)
LEMMA CommitApart ==
  ASSUME Base, Apart, NEW j \in Jobs
  PROVE  /\ rows \subseteq View(j).rows
         /\ \A r \in View(j).rows : \/ r \in rows
                                    \/ writer = j /\ r.source = Source(j) /\ r.index < job[j].count
BY KnowledgeAssumption DEF Apart, View

LEMMA ApartHasSaved ==
  ASSUME OneIngestPerSource, Base, Apart, NEW j \in Jobs, HasSaved(j)
  PROVE  Apart'
<1>1. job[j].pc = "saving" /\ job[j].queue # <<>> /\ Works(j)
  BY JobOf DEF HasSaved, Works
<1>2. CASE UNCHANGED <<rows, fts, writer, tx>> /\ job' = [job EXCEPT ![j].pc = "reading"]
  <2>1. /\ job'[j].pc = "reading" /\ job'[j].queue = job[j].queue /\ job'[j].count = job[j].count
        /\ \A k \in Jobs \ {j} : job'[k] = job[k]
    BY <1>1, <1>2, JobOf DEF JobType, Base
  <2> QED
    BY <1>1, <1>2, <2>1, ApartQuiet
<1>3. CASE /\ rows' = View(j).rows /\ fts' = View(j).fts
           /\ writer' = (IF writer = j THEN NoJob ELSE writer) /\ tx' = (IF writer = j THEN NoTx ELSE tx)
           /\ job' = [job EXCEPT ![j].pc = "choosing", ![j].queue = Tail(job[j].queue)]
  <2>1. job'[j].pc = "choosing" /\ \A k \in Jobs \ {j} : job'[k] = job[k]
    BY <1>3 DEF Base, JobType
  <2>2. ExactIndex(View(j))
    BY ViewIndexed
  <2>3. ExactIndex(Committed)'
    BY <1>3, <2>2 DEF Committed, ExactIndex
  <2>4. NoTx.rows = {} /\ NoTx.fts = {}
    BY DEF NoTx
  <2>5. ExactIndex(tx')
    BY <1>3, <2>4 DEF Apart, ExactIndex
  <2>6. ASSUME NEW k \in Jobs, Works(k)'
        PROVE  /\ \A r \in rows' : r.source # Source(k)'
               /\ writer' # k => job'[k].count = 0
    <3>1. k # j /\ Works(k) /\ Source(k)' = Source(k) /\ job'[k] = job[k]
      BY <2>1, <2>6 DEF Works, Source
    <3>2. job[k].queue # <<>>
      BY <3>1, JobOf DEF Works
    <3>3. Source(k) # Source(j)
      BY <1>1, <3>1, <3>2, SourcesApart
    <3>4. \A r \in rows' : r.source # Source(k)
      BY <1>3, <3>1, <3>3, CommitApart DEF Apart
    <3>5. writer' # k => writer # k
      BY <1>3, <3>1
    <3> QED
      BY <3>1, <3>4, <3>5 DEF Apart
  <2>7. ASSUME writer' # NoJob
        PROVE  /\ rows' \subseteq tx'.rows
               /\ \A r \in tx'.rows : \/ r \in rows'
                                      \/ r.source = Source(writer)' /\ r.index < job'[writer'].count
    <3>1. writer' = writer /\ tx' = tx /\ writer \in Jobs \ {j} /\ rows' = rows
      BY <1>3, <2>7 DEF Base, TypeOK, View
    <3>2. Source(writer)' = Source(writer) /\ job'[writer'].count = job[writer].count
      BY <2>1, <3>1 DEF Source
    <3> QED
      BY <2>7, <3>1, <3>2 DEF Apart
  <2> QED
    BY <2>3, <2>5, <2>6, <2>7 DEF Apart
<1> QED
  BY <1>2, <1>3 DEF HasSaved, MovesTo

LEMMA ApartOthers ==
  ASSUME Base, Apart, NEW j \in Jobs,
         Starts(j) \/ TakesSource(j) \/ ReadsFile(j) \/ FetchesPage(j) \/ Dies(j)
  PROVE  Apart'
<1>1. job[j] \in JobType /\ (writer = j => job[j].pc \in {"reading", "saving"})
  BY JobOf
<1>2. CASE Starts(j) \/ TakesSource(j)
  <2>1. job'[j].pc \in {"idle", "choosing", "clearing"}
    <3>1. CASE Starts(j)
      BY <1>1, <3>1 DEF Starts, Base, Idle
    <3>2. CASE TakesSource(j)
      BY <1>1, <3>2 DEF TakesSource, MovesTo, Base, Idle, JobType
    <3> QED
      BY <1>2, <3>1, <3>2
  <2>2. UNCHANGED <<rows, fts, writer, tx>> /\ writer # j /\ \A k \in Jobs \ {j} : job'[k] = job[k]
    BY <1>1, <1>2 DEF Starts, TakesSource, MovesTo, Base
  <2> QED
    BY <2>1, <2>2, ApartQuiet
<1>3. CASE ReadsFile(j) \/ FetchesPage(j)
  <2>1. job'[j].pc = "saving" /\ job'[j].queue = job[j].queue /\ job'[j].count = job[j].count
    <3>1. CASE ReadsFile(j)
      BY <1>1, <3>1 DEF ReadsFile, Base, JobType
    <3>2. CASE FetchesPage(j)
      <4>1. PICK todo : job' = [job EXCEPT ![j].pc = "saving", ![j].todo = todo, ![j].page = job[j].page + 1]
        BY <3>2 DEF FetchesPage
      <4> QED
        BY <1>1, <4>1 DEF Base, JobType
    <3> QED
      BY <1>3, <3>1, <3>2
  <2>2. /\ job[j].pc = "reading" /\ UNCHANGED <<rows, fts, writer, tx>>
        /\ \A k \in Jobs \ {j} : job'[k] = job[k]
    BY <1>3 DEF ReadsFile, FetchesPage, Base
  <2> QED
    BY <2>1, <2>2, ApartQuiet DEF Works
<1>4. CASE Dies(j)
  <2>1. /\ job'[j].pc = "idle" /\ \A k \in Jobs \ {j} : job'[k] = job[k]
        /\ UNCHANGED <<rows, fts>>
        /\ \/ writer # j /\ writer' = writer /\ tx' = tx
           \/ writer = j /\ writer' = NoJob /\ tx' = NoTx
    BY <1>4 DEF Dies, Idle, Base
  <2> QED
    BY <2>1, ApartQuiet
<1> QED
  BY <1>2, <1>3, <1>4

LEMMA ApartSteps ==
  ASSUME OneIngestPerSource, Base, Apart, [Next]_vars
  PROVE  Apart'
<1>1. CASE UNCHANGED <<rows, fts, writer, tx, job>>
  BY <1>1 DEF Apart, Committed, ExactIndex, Works, Source
<1>2. UNCHANGED vars \/ (\E s \in Sources : Edited(s)) => UNCHANGED <<rows, fts, writer, tx, job>>
  BY DEF vars, Edited
<1> QED
  BY <1>1, <1>2, ApartOthers, ApartClears, ApartSaves, ApartHasSaved DEF Next, Step

LEMMA ApartInit == Init => Apart
<1> SUFFICES ASSUME Init PROVE Apart
  OBVIOUS
<1>1. Committed.fts = {} /\ NoTx.fts = {}
  BY DEF Init, Committed, NoTx
<1> QED
  BY <1>1 DEF Init, Apart, ExactIndex, Works, Idle

(* When no source is ingested twice at a time a search finds exactly the     *)
(* chunks that hold its term: no entry of an old chunk leads to another one  *)
(* (triggers kb_ai and kb_ad, clear_source, save_chunk).                     *)
THEOREM SearchesAreExact == ASSUME OneIngestPerSource PROVE Spec => []SearchIsExact
<1>1. Base /\ Apart => SearchIsExact
  <2> SUFFICES ASSUME Base, Apart PROVE SearchIsExact
    OBVIOUS
  <2>1. \A r \in rows : [row |-> r.row, term |-> r.term] \in fts
    BY DEF Base, Indexed, Committed, Entry
  <2>2. ASSUME NEW r \in rows, NEW t \in Terms, [row |-> r.row, term |-> t] \in fts PROVE r.term = t
    <3>1. PICK q \in rows : [row |-> r.row, term |-> t] = [row |-> q.row, term |-> q.term]
      BY <2>2 DEF Apart, ExactIndex, Committed, Entry
    <3>2. r.row = q.row /\ t = q.term
      BY <3>1
    <3> QED
      BY <3>2 DEF Base, Indexed, Committed
  <2>3. \A t \in Terms : Matching(t) = {r \in rows : r.term = t}
    BY <2>1, <2>2 DEF Matching
  <2> QED
    BY <2>3 DEF Base, SearchIsExact, Search
<1>2. Base /\ Apart /\ [Next]_vars => Base' /\ Apart'
  BY BaseSteps, ApartSteps
<1> QED
  BY <1>1, <1>2, BaseInit, ApartInit, PTL DEF Spec

-----------------------------------------------------------------------------
(* Documents are whole *)

(* The document a process reads: nothing of the transaction is its own until *)
(* it saves, and then what is saved and what is left make up one version.    *)
ReadsWhole(j) ==
  Works(j) /\ Source(j) \notin Web =>
    /\ job[j].pc = "reading" => writer # j
    /\ job[j].pc = "saving" => \E v \in Versions : Rest(j, v)

LEMMA WholeIs == Whole <=> DocumentsAreWhole /\ \A j \in Jobs : ReadsWhole(j)
BY DEF Whole, ReadsWhole

(* What another process does is nothing to it.                               *)
LEMMA ReadsOn ==
  ASSUME NEW k \in Jobs, ReadsWhole(k), job'[k] = job[k], writer' = k => writer = k /\ tx' = tx
  PROVE  ReadsWhole(k)'
<1>1. Works(k)' = Works(k) /\ Source(k)' = Source(k)
  BY DEF Works, Source
<1>2. ASSUME NEW v \in Versions, Rest(k, v) PROVE Rest(k, v)'
  BY <1>1, <1>2 DEF Rest, Source
<1> QED
  BY <1>1, <1>2 DEF ReadsWhole

(* A step that leaves the committed chunks alone and does not save.          *)
LEMMA WholeQuiet ==
  ASSUME Whole, NEW j \in Jobs, rows' = rows, \A k \in Jobs \ {j} : job'[k] = job[k],
         \/ writer' = writer /\ tx' = tx
         \/ writer = j /\ writer' \notin Jobs,
         ReadsWhole(j)'
  PROVE  Whole'
<1>1. DocumentsAreWhole'
  BY WholeIs DEF DocumentsAreWhole
<1>2. \A k \in Jobs \ {j} : ReadsWhole(k)'
  BY WholeIs, ReadsOn
<1> QED
  BY <1>1, <1>2 DEF Whole, ReadsWhole

LEMMA WholeOthers ==
  ASSUME Base, Apart, Whole, NEW j \in Jobs,
         Starts(j) \/ TakesSource(j) \/ Dies(j) \/ FetchesPage(j)
  PROVE  Whole'
<1>1. job[j] \in JobType
  BY JobOf
<1>2. CASE Starts(j) \/ TakesSource(j)
  <2>1. job'[j].pc \in {"idle", "choosing", "clearing"}
    <3>1. CASE Starts(j)
      BY <1>1, <3>1 DEF Starts, Base, Idle
    <3>2. CASE TakesSource(j)
      BY <1>1, <3>2 DEF TakesSource, MovesTo, Base, Idle, JobType
    <3> QED
      BY <1>2, <3>1, <3>2
  <2>2. UNCHANGED <<rows, fts, writer, tx>> /\ \A k \in Jobs \ {j} : job'[k] = job[k]
    BY <1>2 DEF Starts, TakesSource, MovesTo, Base
  <2> QED
    BY <2>1, <2>2, WholeQuiet DEF ReadsWhole, Works
<1>3. CASE Dies(j)
  <2>1. /\ job'[j].pc = "idle" /\ \A k \in Jobs \ {j} : job'[k] = job[k]
        /\ rows' = rows
        /\ \/ writer # j /\ writer' = writer /\ tx' = tx
           \/ writer = j /\ writer' \notin Jobs
    BY <1>3, KnowledgeAssumption DEF Dies, Idle, Base
  <2> QED
    BY <2>1, WholeQuiet DEF ReadsWhole, Works
<1>4. CASE FetchesPage(j)
  <2>1. PICK todo : job' = [job EXCEPT ![j].pc = "saving", ![j].todo = todo, ![j].page = job[j].page + 1]
    BY <1>4 DEF FetchesPage
  <2>2. /\ job'[j].queue = job[j].queue /\ \A k \in Jobs \ {j} : job'[k] = job[k]
        /\ UNCHANGED <<rows, writer, tx>> /\ Source(j) \in Web
    BY <1>1, <1>4, <2>1 DEF FetchesPage, Base, JobType
  <2>3. Source(j)' \in Web
    BY <2>2 DEF Source
  <2> QED
    BY <2>2, <2>3, WholeQuiet DEF ReadsWhole
<1> QED
  BY <1>2, <1>3, <1>4

LEMMA WholeClears ==
  ASSUME Base, Apart, Whole, NEW j \in Jobs, Clears(j)
  PROVE  Whole'
<1> DEFINE s    == Source(j)
           gone == {r \in rows : r.source = s}
<1>1. /\ writer = NoJob /\ UNCHANGED <<writer, tx>> /\ rows' = rows \ gone
      /\ job'[j].pc = "reading" /\ \A k \in Jobs \ {j} : job'[k] = job[k]
  BY KnowledgeAssumption DEF Clears, View, ClearSource, Base, JobType, Delete
<1>2. ReadsWhole(j)'
  BY <1>1, KnowledgeAssumption DEF ReadsWhole
<1>3. \A k \in Jobs \ {j} : ReadsWhole(k)'
  BY <1>1, WholeIs, ReadsOn
<1>4. DocumentsAreWhole'
  <2> SUFFICES ASSUME NEW t \in Sources \ Web
               PROVE  \/ ChunksIn(rows', t) = {}
                      \/ \E v \in Versions : ChunksIn(rows', t) = FirstChunks(v, Len(ChunksOf[v]))
    BY DEF DocumentsAreWhole
  <2>1. CASE t = s
    BY <1>1, <2>1 DEF ChunksIn
  <2>2. CASE t # s
    <3>1. {r \in rows' : r.source = t} = {r \in rows : r.source = t}
      BY <1>1, <2>2
    <3> QED
      BY <3>1 DEF ChunksIn, Whole, DocumentsAreWhole
  <2> QED
    BY <2>1, <2>2
<1> QED
  BY <1>2, <1>3, <1>4 DEF Whole, ReadsWhole

LEMMA WholeReadsFile ==
  ASSUME Base, Apart, Whole, NEW j \in Jobs, ReadsFile(j)
  PROVE  Whole'
<1>1. /\ job[j].pc = "reading" /\ Works(j) /\ Source(j) \notin Web /\ job[j] \in JobType
      /\ UNCHANGED <<rows, fts, writer, tx>>
  BY JobOf DEF ReadsFile, Works
<1>0. PICK v \in Versions : v = origin[Source(j)]
  BY DEF ReadsFile
<1>2. writer # j /\ job[j].count = 0
  BY <1>1 DEF Whole, Apart
<1>3. /\ job'[j].pc = "saving" /\ job'[j].todo = ChunksOf[v] /\ job'[j].count = 0
      /\ \A k \in Jobs \ {j} : job'[k] = job[k]
  BY <1>0, <1>1, <1>2 DEF ReadsFile, Base, JobType
<1>4. ChunksOf[v] \in Seq(Terms)
  BY KnowledgeAssumption
<1>5. Rest(j, v)'
  <2>1. Len(ChunksOf[v]) = 0 + Len(ChunksOf[v]) /\ \A i \in 1..Len(ChunksOf[v]) : 0 + i = i
    BY <1>4
  <2> QED
    BY <1>1, <1>2, <1>3, <2>1 DEF Rest
<1>6. ReadsWhole(j)'
  BY <1>3, <1>5 DEF ReadsWhole
<1> QED
  BY <1>1, <1>3, <1>6, WholeQuiet

(* The chunks of a beginning one longer.                                     *)
LEMMA FirstChunksGrow ==
  ASSUME NEW v \in Versions, NEW n \in Nat
  PROVE  /\ FirstChunks(v, 0) = {}
         /\ FirstChunks(v, n + 1) = FirstChunks(v, n) \cup {<<n, ChunksOf[v][n + 1]>>}
<1>1. FirstChunks(v, 0) = {}
  BY DEF FirstChunks
<1>2. ASSUME NEW x PROVE x \in FirstChunks(v, n + 1) <=> x \in FirstChunks(v, n) \/ x = <<n, ChunksOf[v][n + 1]>>
  <2>1. \A i \in 1..(n + 1) : i \in 1..n \/ i = n + 1
    OBVIOUS
  <2>2. \A i \in 1..n : i \in 1..(n + 1)
    OBVIOUS
  <2>3. n + 1 \in 1..(n + 1) /\ (n + 1) - 1 = n
    OBVIOUS
  <2> QED
    BY <2>1, <2>2, <2>3 DEF FirstChunks
<1> QED
  BY <1>1, <1>2

LEMMA WholeSaves ==
  ASSUME OneIngestPerSource, Base, Apart, Whole, NEW j \in Jobs, Saves(j)
  PROVE  Whole'
<1> DEFINE todo == job[j].todo
           n    == job[j].count
           s    == Source(j)
<1>1. /\ Works(j) /\ job[j] \in JobType /\ job[j].queue # <<>> /\ todo # <<>> /\ writer \in {NoJob, j}
      /\ writer' = j /\ tx' = SaveChunk(View(j), s, n, Head(todo)) /\ job[j].pc = "saving"
      /\ rows' = rows /\ n \in Nat /\ todo \in Seq(Terms)
  BY JobOf DEF Saves, JobType, Works
<1>2. /\ job'[j].pc = "saving" /\ job'[j].count = n + 1 /\ job'[j].todo = Tail(todo)
      /\ job'[j].queue = job[j].queue /\ \A k \in Jobs \ {j} : job'[k] = job[k]
  BY DEF Saves, Base, JobType
<1>3. DocumentsAreWhole'
  BY <1>1 DEF Whole, DocumentsAreWhole
<1>4. \A k \in Jobs \ {j} : ReadsWhole(k)'
  BY <1>1, <1>2, WholeIs, ReadsOn
<1>5. /\ Head(todo) \in Terms /\ Len(Tail(todo)) = Len(todo) - 1 /\ Len(todo) \in Nat \ {0}
      /\ Head(todo) = todo[1] /\ \A i \in 1..(Len(todo) - 1) : Tail(todo)[i] = todo[i + 1]
  BY <1>1, TodoTyped
<1>6. s \in Sources
  BY <1>1, SourceTyped
<1>7. /\ \A r \in View(j).rows : r.source = s => r.index < n
      /\ Indexed(View(j))
  BY <1>1, ViewApart, ViewIndexed
<1>8. ChunksIn(tx'.rows, s) = ChunksIn(View(j).rows, s) \cup {<<n, Head(todo)>>}
  <2> DEFINE view == View(j)
             term == Head(todo)
  <2>1. /\ tx' = SaveChunk(view, s, n, term) /\ s \in Sources /\ n \in Nat /\ term \in Terms
        /\ Indexed(view) /\ \A r \in view.rows : r.source = s => r.index < n
    BY <1>1, <1>5, <1>6, <1>7
  <2> HIDE DEF view, term, s, n
  <2>2. ChunksIn(tx'.rows, s) = ChunksIn(view.rows, s) \cup {<<n, term>>}
    <3> DEFINE after == SaveChunk(view, s, n, term)
    <3>1. ChunksIn(after.rows, s) = ChunksIn(view.rows, s) \cup {<<n, term>>}
      BY ONLY <2>1, SaveKeeps
    <3> QED
      BY ONLY <2>1, <3>1
  <2> QED
    BY <2>2 DEF view, term
<1>9. Source(j)' = s
  BY <1>2 DEF Source
<1>10. s \notin Web => \E v \in Versions : Rest(j, v)
  BY <1>1 DEF Whole
<1>11. ASSUME NEW v \in Versions, Rest(j, v) PROVE Rest(j, v)'
  <2>1. ChunksIn(View(j).rows, s) = FirstChunks(v, n)
    <3>1. CASE writer = j
      BY <1>11, <3>1 DEF Rest, View
    <3>2. CASE writer # j
      <4>1. n = 0 /\ View(j).rows = rows /\ \A r \in rows : r.source # s
        BY <1>1, <3>2 DEF Apart, View
      <4> QED
        BY <4>1, FirstChunksGrow DEF ChunksIn
    <3> QED
      BY <3>1, <3>2
  <2> HIDE DEF todo, n, s
  <2>2. Len(ChunksOf[v]) = n + Len(todo) /\ \A i \in 1..Len(todo) : todo[i] = ChunksOf[v][n + i]
    BY <1>11 DEF Rest, todo, n
  <2>3. Len(ChunksOf[v]) = (n + 1) + Len(Tail(todo))
    BY <1>1, <1>5, <2>2
  <2>4. ASSUME NEW i \in 1..Len(Tail(todo)) PROVE Tail(todo)[i] = ChunksOf[v][(n + 1) + i]
    <3>1. i + 1 \in 1..Len(todo) /\ i \in 1..(Len(todo) - 1) /\ n + (i + 1) = (n + 1) + i
      BY <1>1, <1>5
    <3> QED
      BY <1>5, <2>2, <3>1
  <2>5. Head(todo) = ChunksOf[v][n + 1]
    <3>1. 1 \in 1..Len(todo)
      BY <1>5
    <3> QED
      BY <1>5, <2>2, <3>1
  <2>6. ChunksIn(tx'.rows, s) = FirstChunks(v, n + 1)
    BY <1>1, <1>8, <2>1, <2>5, FirstChunksGrow
  <2> QED
    BY <1>2, <1>9, <2>3, <2>4, <2>6 DEF Rest
<1>12. ReadsWhole(j)'
  BY <1>2, <1>9, <1>10, <1>11 DEF ReadsWhole
<1> QED
  BY <1>3, <1>4, <1>12 DEF Whole, ReadsWhole

LEMMA WholeHasSaved ==
  ASSUME Base, Apart, Whole, NEW j \in Jobs, HasSaved(j)
  PROVE  Whole'
<1>1. job[j].pc = "saving" /\ Works(j) /\ job[j] \in JobType /\ job[j].todo = <<>>
  BY JobOf DEF HasSaved, Works
<1>2. CASE Source(j) \in Web /\ UNCHANGED <<rows, fts, writer, tx>> /\ job' = [job EXCEPT ![j].pc = "reading"]
  <2>1. job'[j].queue = job[j].queue /\ \A k \in Jobs \ {j} : job'[k] = job[k]
    BY <1>1, <1>2 DEF Base, JobType
  <2>2. Source(j)' = Source(j)
    BY <2>1 DEF Source
  <2> QED
    BY <1>2, <2>1, <2>2, WholeQuiet DEF ReadsWhole
<1>3. CASE /\ rows' = View(j).rows /\ fts' = View(j).fts
           /\ writer' = (IF writer = j THEN NoJob ELSE writer) /\ tx' = (IF writer = j THEN NoTx ELSE tx)
           /\ job' = [job EXCEPT ![j].pc = "choosing", ![j].queue = Tail(job[j].queue)]
  <2>1. job'[j].pc = "choosing" /\ \A k \in Jobs \ {j} : job'[k] = job[k]
    BY <1>3 DEF Base, JobType
  <2>2. ReadsWhole(j)'
    BY <2>1 DEF ReadsWhole, Works
  <2>3. \A k \in Jobs \ {j} : ReadsWhole(k)'
    BY <1>3, <2>1, WholeIs, ReadsOn, KnowledgeAssumption
  <2>4. ASSUME NEW t \in Sources \ Web
        PROVE  \/ ChunksIn(rows', t) = {}
               \/ \E v \in Versions : ChunksIn(rows', t) = FirstChunks(v, Len(ChunksOf[v]))
    <3>1. CASE writer = j /\ t = Source(j)
      <4>1. PICK v \in Versions : Rest(j, v)
        BY <1>1, <3>1 DEF Whole
      <4>2. ChunksIn(rows', t) = FirstChunks(v, job[j].count)
        BY <1>3, <3>1, <4>1 DEF Rest, View
      <4>3. Len(ChunksOf[v]) = job[j].count + 0 /\ job[j].count \in Nat
        BY <1>1, <4>1 DEF Rest, JobType
      <4>4. Len(ChunksOf[v]) = job[j].count
        BY ONLY <4>3
      <4> QED
        BY <4>2, <4>4
    <3>2. CASE writer # j \/ t # Source(j)
      <4>1. {r \in rows' : r.source = t} = {r \in rows : r.source = t}
        BY <1>3, <3>2, CommitApart
      <4> QED
        BY <4>1 DEF ChunksIn, Whole, DocumentsAreWhole
    <3> QED
      BY <3>1, <3>2
  <2>5. DocumentsAreWhole'
    BY <2>4 DEF DocumentsAreWhole
  <2> QED
    BY <2>2, <2>3, <2>5 DEF Whole, ReadsWhole
<1> QED
  BY <1>2, <1>3 DEF HasSaved, MovesTo

LEMMA WholeSteps ==
  ASSUME OneIngestPerSource, Base, Apart, Whole, [Next]_vars
  PROVE  Whole'
<1>1. CASE UNCHANGED <<rows, fts, writer, tx, job>>
  BY <1>1 DEF Whole, DocumentsAreWhole, Works, Source, Rest
<1>2. UNCHANGED vars \/ (\E s \in Sources : Edited(s)) => UNCHANGED <<rows, fts, writer, tx, job>>
  BY DEF vars, Edited
<1> QED
  BY <1>1, <1>2, WholeOthers, WholeClears, WholeReadsFile, WholeSaves, WholeHasSaved DEF Next, Step

(* What is searchable of a document is one published version of it as a      *)
(* whole, or nothing, also while it is ingested again and after an ingest    *)
(* died (the commit at the end of ingest_pdf and ingest_xlsx).               *)
THEOREM OnlyWholeDocuments == ASSUME OneIngestPerSource PROVE Spec => []DocumentsAreWhole
<1>1. Init => Whole
  BY DEF Init, Whole, DocumentsAreWhole, ChunksIn, Works, Idle
<1>2. Base /\ Apart /\ Whole /\ [Next]_vars => Base' /\ Apart' /\ Whole'
  BY BaseSteps, ApartSteps, WholeSteps
<1>3. Whole => DocumentsAreWhole
  BY DEF Whole
<1> QED
  BY <1>1, <1>2, <1>3, BaseInit, ApartInit, PTL DEF Spec
=============================================================================
