-------------------------------- MODULE Rules --------------------------------
(* The behaviour rules of AutoService (rules.py): YAML files, one per        *)
(* category, that the /rules command shows and deletes from, and that a      *)
(* dialogue of a few steps (RuleConfigSession) adds to and edits.            *)
(*                                                                           *)
(* Nothing in rules.py awaits, so each call is one action, but the calls of  *)
(* several dialogues alternate, and a rule may be deleted while a dialogue   *)
(* edits it.  Some files may not parse: readers skip them, writers raise.    *)
EXTENDS Integers, Sequences, SequencesExt

CONSTANTS
  Sessions,     \* the dialogues
  Ids,          \* what _generate_id may draw
  Categories,   \* VALID_CATEGORIES; a category's file is named after it
  ParametersOf, \* CATEGORY_PARAMETERS
  Others,       \* what else may be typed: rule texts and values
  FileOrder,    \* the files of the rules directory, sorted
  Broken,       \* the content of a file that does not parse
  None          \* Python's None, and the category of a rule that has no valid one

VARIABLES
  files,     \* file -> id -> [category, fields], or Broken
  session    \* dialogue -> RuleConfigSession

rules_vars == <<files, session>>

Files      == Range(FileOrder)
Parameters == UNION {ParametersOf[c] : c \in Categories}
Inputs     == Categories \cup Parameters \cup Others \cup {"yes"}
Fields     == Parameters \cup {"rule"}

-----------------------------------------------------------------------------
(* The files                                                                 *)

Readable(f) == files[f] /= Broken

(* Where load_rules finds an id.                                             *)
Places(id) == {i \in DOMAIN FileOrder : Readable(FileOrder[i]) /\ id \in DOMAIN files[FileOrder[i]]}

(* get_rule: the first file, in their order, that has the id.                *)
FirstPlace(i, id) == i \in Places(id) /\ \A j \in Places(id) : i <= j

(* A writer goes through the files in order until it has found its rule, and *)
(* raises at the first one that does not parse.                              *)
Raises(id) ==
  \E j \in DOMAIN FileOrder : ~Readable(FileOrder[j]) /\ \A i \in Places(id) : j < i

(* update_rule writes the file of the first rule of that id.                 *)
UpdateRule(id, parameter, value) ==
  \/ Places(id) = {} /\ UNCHANGED files
  \/ \E i \in DOMAIN FileOrder :
       /\ FirstPlace(i, id)
       /\ files' = [files EXCEPT ![FileOrder[i]][id].fields[parameter] = value]

(* delete_rule removes it from the first file that has it.                   *)
DeleteRule(id) ==
  /\ ~Raises(id)
  /\ \E i \in DOMAIN FileOrder :
       /\ FirstPlace(i, id)
       /\ files' = [files EXCEPT ![FileOrder[i]] = [other \in DOMAIN @ \ {id} |-> @[other]]]
  /\ UNCHANGED session

Used == UNION {DOMAIN files[f] : f \in {f \in Files : Readable(f)}}

NewRule(category, text) ==
  [category |-> category, fields |-> [p \in Fields |-> IF p = "rule" THEN text ELSE None]]

(* add_rule appends to the file of the category.                             *)
AddRule(category, text) ==
  \E id \in Ids \ Used :
    files' = [files EXCEPT ![category] = [other \in DOMAIN @ \cup {id} |->
                IF other = id THEN NewRule(category, text) ELSE @[other]]]

-----------------------------------------------------------------------------
(* The dialogue                                                              *)

Reset == [state |-> "idle", mode |-> "edit", id |-> None, category |-> None,
          parameter |-> None, value |-> None]

Goes(s, to) == session' = [session EXCEPT ![s] = to]

(* AWAITING_CATEGORY: anything else is asked again.                          *)
ChooseCategory(s, text) ==
  /\ session[s].state = "awaiting_category"
  /\ text \in Categories
  /\ Goes(s, [session[s] EXCEPT !.category = text, !.state = "awaiting_parameter"])
  /\ UNCHANGED files

(* AWAITING_PARAMETER of an edit: a parameter of the category.               *)
ChooseParameter(s, text) ==
  /\ session[s].state = "awaiting_parameter" /\ session[s].mode = "edit"
  /\ text \in ParametersOf[session[s].category]
  /\ Goes(s, [session[s] EXCEPT !.parameter = text, !.state = "awaiting_value"])
  /\ UNCHANGED files

(* AWAITING_PARAMETER of an addition takes the text of the rule.             *)
EnterText(s, text) ==
  /\ session[s].state = "awaiting_parameter" /\ session[s].mode = "add"
  /\ Goes(s, [session[s] EXCEPT !.parameter = "rule", !.value = text, !.state = "awaiting_confirmation"])
  /\ UNCHANGED files

EnterValue(s, text) ==
  /\ session[s].state = "awaiting_value"
  /\ Goes(s, [session[s] EXCEPT !.value = text, !.state = "awaiting_confirmation"])
  /\ UNCHANGED files

(* _apply raises before it writes when it meets a file that does not parse:  *)
(* the dialogue then keeps waiting for its confirmation.                     *)
ApplyRaises(s) ==
  IF session[s].mode = "add" THEN ~Readable(session[s].category) ELSE Raises(session[s].id)

(* An edit of a rule that has been deleted meanwhile changes nothing.        *)
Apply(s) ==
  IF session[s].mode = "add" THEN AddRule(session[s].category, session[s].value)
  ELSE UpdateRule(session[s].id, session[s].parameter, session[s].value)

Confirm(s) ==
  /\ session[s].state = "awaiting_confirmation"
  /\ ~ApplyRaises(s)
  /\ Apply(s)
  /\ Goes(s, Reset)

(* Anything but yes cancels.                                                 *)
Cancel(s) ==
  /\ session[s].state = "awaiting_confirmation"
  /\ Goes(s, Reset)
  /\ UNCHANGED files

ProcessInput(s, text) ==
  \/ ChooseCategory(s, text) \/ ChooseParameter(s, text)
  \/ EnterText(s, text) \/ EnterValue(s, text)
  \/ (text = "yes" /\ Confirm(s)) \/ (text /= "yes" /\ Cancel(s))

-----------------------------------------------------------------------------
(* The command                                                               *)

(* /rules edit <id> gives up what the dialogue was about.  The category of   *)
(* the rule is taken over, or asked for if it is not a valid one.            *)
EditCommand(s, id) ==
  /\ \E i \in DOMAIN FileOrder :
       /\ FirstPlace(i, id)
       /\ LET category == files[FileOrder[i]][id].category IN
          Goes(s, [Reset EXCEPT !.id = id, !.category = category,
                                !.state = IF category \in Categories THEN "awaiting_parameter"
                                          ELSE "awaiting_category"])
  /\ UNCHANGED files

AddCommand(s) ==
  /\ Goes(s, [Reset EXCEPT !.mode = "add", !.state = "awaiting_category"])
  /\ UNCHANGED files

HandleRulesCommand(s) ==
  \/ AddCommand(s)
  \/ \E id \in Ids : EditCommand(s, id) \/ DeleteRule(id)

-----------------------------------------------------------------------------
RuleSet == [category : Categories \cup {None}, fields : [Fields -> Inputs \cup {None}]]

(* What a file may hold.                                                     *)
Contents == (UNION {[ids -> RuleSet] : ids \in SUBSET Ids}) \cup {Broken}

RulesInit ==
  /\ files \in [Files -> Contents]
  /\ session = [s \in Sessions |-> Reset]

RulesNext == \E s \in Sessions : HandleRulesCommand(s) \/ \E text \in Inputs : ProcessInput(s, text)

RulesSpec == RulesInit /\ [][RulesNext]_rules_vars
-----------------------------------------------------------------------------
(* Properties *)

SessionSet ==
  [state : {"idle", "awaiting_category", "awaiting_parameter", "awaiting_value", "awaiting_confirmation"},
   mode : {"edit", "add"}, id : Ids \cup {None}, category : Categories \cup {None},
   parameter : Fields \cup {None}, value : Inputs \cup {None}]

(* Files and dialogues keep their shape.                                     *)
RulesTypeOK ==
  /\ files \in [Files -> Contents]
  /\ session \in [Sessions -> SessionSet]

(* What is asked to be confirmed is complete, however often the dialogue was *)
(* restarted: an addition has a category and a text, an edit has a rule, and *)
(* a parameter and value for the category, so that the fallbacks of _apply   *)
(* ("general", an empty rule id, an empty parameter) are never used.         *)
ConfirmsComplete ==
  \A s \in Sessions : session[s].state = "awaiting_confirmation" =>
    /\ session[s].category \in Categories /\ session[s].value \in Inputs
    /\ session[s].mode = "add"  => session[s].parameter = "rule"
    /\ session[s].mode = "edit" => /\ session[s].id \in Ids
                                   /\ session[s].parameter \in ParametersOf[session[s].category]

(* A file changes in three ways only: one rule goes; one rule comes, with a  *)
(* new id; or one parameter of one rule changes, by a dialogue about it.     *)
(* Whatever else is in the file stays, and its rules keep their categories.  *)
FileKeeps(f, ids) == \A id \in ids : id \in DOMAIN files'[f] /\ files'[f][id] = files[f][id]

Removes(f) == \E id \in Ids : DOMAIN files'[f] = DOMAIN files[f] \ {id} /\ FileKeeps(f, DOMAIN files[f] \ {id})

Adds(f, s) ==
  /\ session[s].mode = "add" /\ session[s].category = f
  /\ \E id \in Ids \ Used : DOMAIN files'[f] = DOMAIN files[f] \cup {id}
  /\ FileKeeps(f, DOMAIN files[f])

Edits(f, s) ==
  LET id == session[s].id IN
  /\ session[s].mode = "edit" /\ id \in DOMAIN files[f]
  /\ DOMAIN files'[f] = DOMAIN files[f] /\ FileKeeps(f, DOMAIN files[f] \ {id})
  /\ files'[f][id].category = files[f][id].category
  /\ \A p \in Fields \ {session[s].parameter} : files'[f][id].fields[p] = files[f][id].fields[p]
  /\ files'[f][id].fields[session[s].parameter] = session[s].value

ChangesAreConfirmed ==
  [][\A f \in Files : files'[f] /= files[f] =>
       /\ Readable(f)
       /\ \A g \in Files \ {f} : files'[g] = files[g]
       /\ \/ Removes(f)
          \/ \E s \in Sessions : /\ session[s].state = "awaiting_confirmation" /\ session'[s] = Reset
                                 /\ Adds(f, s) \/ Edits(f, s)]_rules_vars
=============================================================================
