------------------------ MODULE ConversationContract ------------------------
(***************************************************************************)
(* What the conversation engine promises of one conversation (sections 3   *)
(* and 7.1 of docs/contracts/conversation-engine.md), as the engine's      *)
(* clients may rely on it: the life cycle of the object, its resolution,   *)
(* and the automatic mode changes.  Messages, events and timers are not    *)
(* part of it.                                                             *)
(***************************************************************************)
VARIABLES state, mode, resolution, incarnation, operators

cvars == <<state, mode, resolution, incarnation, operators>>

Open == state \in {"created", "active"}

Init ==
  /\ state = "none"
  /\ mode = "auto"
  /\ resolution.outcome = "none"
  /\ operators = {}

(* Create starts a fresh conversation in auto, and only if none is open.   *)
Create ==
  /\ ~ Open
  /\ state' = "created"
  /\ mode' = "auto"
  /\ resolution'.outcome = "none"
  /\ incarnation' # incarnation
  /\ operators' = {}

Activate ==
  /\ state = "created"
  /\ state' = "active"
  /\ UNCHANGED <<mode, resolution, incarnation, operators>>

(* Closing happens once per conversation, and fixes its resolution.        *)
Close ==
  /\ Open
  /\ state' = "closed"
  /\ resolution'.outcome \in {"resolved", "abandoned"}
  /\ UNCHANGED <<mode, incarnation, operators>>

Rate ==
  /\ resolution.outcome # "none"
  /\ resolution' = [resolution EXCEPT !.csat = resolution'.csat]
  /\ UNCHANGED <<state, mode, incarnation, operators>>

(* The mode of an open conversation may change; a closed one keeps it.     *)
SwitchMode ==
  /\ Open
  /\ mode' \in {"auto", "copilot", "takeover"}
  /\ UNCHANGED <<state, resolution, incarnation, operators>>

OperatorJoins ==
  /\ state # "none"
  /\ operators \subseteq operators'
  /\ UNCHANGED <<state, mode, resolution, incarnation>>

(* The last operator to leave an open conversation in copilot takes it     *)
(* back to auto; no other departure changes the mode.                      *)
OperatorLeaves ==
  /\ operators' \subseteq operators
  /\ mode' = IF Open /\ mode = "copilot" /\ operators' = {} THEN "auto" ELSE mode
  /\ UNCHANGED <<state, resolution, incarnation>>

Next == \/ Create \/ Activate \/ Close \/ Rate
        \/ SwitchMode \/ OperatorJoins \/ OperatorLeaves

Spec == Init /\ [][Next]_cvars
=============================================================================
