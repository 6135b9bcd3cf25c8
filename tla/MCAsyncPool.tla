---------------------------- MODULE MCAsyncPool ----------------------------
(* Small instances of AsyncPool for TLC.                                   *)
EXTENDS AsyncPool

CONSTANTS u1, u2, u3, k1, k2

(* Each call has its own chat.                                             *)
OwnKey  == [u \in Users |-> Keys \cap IF u = u1 THEN {k1} ELSE {k2}]
=============================================================================
