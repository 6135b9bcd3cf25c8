---------------------------- MODULE MCOperations ----------------------------
(* A small instance of Operations for TLC.                                   *)
EXTENDS Operations

CONSTANTS c1, c2, t1, t2

Suggestions  == {<<>>, <<3>>}
GoodAndBad   == {[csat |-> 100, complaints |-> 150], [csat |-> 40, complaints |-> -1]}

(* Conversations and tasks are interchangeable.                              *)
Symmetry == Permutations(Convs) \cup Permutations(Tasks)
=============================================================================
