--------------------------- MODULE MCKnowledgeBase ---------------------------
(* A small instance of KnowledgeBase for TLC.                                *)
EXTENDS KnowledgeBase

CONSTANTS j1, j2, f1, f2, w1, v1, v2, a, b

FilesAndWeb == [j \in Jobs |-> IF j = j1 THEN <<f1, f2>> ELSE <<w1>>]
TwoVersions == [v \in Versions |-> IF v = v1 THEN <<a, b>> ELSE <<b>>]
==============================================================================
