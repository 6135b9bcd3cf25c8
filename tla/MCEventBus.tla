------------------------------ MODULE MCEventBus ------------------------------
(* Constants of the event bus' model that a configuration cannot write.     *)
EXTENDS EventBus

MCRequests == {[conv |-> "c1", since |-> 0, role |-> "operator"],
               [conv |-> All, since |-> NoSince, role |-> "customer"]}
MCStream == <<[conv |-> "c1", side |-> FALSE], [conv |-> "c1", side |-> TRUE],
              [conv |-> "c1", side |-> FALSE]>>
=============================================================================
