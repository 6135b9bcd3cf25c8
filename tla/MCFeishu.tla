------------------------------- MODULE MCFeishu -------------------------------
(* Constants of the Feishu side's model that a configuration cannot write.  *)
EXTENDS Feishu

MCContents == [chat : {"oc_1"}, text : {"hello"}]
              \cup [chat : {"oc_admin"}, text : Commands]
=============================================================================
