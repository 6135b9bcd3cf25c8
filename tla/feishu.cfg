SPECIFICATION FeishuSpec
CONSTANTS
  Chats = {"oc_1", "oc_admin"}
  AdminChats = {"oc_admin"}
  Contents <- MCContents
  Routes = {"pool"}
  Pieces = 2
  MaxMessages = 2
  MaxSeen = 0
  MaxForgets = 2
  MaxFailures = 1
INVARIANTS
  HandledOnce
  FinalTextShown
PROPERTY
  LoopsGoOn
CHECK_DEADLOCK FALSE
