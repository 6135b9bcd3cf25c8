SPECIFICATION Spec
CONSTANTS
  Clients = {"agent", "developer"}
  ChatsOf <- MCChatsOf
  Observers = {"agent", "developer"}
  Tabs = {"tab"}
  TabChat <- MCTabChat
  FeishuChats = {"oc_a"}
  AdminChat = "oc_admin"
  PoolMode = TRUE
  Conns = {"a1", "a2", "d1", "d2", "w1", "w2"}
  Owner <- MCOwner
  MaxRouted = 1
  MaxDrops = 1
INVARIANTS
  RoutesAreOwned
  CopiedOnce
PROPERTY
  ClientsReturn
CHECK_DEADLOCK FALSE
