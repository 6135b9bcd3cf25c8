SPECIFICATION Spec
CONSTANTS
  Queriers = {"q1"}
  Subscribers = {"s1"}
  Requests <- MCRequests
  Limit = 2
  Stream <- MCStream
  MaxErrors = 1
  MaxCloses = 1
INVARIANTS
  WrittenInOrder
  SubscriberMissesTheWindowOnly
PROPERTIES
  HistorySpec
  EventuallyStored
CHECK_DEADLOCK FALSE
