SPECIFICATION Spec
CONSTANTS
  Node <- MajorityNodes
  Delegate <- MajorityDelegates
  KeysOf <- MajorityKeys
  DELEGATES = 4
  Schedule <- MajoritySchedule
  RemoteQuorum = 3
  ForkLimit = 2
  Radix = 10
  Payload = {"p"}
  MaxHeight = 3
  MaxNow = 9
  Null = Null
  MaxTasks = 1
  SyncNodes = {"n1", "n2"}
  DbFailNodes = {"n2"}
  FailSteps = {"commit", "insertHistory", "rollback"}
  RestartNodes = {"n1"}
INVARIANTS TypeOK PendingExtendsTip StateAgreesWithDb
PROPERTIES ImplementsLedger
CHECK_DEADLOCK FALSE
