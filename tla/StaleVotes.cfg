SPECIFICATION Spec
CONSTANTS
  Node <- StaleNodes
  Delegate <- StaleDelegates
  KeysOf <- StaleKeys
  DELEGATES = 5
  Schedule <- StaleSchedule
  RemoteQuorum = 2
  ForkLimit = 2
  Radix = 10
  Payload = {"p"}
  MaxHeight = 2
  MaxNow = 5
  Null = Null
  MaxTasks = 1
  SyncNodes = {}
  DbFailNodes = {}
  FailSteps = {}
  RestartNodes = {}
INVARIANT CommittedCertified
CHECK_DEADLOCK FALSE
