SPECIFICATION FairSpec
CONSTANTS
  Node <- MajorityNodes
  Delegate <- MajorityDelegates
  KeysOf <- MajorityKeys
  DELEGATES = 4
  Schedule <- MajoritySchedule
  RemoteQuorum = 3
  ForkLimit = 2
  Radix = 10
  Payload = {"p"}
  MaxHeight = 3
  MaxNow = 8
  Null = Null
  MaxTasks = 1
  SyncNodes <- MajorityNodes
  DbFailNodes = {}
  FailSteps = {}
  RestartNodes = {}
PROPERTY CatchUp
CHECK_DEADLOCK FALSE
