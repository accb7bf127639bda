SPECIFICATION Spec
CONSTANTS
  Node <- MajorityNodes
  Delegate <- MajorityDelegates
  KeysOf <- MajorityKeys
  DELEGATES = 4
  Schedule <- ForkSchedule
  RemoteQuorum = 1
  ForkLimit = 2
  Radix = 3
  Payload = {"p"}
  MaxHeight = 4
  MaxNow = 10
  Null = Null
  MaxTasks = 1
  SyncNodes = {"n2"}
  DbFailNodes = {}
  FailSteps = {}
  RestartNodes = {}
PROPERTY RollsBackToCommonBlock
CHECK_DEADLOCK FALSE
