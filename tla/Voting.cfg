SPECIFICATION Spec
CONSTANTS
  Node <- VotingNodes
  Delegate <- VotingDelegates
  KeysOf <- VotingKeys
  DELEGATES = 4
  Schedule <- VotingSchedule
  RemoteQuorum = 2
  ForkLimit = 2
  Radix = 10
  Payload = {p, q}
  MaxHeight = 2
  MaxNow = 7
  Null = Null
  MaxTasks = 1
  SyncNodes = {}
  DbFailNodes = {}
  FailSteps = {}
  RestartNodes = {}
INVARIANTS DistinctSigners NoDoubleSign
PROPERTIES AcceptedCertified
SYMMETRY PayloadSymmetry
CHECK_DEADLOCK FALSE
