SPECIFICATION Spec
CONSTANTS
  Absent = Absent
  Null = Null
  Radix = 10
  Accounts <- OneAccount
  Votes <- OneVote
  Values <- TwoValues
  BlockIds = {"x"}
  Evictable = {"a", "v"}
  MemCached = {}
  HistoryHold = 10
  MaxCached = 10
  MaxHeight = 1
  MaxChanges = 2
  MaxRollback = 1
  FailSteps <- CommitFaults
  CrashSteps <- BetweenTasks
  Readers = {}
INVARIANTS TypeOK Revertible LastBlockSaved
PROPERTIES ImplementsStore
