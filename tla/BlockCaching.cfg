SPECIFICATION Spec
CONSTANTS
  Absent = Absent
  Null = Null
  Radix = 10
  Accounts = {"a", "d"}
  Votes = {}
  Values = {"p"}
  BlockIds = {x, y}
  Evictable <- OneAccount
  MemCached = {"d"}
  HistoryHold = 1
  MaxCached = 2
  MaxHeight = 2
  MaxChanges = 1
  MaxRollback = 2
  FailSteps <- InsertFaults
  CrashSteps <- BetweenTasks
  Readers <- OneAccount
SYMMETRY BlockSymmetry
INVARIANTS CachedBlocksAreRows SameHeight
