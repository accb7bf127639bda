SPECIFICATION Spec
CONSTANTS
  Absent = Absent
  Null = Null
  Radix = 10
  Accounts <- OneAccount
  Votes <- OneVote
  Values <- TwoValues
  BlockIds = {"x"}
  Evictable = {}
  MemCached = {}
  HistoryHold = 10
  MaxCached = 10
  MaxHeight = 2
  MaxChanges = 1
  MaxRollback = 2
  FailSteps = {}
  CrashSteps = {}
  Readers = {}
INVARIANTS CoherentCache
