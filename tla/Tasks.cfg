\* One task of each kind (a block does no more than a propose may); the system stops when all have ended.
SPECIFICATION Spec
CONSTANTS
  Tasks <- MCTasks
  Kind <- MCKind
  None = None
INVARIANTS TypeOK OneAtATime NothingLost AnsweredOnce SyncingIsSync
PROPERTIES Served
CHECK_DEADLOCK FALSE
