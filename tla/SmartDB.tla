------------------------------ MODULE SmartDB -------------------------------
(***************************************************************************)
(* The storage of one node: SmartDB with its session (DbSession), entity   *)
(* tracker and block cache, over the tables of a PostgreSQL database.      *)
(*                                                                         *)
(* The tasks of the node's Sequence use it one at a time.  A commit and a  *)
(* rollback of a block are cut at every statement they await: each of them *)
(* may fail, and the process may stop in between.  Requests of the HTTP    *)
(* API read accounts at any moment.                                        *)
(***************************************************************************)
EXTENDS EntityTracker, BlockCache

CONSTANTS
  Accounts,      \* entities that contracts load, create and update
  Votes,         \* entities that contracts create and delete, under a lock
  Values,        \* values of the properties of an entity
  BlockIds,      \* ids that tell the blocks of a height apart
  Null,
  MemCached,     \* the models with memory: true, cached as a whole
  MaxCached,     \* cachedBlockCount
  MaxHeight,     \* bound: height of the last block
  MaxChanges,    \* bound: changes between two blocks
  MaxRollback,   \* bound: blocks removed by one rollback
  FailSteps,     \* statements that may fail
  CrashSteps,    \* moments at which the process may be stopped
  Readers,       \* bound: accounts the HTTP API asks for
  Evictable      \* bound: entities that may leave the cache

ASSUME SmartDBAssumption ==
  /\ Accounts \cap Votes = {}
  /\ Values \cap Votes = {}
  /\ MemCached \cup Readers \cup Evictable \subseteq Accounts \cup Votes
  /\ MaxCached \in Nat \ {0}
  /\ {HistoryHold, MaxHeight, MaxChanges, MaxRollback} \subseteq Nat
  /\ Absent \notin [val : Values \cup Votes, _version_ : Nat \ {0}]
  /\ Absent \notin [Accounts \cup Votes -> Values \cup Votes \cup {Absent}]
  /\ Null \notin Int

VARIABLES
  blockRows,        \* the Block table: ids by height
  historyRows,      \* the BlockHistory table: changes by height
  table,            \* the tables of the entities
  lastBlockHeight,
  currentBlock,
  cachedBlocks,
  tracker,
  sessionSerial,
  locks,            \* unconfirmedLocks and confirmedLocks of the session
  op,               \* the commit or rollback of a block that is running
  reader            \* what the HTTP API has read and not tracked yet

rows == <<blockRows, historyRows>>
database == <<rows, table>>
blockVars == <<lastBlockHeight, currentBlock, cachedBlocks>>
session == <<tracker, sessionSerial, locks>>
vars == <<database, blockVars, session, op, reader>>

Key == Accounts \cup Votes

Entities == [val : Values \cup Votes, _version_ : Nat \ {0}]

EmptyTable == [k \in Key |-> Absent]

Idle == [step |-> "idle"]
InStep(step) == op.step = step

-----------------------------------------------------------------------------
(* Statements on the tables, all or nothing *)

(***************************************************************************)
(* An insert fails if the row exists.  An update asks for the version the  *)
(* change started from, and changes no row without an error otherwise.     *)
(***************************************************************************)
Write(r, key, original, current) ==
  LET row     == r.table[key]
      inserts == original = Absent
      updates == ~ inserts /\ current # Absent
      misses  == updates /\ (row = Absent \/ row._version_ # original._version_)
  IN  IF inserts /\ row # Absent
      THEN [r EXCEPT !.failed = TRUE]
      ELSE IF misses THEN r ELSE [r EXCEPT !.table[key] = current]

ApplyChange(r, change)  == Write(r, change.key, change.original, change.current)
RevertChange(change, r) == Write(r, change.key, change.current, change.original)

(* buildChangeSqls and buildRollbackChangeSqls, run in one transaction *)
ApplyChanges(tab, changes)  == FoldLeft(ApplyChange, [table |-> tab, failed |-> FALSE], changes)
RevertChanges(tab, changes) == FoldRight(RevertChange, changes, [table |-> tab, failed |-> FALSE])

-----------------------------------------------------------------------------
(* Starting the process *)

NoLocks == [confirmed |-> {}, unconfirmed |-> {}]

LastHeightOf(blocks) == Max({-1} \cup DOMAIN blocks)

MemoryModels(tab) == [k \in Key |-> IF k \in MemCached THEN tab[k] ELSE Absent]

(* SmartDB.init: what a process that starts makes of the tables *)
InitFrom(blocks, history, tab) ==
  LET last == LastHeightOf(blocks)
  IN  /\ lastBlockHeight' = last
      /\ currentBlock' = Null
      /\ cachedBlocks' = IF last >= 0
                         THEN PushBlock(EmptyBlockCache, last, blocks[last], MaxCached)
                         ELSE EmptyBlockCache
      /\ tracker' = IF last >= 0
                    THEN InitVersion(NewTracker(MemoryModels(tab)), last, history)
                    ELSE NewTracker(MemoryModels(tab))
      /\ sessionSerial' = last
      /\ locks' = NoLocks
      /\ op' = Idle
      /\ reader' = Null

Init ==
  /\ blockRows = [h \in {} |-> Null]
  /\ historyRows = NoHistory
  /\ table = EmptyTable
  /\ lastBlockHeight = -1
  /\ currentBlock = Null
  /\ cachedBlocks = EmptyBlockCache
  /\ tracker = NewTracker(EmptyTable)
  /\ sessionSerial = -1
  /\ locks = NoLocks
  /\ op = Idle
  /\ reader = Null

Restart ==
  /\ op.step \in CrashSteps
  /\ InitFrom(blockRows, historyRows, table)
  /\ UNCHANGED database

-----------------------------------------------------------------------------
(* Tasks: contracts, and the work on a block outside of contracts *)

NoBlockOperation == InStep("idle")

InContract == NoBlockOperation /\ tracker.confirming
InTask     == NoBlockOperation /\ (tracker.confirming \/ currentBlock # Null)
NoContract == NoBlockOperation /\ ~ tracker.confirming

Pending == tracker.confirmed \o tracker.unconfirmed

MayChange == Len(Pending) < MaxChanges

Exists(k) == IsTracking(tracker, k) \/ table[k] # Absent

EnsureEntityTracking(k) ==
  IF IsTracking(tracker, k) THEN tracker ELSE TrackPersistent(tracker, k, table[k])

(* Mutant: looks at the locks of the running contract only *)
LockIsFreeInContract(name) == name \notin locks.unconfirmed

LockIsFree(name) == name \notin locks.confirmed \cup locks.unconfirmed

LockInThisSession(name) ==
  /\ LockIsFree(name)
  /\ locks' = IF tracker.confirming
              THEN [locks EXCEPT !.unconfirmed = @ \cup {name}]
              ELSE [locks EXCEPT !.confirmed = @ \cup {name}]

TrackerOnly == UNCHANGED <<database, blockVars, sessionSerial, op, reader>>

LoadAccount(k) ==
  /\ NoBlockOperation
  /\ Exists(k)
  /\ tracker' = EnsureEntityTracking(k)
  /\ UNCHANGED locks
  /\ TrackerOnly

(* Contracts create an account that load did not find *)
CreateAccount(k, val) ==
  /\ InTask
  /\ MayChange
  /\ ~ Exists(k)
  /\ tracker' = TrackNew(tracker, k, val)
  /\ UNCHANGED locks
  /\ TrackerOnly

UpdateAccount(k, val) ==
  /\ InTask
  /\ MayChange
  /\ Exists(k)
  /\ tracker' = TrackModify(EnsureEntityTracking(k), k, val)
  /\ UNCHANGED locks
  /\ TrackerOnly

(***************************************************************************)
(* The contracts vote and unvote take the lock of the voter, and look for  *)
(* the vote in the table, where the changes of this block are not.  A vote *)
(* has no properties that change.                                          *)
(***************************************************************************)
CastVote(k) ==
  /\ InContract
  /\ MayChange
  /\ LockInThisSession(k)
  /\ table[k] = Absent
  /\ ~ IsTracking(tracker, k)
  /\ tracker' = TrackNew(tracker, k, k)
  /\ TrackerOnly

Unvote(k) ==
  /\ InContract
  /\ MayChange
  /\ LockInThisSession(k)
  /\ table[k] # Absent
  /\ tracker' = TrackDelete(EnsureEntityTracking(k), k)
  /\ TrackerOnly

BeginContract ==
  /\ NoContract
  /\ tracker' = BeginConfirm(tracker)
  /\ UNCHANGED locks
  /\ TrackerOnly

(* The unconfirmed locks are kept until the next contract that fails *)
CommitLocks == [locks EXCEPT !.confirmed = @ \cup locks.unconfirmed]

CommitContract ==
  /\ InContract
  /\ tracker' = Confirm(tracker)
  /\ locks' = CommitLocks
  /\ TrackerOnly

(* A contract that returns an error or throws, at any point *)
RollbackContract ==
  /\ InContract
  /\ tracker' = CancelConfirm(tracker)
  /\ locks' = IF tracker'.threw THEN locks ELSE [locks EXCEPT !.unconfirmed = {}]
  /\ TrackerOnly

(* The least recently used entities leave the cache, which holds thousands *)
EvictEntity(k) ==
  /\ k \notin MemCached
  /\ IsTracking(tracker, k)
  /\ \A i \in DOMAIN Pending : Pending[i].key # k
  /\ tracker' = [tracker EXCEPT !.cache[k] = Absent]
  /\ UNCHANGED locks
  /\ TrackerOnly

-----------------------------------------------------------------------------
(* Requests of the HTTP API: load, with an await between miss and track *)

ReadAccount(k) ==
  /\ reader = Null
  /\ ~ IsTracking(tracker, k)
  /\ table[k] # Absent
  /\ reader' = [key |-> k, entity |-> table[k]]
  /\ UNCHANGED <<database, blockVars, session, op>>

(* The request fails if the account is tracked by now *)
TrackRead ==
  /\ reader # Null
  /\ tracker' = IF IsTracking(tracker, reader.key)
                THEN tracker
                ELSE TrackPersistent(tracker, reader.key, reader.entity)
  /\ reader' = Null
  /\ UNCHANGED <<database, blockVars, sessionSerial, locks, op>>

-----------------------------------------------------------------------------
(* commitBlock, statement by statement *)

MayFail(step) == step \in FailSteps

(* ProcessBlockDbIO answers every error with rollbackBlock() *)
ThrowToProcessBlock == op' = [step |-> "rollback"]

BeginBlock(id) ==
  /\ NoContract
  /\ lastBlockHeight < MaxHeight
  /\ currentBlock' = [height |-> lastBlockHeight + 1, id |-> id]
  /\ UNCHANGED <<database, lastBlockHeight, cachedBlocks, session, op, reader>>

InsertBlock ==
  /\ NoContract
  /\ currentBlock # Null
  /\ LET height == currentBlock.height
     IN  \/ /\ height \notin DOMAIN blockRows
            /\ blockRows' = WithRow(blockRows, height, currentBlock.id)
            /\ op' = [step |-> "insertHistory"]
         \/ /\ height \in DOMAIN blockRows \/ MayFail("insertBlock")
            /\ ThrowToProcessBlock
            /\ UNCHANGED blockRows
  /\ UNCHANGED <<historyRows, table, blockVars, session, reader>>

InsertHistory ==
  /\ InStep("insertHistory")
  /\ LET height == currentBlock.height
     IN  \/ /\ height \notin DOMAIN historyRows
            /\ historyRows' = WithRow(historyRows, height, tracker.confirmed)
            /\ lastBlockHeight' = lastBlockHeight + 1
            /\ op' = [step |-> "saveChanges"]
         \/ /\ height \in DOMAIN historyRows \/ MayFail("insertHistory")
            /\ ThrowToProcessBlock
            /\ UNCHANGED <<historyRows, lastBlockHeight>>
  /\ UNCHANGED <<blockRows, table, currentBlock, cachedBlocks, session, reader>>

(* Mutant: the block stays when its changes cannot be saved *)
UndoCommitNot == ThrowToProcessBlock

UndoCommit == op' = [step |-> "deleteBlock", target |-> Null]

SaveChangesFail ==
  /\ InStep("saveChanges")
  /\ ApplyChanges(table, Pending).failed \/ MayFail("saveChanges")
  /\ tracker' = RejectChanges(Confirm(tracker))
  /\ locks' = CommitLocks
  /\ UndoCommit
  /\ UNCHANGED <<database, blockVars, sessionSerial, reader>>

SaveChanges ==
  /\ InStep("saveChanges")
  /\ LET saved == ApplyChanges(table, Pending)
     IN  ~ saved.failed /\ table' = saved.table
  /\ tracker' = AcceptChanges(Confirm(tracker), currentBlock.height)
  /\ locks' = NoLocks
  /\ sessionSerial' = currentBlock.height
  /\ IF CanPush(cachedBlocks, currentBlock.height)
     THEN /\ cachedBlocks' = PushBlock(cachedBlocks, currentBlock.height, currentBlock.id, MaxCached)
          /\ currentBlock' = Null
          /\ op' = Idle
     ELSE /\ UndoCommit
          /\ UNCHANGED <<cachedBlocks, currentBlock>>
  /\ UNCHANGED <<rows, lastBlockHeight, reader>>

-----------------------------------------------------------------------------
(* deleteLastBlock, of a commit that failed (no target) or of a rollback *)

FinishRollback(last, cache) ==
  LET known == last < 0 \/ last \in DOMAIN cache.blocks
      loads == ~ known /\ last \in DOMAIN blockRows /\ CanPush(cache, last)
  IN  /\ op' = Idle
      /\ cachedBlocks' = IF loads THEN PushBlock(cache, last, blockRows[last], MaxCached) ELSE cache
      /\ currentBlock' = IF known \/ loads THEN Null ELSE currentBlock

(* Mutant: one block too few is deleted *)
HasBlocksAboveNext(target, last) == last > target + 1

(* Whether deleteLastBlock is called once more *)
HasBlocksAbove(target, last) == last > target /\ GreaterAsText(last, target)

DeleteThrows == IF op.target = Null THEN ThrowToProcessBlock ELSE op' = Idle

DeleteBlock ==
  /\ InStep("deleteBlock")
  /\ \/ /\ blockRows' = RestrictDomain(blockRows, LAMBDA h : h # lastBlockHeight)
        /\ op' = [op EXCEPT !.step = "deleteHistory"]
     \/ /\ MayFail("deleteBlock")
        /\ DeleteThrows
        /\ UNCHANGED blockRows
  /\ UNCHANGED <<historyRows, table, blockVars, session, reader>>

DeleteHistory ==
  /\ InStep("deleteHistory")
  /\ LET last  == lastBlockHeight - 1
         cache == EvitUntil(cachedBlocks, last)
     IN  \/ /\ historyRows' = RestrictDomain(historyRows, LAMBDA h : h # lastBlockHeight)
            /\ lastBlockHeight' = last
            /\ \/ /\ op.target = Null
                  /\ ThrowToProcessBlock
                  /\ UNCHANGED <<cachedBlocks, currentBlock>>
               \/ /\ op.target # Null
                  /\ HasBlocksAbove(op.target, last)
                  /\ op' = [op EXCEPT !.step = "deleteBlock"]
                  /\ cachedBlocks' = cache
                  /\ UNCHANGED currentBlock
               \/ /\ op.target # Null
                  /\ ~ HasBlocksAbove(op.target, last)
                  /\ FinishRollback(last, cache)
         \/ /\ MayFail("deleteHistory")
            /\ DeleteThrows
            /\ UNCHANGED <<historyRows, lastBlockHeight, cachedBlocks, currentBlock>>
  /\ UNCHANGED <<blockRows, table, session, reader>>

-----------------------------------------------------------------------------
(* rollbackBlock: the entities first, in one transaction, then the blocks *)

HistoryLoaded(target) == LoadHistoryUntil(tracker, target + 1, historyRows)

Reverted(target) == RevertChanges(table, GetChangesUntil(HistoryLoaded(target), target + 1))

Undone(target) ==
  LET rejected == RejectChanges(HistoryLoaded(target))
  IN  IF rejected.threw THEN rejected ELSE RollbackChanges(rejected, target + 1, historyRows)

RemoveBlocks(target) ==
  IF HasBlocksAbove(target, lastBlockHeight)
  THEN /\ op' = [step |-> "deleteBlock", target |-> target]
       /\ UNCHANGED <<cachedBlocks, currentBlock>>
  ELSE FinishRollback(lastBlockHeight, cachedBlocks)

RollbackSucceeds(target) ==
  /\ ~ Reverted(target).failed
  /\ ~ Undone(target).threw
  /\ table' = Reverted(target).table
  /\ tracker' = Undone(target)
  /\ sessionSerial' = target
  /\ locks' = NoLocks
  /\ RemoveBlocks(target)

(* An entity cannot be undone in the cache, the tables are reverted *)
UndoThrows(target) ==
  /\ ~ Reverted(target).failed
  /\ Undone(target).threw
  /\ table' = Reverted(target).table
  /\ tracker' = Undone(target)
  /\ op' = Idle
  /\ UNCHANGED <<sessionSerial, locks, cachedBlocks, currentBlock>>

RevertFails(target) ==
  /\ Reverted(target).failed \/ MayFail("rollback")
  /\ tracker' = HistoryLoaded(target)
  /\ op' = Idle
  /\ UNCHANGED <<table, sessionSerial, locks, cachedBlocks, currentBlock>>

NothingToRevert(target) ==
  /\ UNCHANGED <<table, session>>
  /\ RemoveBlocks(target)

RollbackBlock(target) ==
  /\ IF sessionSerial < target
     THEN NothingToRevert(target)
     ELSE RollbackSucceeds(target) \/ UndoThrows(target) \/ RevertFails(target)
  /\ UNCHANGED <<rows, lastBlockHeight, reader>>

(* Before a received block, and to the common block of a synchronisation *)
RollbackTo(target) ==
  /\ NoContract
  /\ target >= lastBlockHeight - MaxRollback
  /\ RollbackBlock(target)

(* ProcessBlockDbIO, after an error *)
RollbackAfterError ==
  /\ InStep("rollback")
  /\ RollbackBlock(lastBlockHeight)

-----------------------------------------------------------------------------
Contract ==
  \/ BeginContract
  \/ CommitContract
  \/ RollbackContract
  \/ \E k \in Votes : CastVote(k) \/ Unvote(k)

AccountChange ==
  \/ \E k \in Accounts : LoadAccount(k)
  \/ \E k \in Accounts, val \in Values : CreateAccount(k, val) \/ UpdateAccount(k, val)

CommitBlock ==
  \/ \E id \in BlockIds : BeginBlock(id)
  \/ InsertBlock
  \/ InsertHistory
  \/ SaveChanges
  \/ SaveChangesFail

Rollback ==
  \/ DeleteBlock
  \/ DeleteHistory
  \/ \E target \in 0 .. lastBlockHeight : RollbackTo(target)
  \/ RollbackAfterError

Next ==
  \/ Contract
  \/ AccountChange
  \/ CommitBlock
  \/ Rollback
  \/ Restart
  \/ TrackRead
  \/ \E k \in Readers : ReadAccount(k)
  \/ \E k \in Evictable : EvictEntity(k)

Spec == Init /\ [][Next]_vars

-----------------------------------------------------------------------------
(* What is checked *)

Partial(S) == UNION {[D -> S] : D \in SUBSET (0 .. MaxHeight)}

ChangeOK(c) ==
  /\ c.key \in Key
  /\ c.original \in Entities \cup {Absent}
  /\ c.current \in Entities \cup {Absent}
  /\ IsNew(c) => c.current # Absent /\ c.current._version_ = 1
  /\ ~ IsNew(c) /\ ~ IsDelete(c) => /\ c.current._version_ = c.original._version_ + 1
                                     /\ c.current.val # c.original.val

ChangesOK(changes) == \A i \in DOMAIN changes : ChangeOK(changes[i])

(***************************************************************************)
(* The state is well formed.  In particular every change creates, modifies *)
(* by one version, or deletes; the tracker keeps the history of at most    *)
(* the versions between minVersion and its current one; and a step of a    *)
(* commit runs for a block only (basicEntityTracker.ts, smartDB.ts).       *)
(***************************************************************************)
TypeOK ==
  /\ blockRows \in Partial(BlockIds)
  /\ DOMAIN historyRows \subseteq 0 .. MaxHeight
  /\ \A h \in DOMAIN historyRows : ChangesOK(historyRows[h])
  /\ table \in [Key -> Entities \cup {Absent}]
  /\ lastBlockHeight \in -1 .. MaxHeight
  /\ currentBlock = Null \/ currentBlock \in [height : 0 .. MaxHeight, id : BlockIds]
  /\ tracker.cache \in [Key -> Entities \cup {Absent}]
  /\ ChangesOK(Pending)
  /\ ~ tracker.confirming => tracker.unconfirmed = <<>>
  /\ tracker.minVersion <= tracker.currentVersion
  /\ DOMAIN tracker.history \subseteq 0 .. MaxHeight
  /\ sessionSerial \in -1 .. MaxHeight
  /\ locks \in [confirmed : SUBSET Votes, unconfirmed : SUBSET Votes]
  /\ op.step \in {"insertHistory", "saveChanges"} => currentBlock # Null

(***************************************************************************)
(* Coherence of the entity cache (lruEntityCache.ts) with the tables: what *)
(* is cached is what the tables will hold when the pending changes are     *)
(* saved, with its version, so that no update misses its row, and no       *)
(* insert meets one.  A rollback, of however many blocks, reverts what is  *)
(* persisted and what is cached (smartDB.rollbackBlock.test.ts).           *)
(***************************************************************************)
CoherentCache ==
  LET saved == ApplyChanges(table, Pending)
  IN  /\ ~ saved.failed
      /\ \A k \in Key : IsTracking(tracker, k) => tracker.cache[k] = saved.table[k]

(***************************************************************************)
(* Whatever was done can be undone: the pending changes in the cache, as a *)
(* failing contract or a received block asks for, and the last block in    *)
(* the tables.  An entity that was deleted twice, which the locks of the   *)
(* contracts are there to prevent, could not be inserted twice.            *)
(***************************************************************************)
Revertible ==
  /\ ~ UndoChanges(tracker.cache, Pending).throws
  /\ NoBlockOperation /\ sessionSerial \in DOMAIN tracker.history =>
       ~ RevertChanges(table, tracker.history[sessionSerial]).failed

(***************************************************************************)
(* Between the operations on blocks, the blocks that the block cache       *)
(* answers up to the last height (getBlockByHeight, getBlockById) are      *)
(* those of the Block table.  The cache keeps blocks that were rolled back *)
(* and evicts by a range of heights that leaves them out (blockCache.ts);  *)
(* none of them may be taken for the block that has its height now.        *)
(***************************************************************************)
CachedBlocksAreRows ==
  NoBlockOperation =>
    \A h \in DOMAIN cachedBlocks.blocks :
      h <= lastBlockHeight => /\ h \in DOMAIN blockRows
                             /\ cachedBlocks.blocks[h] = blockRows[h]

(***************************************************************************)
(* A block that is in the table was committed with its changes: smartDB.ts *)
(* says of a change that it is made "on the next block-commit".  It is the *)
(* undoing of a commit that fails which is looked at: a process that stops *)
(* between the insert of the row and the saving leaves the row alone.      *)
(***************************************************************************)
LastBlockSaved ==
  NoBlockOperation /\ lastBlockHeight >= 0 =>
    /\ lastBlockHeight \in DOMAIN historyRows
    /\ LET changes == historyRows[lastBlockHeight]
       IN  \A i \in DOMAIN changes :
             \/ table[changes[i].key] = changes[i].current
             \/ \E j \in DOMAIN changes : j > i /\ changes[j].key = changes[i].key

(***************************************************************************)
(* The blocks and the entities are of the same height: a rollback takes    *)
(* both back to its target, and a commit that failed neither forward.      *)
(***************************************************************************)
SameHeight == NoBlockOperation => sessionSerial = lastBlockHeight

-----------------------------------------------------------------------------
(* The store that SmartDB implements *)

(* During a commit or a rollback the entities count, not the block rows *)
KeptHeight ==
  CASE InStep("saveChanges") -> lastBlockHeight - 1
    [] op.step \in {"deleteBlock", "deleteHistory"} ->
         IF op.target = Null THEN lastBlockHeight - 1 ELSE op.target
    [] OTHER -> lastBlockHeight

ValueOf(entity) == IF entity = Absent THEN Absent ELSE entity.val

(* What load returns; a deleted vote is not loaded again *)
StoreOf(t) ==
  LET saved == ApplyChanges(table, t.confirmed \o t.unconfirmed).table
  IN  [k \in Key |-> ValueOf(IF IsTracking(t, k) THEN t.cache[k] ELSE saved[k])]

(* The values of the tables after block h, by the rows of BlockHistory *)
ValuesAt(h) ==
  LET later == FlattenSeq([i \in 1 .. KeptHeight - h |-> historyRows[h + i]])
      tab   == RevertChanges(table, later).table
  IN  [k \in Key |-> ValueOf(tab[k])]

Versions == [i \in 1 .. KeptHeight + 1 |-> ValuesAt(i - 1)]

Present == StoreOf(tracker)

Before == IF tracker.confirming THEN StoreOf(CancelConfirm(tracker)) ELSE Absent

Store ==
  INSTANCE VersionedStore WITH
    None <- Absent, versions <- Versions, store <- Present, before <- Before

(***************************************************************************)
(* SmartDB keeps the promises of VersionedStore: contracts are atomic, and *)
(* a rollback, a failed commit or a restart brings back exactly what an    *)
(* earlier block had left.                                                 *)
(***************************************************************************)
ImplementsStore == Store!Spec

=============================================================================
