# Formal models of gny

TLA+ models of the gny node (`packages/main`, `packages/base`, `packages/utils`,
`packages/database-postgres`), the TLC instances that check them, and theorems
about them checked by TLAPS.

## Inventory

| Component | State | Operations | Interacts with |
|---|---|---|---|
| Forging loop, `core/delegates.ts` | key pairs, `round_bookkeeper` | `loop` every 100 ms, slot checks, delegate list of a round | enqueues a forging task; `Blocks.generateBlock`, `processBlock` |
| Block consensus, `core/blocks.ts`, `BlocksHelper`, `ConsensusHelper`, `base/consensusBase` | `global.state` (`IState`): pending block and votes, last block, last propose, caches | `generateBlock`, `onReceivePropose`, `onReceiveVotes`, `onReceiveBlock`, `processBlock`, `onBind` | SmartDB, Transport, Loader |
| Synchronisation, `core/loader.ts` | `privSyncing`, `blocksToSync` | timer `nextSync`, `startSyncBlocks`, `syncBlocksFromPeer`, `findUpdate` | requests to a peer, `rollbackBlock`, `processBlock` |
| Transport and peer API, `core/transport.ts`, `http/api/transportApi.ts` | latest-block and header caches | broadcasts of proposes and block headers; `newBlock`, `commonBlock`, `blocks`, `votes`, `getHeight` | bus messages to Blocks |
| Task sequence, `utils/sequence.ts` | queue of concurrency 1, 15 s limit per task | `add`, `tick` | every handler that changes state runs in it |
| Transactions and pool, `core/transactions.ts`, `transaction-pool` | unconfirmed pool, failed-transaction cache, uncommitted entity changes | `processUnconfirmedTransaction`, `applyUnconfirmedTransaction`, redo after a block | SmartDB contracts, sequence |
| SmartDB and sessions, `database-postgres` | tables, block and history rows, LRU caches of entities with unique indexes, tracker, block cache | `beginBlock`, `commitBlock`, `rollbackBlock`, `beginContract`, `commitContract`, `rollbackContract` | Blocks, Transactions, Loader |
| Rounds, rewards, fees | `Round`, `Delegate`, `Account` rows | `applyRound`, `calculateReward` | processBlock |
| Contracts, `main/src/contract` | accounts, locks, votes, assets, balances, data | transfer, lock, unlock, vote, unvote, uia, ml | Transactions |
| HTTP API, `main/src/http` | `blockchainReady`, key pairs to forge with | reads of the tables, forging on and off, putting transactions | tables and caches while blocks are committed, sequence, pool |
| p2p, protobuf, cli, client, ed, joi, logger | none of the chain | I/O, formats | not modelled |

### What is hard

* **Tasks that wait.** Handlers read state, enqueue, and run later
  (`delegates.ts:144`, `loader.ts:222`). In between the last block, the round
  and the pending block may have changed.
* **Votes.** A proposer may propose twice at a height, votes arrive late, twice
  or for a former propose; only six signatures travel with a block.
* **Forks.** A voter does not check that a propose extends its last block, and
  there is no locking across slots: nodes of one network may commit different
  blocks of a height. What the code gives is recovery, by `Loader`.
* **Synchronisation.** It runs over many awaits while peers move on, rolls blocks
  back by comparing heights as strings, and counts a refused block as common.
* **Failure.** `processBlock` swallows every error; contracts and the database
  may throw in the middle of a block; a restart keeps only the database.
* **Tasks that take too long.** The Sequence gives a task up after 15 seconds, and its
  body goes on beside the next one.
* **The pool.** Transactions are applied to the session when they arrive, before any
  block; every block of another node takes them back and applies the rest again.
* **Reads.** HTTP requests bypass the Sequence: their queries see different blocks.
* **Storage.** A commit is three groups of statements of which only the last is a
  transaction; a rollback reverts the entities first and deletes the blocks after it; the
  entity cache, the history in memory and the block cache have to follow the tables
  through failed contracts, failed statements, rollbacks, restarts, and reads by the API.

## Modules

| Module | Content |
|---|---|
| `Heights` | heights as strings of digits, compared by the models below; rows kept by height |
| `Blocks` | constants, slots, rounds, blocks, block ids, delegate lists, votes, quorums (`base`, `utils`) |
| `NodeState` | `IState` and the pure functions of `ConsensusHelper`, `BlocksHelper`, `StateHelper` |
| `Ledger` | abstract specification of the Block tables: append a block made for the last one, or drop fewer than `ForkLimit` |
| `Consensus` | the network: forging, voting, receiving, synchronising, restarting |
| `MCConsensus` | instances for TLC |
| `LedgerProofs`, `ConsensusProofs` | theorems on `Ledger` and `Consensus`: types, the refinement, voting |
| `EntityTracker` | `BasicEntityTracker` over the entity cache: changes, undo, history (operators on a tracker) |
| `BlockCache` | the cache of the newest blocks (operators on a cache) |
| `SmartDB` | one node's storage: sessions, locks, commits, rollbacks, restarts, API reads |
| `VersionedStore` | abstract specification of the storage: values by key, kept block by block |
| `EntityCache` | `LRUEntityCache`, `UniquedCache`, `CustomCache` and the session over them, for one model |
| `Contracts` | the contracts, and applying a transaction: operators on a session |
| `Rounds` | `applyRound`, rewards, supply, delegates of a round: operators on the tables |
| `Execution` | one node: pool, overlay, failed transactions, blocks of every origin, synchronisation, restart |
| `HttpApi` | `Execution` with the HTTP requests it answers meanwhile |
| `TaskQueue` | the Sequence, its time limit, and the bodies of its tasks |
| `MCSmartDB`, `MCEntityCache`, `MCExecution`, `MCHttpApi`, `MCTaskQueue` | instances for TLC |
| `TaskQueueProofs` | theorems on `TaskQueue` |
| `SmartDBProofs` | theorems on `SmartDB`: heights, the entity cache, undoing, the refinement of `VersionedStore` |
| `EntityCacheProofs` | theorems on `EntityCache`: the cache by itself, and what a session finds through it |
| `ExecutionProofs` | theorems on `Execution`: tables, overlay and pool are what the blocks say; the supply and the quantities of assets add up |
| `RoundsProofs` | theorems on what contracts and rounds do in `Execution`: missed blocks, that coins are conserved, and that votes weigh what is locked |
| `HttpApiProofs` | theorems on `HttpApi`: what a handler found by several queries fits together |

How they fit together: `Consensus` says how a block is agreed on, with an opaque payload and
a database that is a table of blocks whose statements may fail; `Ledger` is what it promises of the
blocks that count in that table. `Execution`
says what the payload does, over storage that keeps the promises of `VersionedStore`;
`SmartDB` shows that the storage keeps them, over an entity cache that forgets nothing but
what it is told to; `EntityCache` shows how that cache is kept. `TaskQueue` is why all of
them may take a task of the Sequence for one step. `HttpApi` extends `Execution`; `Heights`
serves `Consensus`, `SmartDB` and `Contracts`.

### Consensus

One variable per piece of a node: `state[n]` (`global.state`), `chain[n]` (the Block
table, rows by height), `dbHeight[n]` (`lastBlockHeight` of SmartDB, which is in memory: rows
above it are there and do not count), `tasks[n]` (tasks that wait in the Sequence), `sync[n]` (the running sync with
what it has awaited), and the network: `proposes`, `voteMsgs`, `newBlocks`. `now` is the
clock in half slots, enough for the three comparisons the code makes (slot, first half
of the slot, less than five seconds ago). `signed` is a history variable.

| Action | Code |
|---|---|
| `Loop`, `RunLoopTask` | `Delegates.loop` before and inside `sequence.add`, with `generateBlock` |
| `OnReceivePropose`, `OnReceiveVotes`, `OnReceiveBlock` | the handlers of `blocks.ts`, with the checks of `transport.ts` |
| `ProcessBlock` (operator) | `processBlock` with all it calls: the block is committed, or refused, or the database throws, before any row is left (`commit`) or between the insertion of the Block row and of the BlockHistory row (`insertHistory`), as `appendBlock` uses no transaction |
| `RollbackThrowsAt`, `DeleteBlocks` (operators) | `rollbackBlock`, which deletes one block after the other and may throw after any of them (`rollback`); `FindUpdate` then leaves `lastBlock` as it was |
| `NextSync`, `StartSync`, `FindUpdate`, `SyncBlocksFromPeer`, `RequestBlocks`, `LoadBlock`, `SyncFails`, `GetHeightFails` | `loader.ts` and `loadBlocksFromPeer`, cut at every request to the peer, together with the answer of the peer (`transportApi.ts`) |
| `Restart` | stop of the process, then `SmartDB.init` and `onBind`: the highest row is the last block |
| `Tick` | the clock |

A task of the Sequence that waits for nobody is one step. Messages stay in their sets:
they may be handled late, again, or never. A handler that finds `IsSyncing` returns
early, which here means that its action is not enabled. A received propose or vote runs
in one step with its reception: it carries nothing read earlier, so that waiting in the
queue is the same as arriving later. The votes of a delegate and the block ids are
records instead of hashes and signatures: no collisions, no forgeries. The delegate list
of a round is a constant `Schedule`, the result of votes for delegates being outside this
module. A block has a `payload` instead of transactions.

What may throw is `FailSteps`, on `DbFailNodes`. One call meets one failure: a second one while the
first is taken back (a delete after a failed `saveChanges`), and a failure between the two rows of a
block that is deleted, are left to `SmartDB`.

Abstracted or left out here: the time limit of a task (`sequence.ts:17`), a request that
is never answered, the transactions of a block, the 200-block limit of an answer, the
caches of received headers (a header is answered with its block as long as the announcing
node lives), and the exceptions thrown for a propose without a public address.

### SmartDB

`blockRows`, `historyRows` and `table` are the database, all that survives a restart. An
entity is one value and its `_version_`; a change holds the entity before and after it.
`tracker` is the record `EntityTracker` computes on, with the entity cache and the history
in memory; `op` says where a running commit or rollback is, `reader` what an API request
has read and not cached yet.

| Action | Code |
|---|---|
| `BeginContract`, `CommitContract`, `RollbackContract` | `beginContract`, ... and the entity transactions of `DbSession` |
| `LoadAccount`, `CreateAccount`, `UpdateAccount` | `load`, `create`, `update` and `increase` of `SmartDB`, `DbSession`, the tracker |
| `CastVote`, `Unvote` | the contracts `vote` and `unvote`: lock, look in the table, create or delete |
| `BeginBlock`, `InsertBlock`, `InsertHistory`, `SaveChanges`, `SaveChangesFail` | `beginBlock`, `commitBlock`, `saveChanges`, cut at every awaited statement |
| `RollbackTo`, `RollbackAfterError` | `rollbackBlock` up to the transaction on the entities, by `Loader`, `Blocks.onReceiveBlock` and the catch of `ProcessBlockDbIO` |
| `DeleteBlock`, `DeleteHistory` | the statements of `deleteLastBlock`, then `evitUntil` and `ensureLastBlockLoaded` |
| `Restart` | stop of the process, then `init` |
| `ReadAccount`, `TrackRead` | `load` by a request of the HTTP API, before and after its await |
| `EvictEntity` | the LRU cache drops an entity nobody changes |

The tasks of the Sequence use the storage one at a time, so contracts and operations on
blocks do not overlap; API reads overlap with everything. A transaction of the database is
all or nothing. A vote has no properties that change. An update whose version the row does
not have changes nothing and reports nothing (`jsonSQLBuilder.ts:76`), an insert of a row
that exists fails. A contract takes one step to load an entity. Genesis is block 0, and
the contracts before it are those of any block.

`VersionedStore` says what contracts and blocks rely on. The mapping reads the tables as
they were after each block off the rows of BlockHistory; during a commit or a rollback
the entities decide which blocks count, not the rows of the blocks. A step of SmartDB is a
`Set`, the beginning or end of a contract, a kept block, a rollback to an earlier version,
or nothing.

### EntityCache

The cache of one model: `entity` by key, `order` (most recently used first), `index` (a key
by unique field and value); around it the rows of the model, the pending changes, and the
entities used since the last commit.

| Definition | Code |
|---|---|
| `Touch`, `Insert`, `Evit`, `Trim` | `get`, `set`, `del` and the limit of the LRU cache, which disposes |
| `Set`, `AddIndexes`, `AfterEvit` | `UniquedCache.set`, in the order in which an index throws, and its `afterEvit` |
| `RefreshCached` | `LRUEntityCache.refreshCached`: set again if a unique field changes, in place otherwise |
| `Load`, `LoadUnique`, `Create`, `Update`, `Delete` | the session: cache, then table; the pending changes in the cache only |
| `Commit`, `Undo`, `Clear` | `saveChanges` with `acceptChanges`, one step of `undoChanges`, `clear` |

Unique fields are set once (user names), as the contracts do. `TouchLimit` bounds the
entities used between two commits: see Observations for what happens beyond the limit.

### Contracts, Rounds, Execution

A `session` is what a contract sees: `view` (cache with the pending changes), `table` (what
`findAll`, `findOne`, `exists` and `count` query) and `locks`. A contract is an operator from
a session to the new view, or `Refused`: an error or an exception takes all of it back, its
fee and locks included. An amount is an integer; where the code adds strings (`basic.ts:250`)
`Concatenate` does what `+` does, and where it goes through a Number (`basic.ts:23`, `:54`)
`NumberOf` is what comes out: `Inexact` gives the amounts above `MaxExact` (2^53) that become
others. Fees, votes, locks and balances are computed with `BigNumber`, exactly. Contents of transactions are records of a constant.

| Action of `Execution` | Code |
|---|---|
| `ReceiveTransaction` | `Blocks.onReceiveTransaction`, `receivePeer_Transaction` and the peer's pool, with `processUnconfirmedTransactionAsync` |
| `Forge`, `Propose`, `OnReceiveVotes` | `generateBlock` and `processBlock` of local blocks, whose transactions are applied already |
| `OnReceiveBlock` | pool taken back, block executed, rest of the pool applied again |
| `StartSync`, `StartSyncFromGenesis`, `LoadBlock`, `EndSync` | `Loader` and `loadBlocksFromPeer`, as far as they touch pool and tables |
| `Restart` | the tables and nothing else |

`TablesAfter` is `SaveBlockTransactions` and `ApplyRound`; `saved[h]` the tables as block `h`
left them, which is what a rollback brings back (`VersionedStore`). Other nodes' blocks hold
any sequence of the transactions that are sent, valid or not.

### HttpApi

A request is its parameters and what its queries answered so far (`request.seen`); an
operator per handler says what comes next: `Awaits` one of some results, or `Answers`. So a
handler of four queries takes five steps, with commits and rollbacks in between. The row of a
block is `inserted` before the commit that saves its transactions. An unordered page of a list
may be any rows of that number. `request.removed` remembers that a rollback took away what a
request might have seen. One request runs at a time: requests share only the key pairs.

`Start` is `onBlockchainReady`, `AddTransactions` the batch of `PUT /api/transactions`.

### TaskQueue

`queue` and `worker` are the queue of concurrency 1, `called` the flag `isCallbacked`,
`immediates` the callbacks given to `setImmediate`; a body is at one of five places.
`global.state` is the set of tasks whose `setState` it shows, `copy` what a body got.

| Action | Code |
|---|---|
| `Add` | `Sequence.add`, after the check of `IsSyncing` where there is one |
| `BeginTask`, `BeginTransaction`, `RefuseTransaction`, `BeginSync`, `Throw` | `tick` and the body up to its first await; a body that is no async function throws into `tick` |
| `EndTask`, `FailTask`, `EndSync`, `RollbackFails` | the ways a body ends: with `setState`, without, never calling back |
| `RollbackSucceeds`, `LoadBlock`, `BlockLoaded` | the inside of a sync |
| `Timeout`, `RunImmediate` | the timer of `tick`, and the event loop |

A task given up is still at its place, and may end later: it may not call back twice, but
it may set its state.

### Observations

Read off the code while modelling, none of them a property:

* `blockCache` is emptied by the cleanup of `processBlock` before the state is saved, so
  `AlreadyReceivedThisBlock` never stops anything.
* `SyncBlocksFromPeer` calls back only on success: if the rollback of the pool throws, the task ends
  with the time limit of the Sequence.
* `IsLongFork` (five or more) cannot be true: `getIdSequence2` asks for five heights only.
  `FindUpdate` keeps the test and the theorems do not depend on it.
* A propose that is ignored leaves no mark, as `setState` is not reached.
* Votes that make the quorum in `generateBlock` do not commit the block; the next votes
  message does, whatever it is for.
* Two nodes that synchronise from each other refuse each other's requests (`transportApi.ts:376`), and
  nothing keeps them from doing so again and again. Two nodes on forks as long as what they compare
  (`getIdSequence2`) find no common block; `findUpdate` gives up, and neither comes up.
* A failed insertion of the history row (`smartDB.ts:301`) leaves the Block row: the next height is
  taken until the node restarts. Then that row is its last block, without its changes and without
  history, and if the node has rolled blocks back meanwhile, the row below it is missing.
* A rollback of a sync that throws midway leaves `state.lastBlock` above the table
  (`loader.ts:78-81`). Whatever follows the node compares with that block: it refuses every block
  that does not extend it, and one that does cannot be inserted; the rollback before a received
  block throws (`smartDB.ts:370`), and `commonBlock` is asked with a list that has a block too few,
  so that places do not match. The next sync that finds a common block, or a restart, repairs it.
* A delete that fails between the Block row and the BlockHistory row leaves the height as it was,
  without its block; one that fails while a failed commit is taken back leaves a last block in the
  database that is not `state.lastBlock`.
* A block that was rolled back at the lower end of the block cache stays there. Above the last height
  `getBlockByHeight` and `getBlockById` may answer it; `CachedBlocksAreRows` says that once another
  block has its height it is not taken for that one.
* `commitEntityTransaction` copies the unconfirmed locks and keeps them too, until a
  contract fails or the block is saved.
* A second propose at a height keeps the votes, and their id, of the first
  (`ConsensusHelper.ts:44`): every receiver of its block throws "Votes id is not correct".
  The run `stale_votes` shows the graver side of it.
* A rollback whose transaction fails, or a block that `deleteLastBlock` fails to delete,
  leaves `currentBlock` and the pending changes behind.
* A failed text comparison in `rollbackBlock` leaves the block but `rollbackChanges` has
  taken back its entities already.
* `getBlocksByHeightRange` has no ORDER BY (`dbSession.ts:539`), though
  `test/integration/orm/smartDB.getBlocksByHeightRange.test.ts:77` speaks of ascending order;
  `getBlocks`, `commonBlock` and `applyRound` rely on it. The models take the order of insertion.
* `GET /api/accounts/getBalance` takes its address from `req.params`, where there is none
  (`accountsApi.ts:208`); `getTransactions` ignores the height 0; a key whose delegate was
  rolled back cannot be disabled (`delegatesApi.ts`, `isDelegate` is asked for).
* `deleteCreatedVotes` takes `String(-account.lockAmount)` off the votes (`basic.ts:23`): above 2^53
  (90 million GNY, or less after `unlock` has put two amounts behind each other) this is not what was
  added, and from 1e21 it has an exponent. `VoteWeights` speaks of chains without such an unlock; if
  `ExactUnlocks` is left out, `transactions`, where Number rounds one of the amounts, violates it.
  `transfer` rounds as well (`basic.ts:54`), but compares, takes and gives the same rounded amount.
* `unlock` adds the coins as strings (`basic.ts:250`): `Conservation` leaves it out. It deletes
  the votes of an account only if that is a delegate itself (`basic.ts:244`); otherwise they keep
  the weight of coins that are no longer locked, so that `VoteWeights` asks for equality only if
  no such account unlocked, and for no fewer votes than locked coins in any case.
* A round keeps back twice the remainder of its division: the last forger gets average times
  delegates minus total, which is negative (`blocks.ts:444`). `Conservation` accounts for it.
* With fewer delegates than a round has blocks, `applyRound` pays more than was earned: the
  average over the delegates, once per block. A round on the testnet, whose genesis block
  registers 21 delegates, pays about 101/21 of its fees and rewards, until 101 are registered.
  `Conservation` accounts for this too: it says what such a round pays, not that it should.
* A transaction that is refused, because it came twice, or while votes were collected, or
  because of a lock, is remembered as failed and refused for ever on that node.
* A transaction of an unknown sender at height 0 creates the account outside of its contract
  (`transactions.ts:126`). If it then fails, the empty account stays in the overlay until the
  next block, or a node that forges that block saves it and others do not: `transactions` with
  a sender that has no account violates `OverlayIsPool` and `StateIsReplay`.
* A sync that begins while votes are collected rolls the overlay back and leaves the pending
  block, which is then committed without its effects: `transactions` with `SyncWhenBusy = TRUE`
  violates `StateIsReplay`. The code has no guard against it. That committing a pending block as a
  local one is right is therefore claimed of its place in the chain only (`PendingExtendsTip`);
  `Consensus` has no transactions and does not see the overlay.
* `RunLoopTask` keeps the key chosen before it was enqueued (`delegates.ts:144`). If the last
  block of a round is committed while the task waits, the block it forges belongs to another
  delegate there; the node commits and announces it, and every other node throws "Failed to
  verify slot, expected delegate" (`delegates.ts:325`). No property of a passing run forbids it.
* The queue of the Sequence waits its 15 seconds when the rollback of a sync fails, as nobody
  calls back (`loader.ts:248`). Two syncs, one of them given up, leave `privSyncing` false while
  one of them still runs. A sender who was told "Worker task timeout" may find its transaction
  in the pool later.

Some more can be shown by changing the constants of a run, and are why the passing runs are
instantiated as they are:

* `voting` violates `NoDoubleSign` if its exception for an announcement that is refused (`Refused`)
  is left out: a node that has forged its own block of slot 3 receives the
  announcement of a block whose votes are those of a replaced propose; its verification
  throws, the cleanup of `processBlock` drops the node's own pending block, and in the same
  slot it forges and signs another one. A restart within a slot has the same effect, as
  `lastPropose` is not persisted.
* `storage` with `CrashSteps = {"saveChanges"}` violates `LastBlockSaved`: the rows of a
  block are inserted outside of the transaction on its entities (`smartDB.ts:345`), and a
  process that stops in between restarts with a block whose changes were never made.
* `storage` with `Readers <- OneAccount` violates `CoherentCache`, which holds there otherwise: `load`
  awaits a row and caches it afterwards (`dbSession.ts:263`), also when a rollback, or a commit after
  an eviction, has changed it in between.
* After a restart the second of two rollbacks of one block throws (`UndoThrows`,
  fired in `block_cache`): `minVersion` is lowered without loading the history
  (`basicEntityTracker.ts:406`), so no change is found to undo. The rollback stops before it
  deletes a block.
* In `block_cache` the last block may be missing from the block cache, until it is asked for:
  `evitUntil` keeps the oldest cached block (`blockCache.ts:4`), each rollback to it leaves one more
  entry, and once there are too many `push` deletes the block it has just added
  (`blockCache.ts:51`). With the ten entries of the code this takes some ten rollbacks of one block
  after two were committed, starting with a restart. `SmartDB.lastBlock` is then undefined.
* `entity_cache` with `TouchLimit = 3` violates `PendingVisible`: at its limit the cache drops
  an entity whose change is pending, and the table still has the old one (`customCache.ts:18`).
  The limit for accounts is 50,000.

## Runs

Every bound is a constant. In `Consensus`: `MaxHeight`, `MaxNow` (half slots), `MaxTasks`,
`SyncNodes` (whose sync requests are answered), `DbFailNodes`, `FailSteps` (what may fail there),
`RestartNodes`. In `SmartDB`:
`MaxHeight`, `MaxChanges` (between two blocks), `MaxRollback` (blocks of one rollback),
`FailSteps` and `CrashSteps` (what may fail, and where the process may stop), `Readers` and
`Evictable`. In `EntityCache`: `MaxPending`, `TouchLimit`. In `Execution`: `Senders`,
`MaxHeight`, `MaxPool`, `MaxBlockTrs`, `ForkLimit`, `SyncWhenBusy`; in `HttpApi` also
`Requests` and `Batches`. `TaskQueue` is bounded by its tasks. In the runs of `Consensus` the clock stops
at `MaxNow`, and in `task_queue` all tasks end, hence `CHECK_DEADLOCK FALSE` there.

| Run | Instance | Properties |
|---|---|---|
| `voting` | 3 nodes, 4 delegates, 2 payloads (symmetric), 2 heights, 4 slots | `DistinctSigners`, `NoDoubleSign`, `AcceptedCertified` |
| `sync` | 2 nodes, 4 delegates, 3 heights, both synchronise; n1 is restarted at any time, at n2 a commit, a history row or a rollback may fail | `TypeOK`, `PendingExtendsTip`, `StateAgreesWithDb`, `ImplementsLedger` |
| `catch_up` | 2 nodes, 3 heights, n1 commits alone, n2 needs its votes, both synchronise, `FairSpec` | `CatchUp` |
| `storage` | an account and a vote, 2 changes between blocks, blocks 0 and 1, failing commits, restarts, evictions | `TypeOK`, `Revertible`, `ImplementsStore`, `LastBlockSaved` |
| `block_cache` | an account and an entity of a memory model, blocks 0 to 2, two per height (symmetric), a block cache of two, history of one version, rollbacks of any depth, evictions, failing inserts and saves, restarts, API reads | `CachedBlocksAreRows`, `SameHeight` |
| `transactions` | 2 delegates, rounds of 2 blocks, 3 blocks, 7 transactions that lock, vote, pay and unlock, a pool of 2, forks of one block | `StateIsReplay`, `OverlayIsPool`, `ExecutedOnce`, `Conservation`, `VoteWeights`, `MissedRounds`, `SupplyIsRewards` |
| `queries` | one delegate and rounds of two blocks, another account that is none, 3 blocks, 4 transactions on assets, each route with its parameters | `HttpTypeOK`, `BlocksComplete`, `CountsCovered`, `TransfersResolved`, `IssuedQuantity`, `KeysOfDelegates`, `Conservation` |
| `task_queue` | a propose, a transaction and both kinds of sync | `TypeOK`, `OneAtATime`, `NothingLost`, `AnsweredOnce`, `SyncingIsSync`, `Served` |
| `entity_cache` | 3 entities, 2 unique fields of 2 values, a cache of 2, 2 changes between commits, symmetric in keys and values | `TypeOK`, `IndexSound`, `PendingVisible`, `UniqueValues` |
| `stale_votes`, `deep_rollback`, `rollback` | see findings | one each, violated |

Two heights and three or four slots suffice for a fork, a second propose at a height, a
rollback and the blocks loaded after it; a third node is needed for votes to be split.
`rollback` takes four heights, and base 3 for the numerals, instead of ten heights and
base 10. Restarts and failures are in `sync` and not in `voting`: after a restart a node
has forgotten its last propose and may sign twice in a slot, which the code does not
try to prevent. `voting` reaches the slot in which a node drops its pending block for a received
block that fails and signs twice: `NoDoubleSign` names this as one of three ways around what keeps
a delegate from it, and says that there are no others. In `sync` a rollback that stops midway and a
row left without its history do occur. Of `ImplementsLedger` the failing node is not the one that
restarts (`LeftRowsStay`): a restart takes a row that was left for the last block.

`storage` has the faults that SmartDB survives, failing inserts, saves and reverts and restarts
between tasks, and those it does not survive are among the observations. In `block_cache`, where
fewer properties are claimed, the history row may fail too. A Block or BlockHistory row whose delete
fails is in neither; `sync` has what it leaves to `Consensus`. Two
changes of one entity between blocks are what it takes to undo in the wrong order or to
delete twice; three blocks are what it takes to roll back twice in a row. The heights stay
below ten, so that their comparison as strings is that of numbers. `SmartDB` has no liveness
property: a statement that never answers is the business of the task sequence.

In `transactions` Number rounds 30 and 49, of which one can be locked and unlocked. A round ends at height 2, with fees that two delegates cannot share
evenly, and the third block begins the next one; both milestones are reached and the last is
passed. Locks take one block instead of 172,800, so that coins can be added to and unlocked.
Sequences of transactions in a block of another node are of length one: longer ones come
about as blocks of the pool. `queries` has all the requests on the tables one chain of assets
fills. Every task of `task_queue` may hang at every place and be given up there, and four
are enough for two that wait behind one that hangs beside another given up.
A cache of two that sees three entities evicts one at every step.

### Fairness

`CatchUp` is checked under `FairSpec`: the clock runs, the Sequence runs its tasks (weak
fairness of `RunTask`), a running sync goes on (`SyncStep`). `NextSync` and the requests
of a sync get strong fairness: the timer is started again after every firing, whatever it
found, and a peer that is free to answer again and again answers in the end. Broadcasts
need not arrive, and no broadcast is repeated for ever (`<>[][~ Receive(n)]_vars`), as
two nodes could otherwise keep each other in the refusing state. That a peer is free again is not
assumed of the code, which does not see to it: `CatchUp` says of a node that it does not stay behind a
peer that stops synchronising, and on a fork on which the two still have a common block to compare.

`Served` is checked under the `Fairness` of `TaskQueue`: Node.js runs what `setImmediate`
and `setTimeout` were given (`RunImmediate`, `Timeout`), and the queue begins its next task
(`BeginAny`), each weakly fair. Nothing is assumed of bodies: they may wait for ever.

### Findings

1. `stale_votes`: the votes for two proposes of a height are counted together, and a block
   is committed without a quorum (`ConsensusHelper.ts:38`).
2. `deep_rollback`: a rollback of more than one block leaves the entity cache as it was
   (`basicEntityTracker.ts:388`): `rollbackChanges` returns at once when its target is below the
   current version. The tables are reverted, the cached entities are not, and the next update
   of such an entity asks for a version its row does not have.
3. `rollback`: heights are compared as strings (`smartDB.ts:390`).

## Proofs

For every number of nodes, delegates, heights and slots, and every schedule, from
`BlocksAssumption` alone:

* `TypeCorrect`: `TypeOK` is inductive. It is stated field by field, since blocks and
  messages range over no finite set.
* `NodesCorrect`: the invariant behind the rest, `NodesOK`, per node: the cached last
  block is that of `dbHeight`, or above it, which takes a rollback that failed; the rows up to
  `dbHeight` have no gap and extend each other, unless a row left behind was found by a restart; rows
  above it were left by `insertHistory`; a pending block is above the last
  block and extends it when it is next in line; a running sync compares from a height not
  below the last block. The last part is why a rollback drops fewer than `ForkLimit`
  blocks, also when it stops midway; the one before is why `onReceiveVotes` may commit without
  comparing again. No pending block
  needs to be dropped by a sync: after a rollback its height is not the next one, and
  while the table grows back `processBlock` clears it.
* `StateAgreesWithDbCorrect`, `PendingExtendsTipCorrect` follow from it, with nothing assumed about
  which nodes fail, where, or restart. A node whose last block is above its table stays so
  only until a sync sets it: it never appends a block then, as that would have to be of two heights.
* `Refinement`: `LeftRowsStay` implies `Spec => ImplementsLedger`, by cases on the action: each leaves
  the rows of every node that count alone, appends to one, or rolls one back (`CountedStep`).
* `LedgerIsChain` (in `LedgerProofs`) and, under `LeftRowsStay`, `TablesAreChains`: the tables are
  chains.
* `DistinctSignersCorrect`, `AcceptedCertifiedCorrect`, from `VotingCorrect`, with restarts,
  failing databases and syncs. `VotingInv` has three parts: `Tallies` (the votes a node holds
  have one signature per delegate, and were all signed), `VotesSigned` (the votes on the way
  too) and `AnnouncedCertified` (an announced block had a quorum behind it). The point of the
  proof is that collected votes may belong to a block that a second propose has replaced
  (see `stale_votes`); what saves `AcceptedCertified` is that a receiver compares the id of the
  votes with that of the block, so that those of the replaced block are refused.

About the task queue, for any set of tasks and their kinds, from `TaskQueueAssumption`:

* `TypeCorrect`, `OneAtATimeCorrect`, `NothingLostCorrect`, `AnsweredOnceCorrect`,
  `SyncingIsSyncCorrect`, all from one inductive invariant `IInv`. Its heart is
  `WorkerUncalled`: a task that has begun and not called back is the one the queue waits for;
  with `NextOfWorker` (the callback that frees the queue is that of the task it waits for, and
  there is one) no late answer can free the queue for a second task. `AnswerPending` counts
  answers given and to be given; `CopyKept` says that a body that runs alone holds the state
  as it is, which is why its `setState` loses nothing.

About the entity cache, for any keys, unique fields, values and limit, from
`EntityCacheAssumption`:

* `TypeCorrect` and `IndexSoundCorrect`. The invariant, `CacheOK`, ties the order, the entities
  and the indexes together. Sets insert before they trim, so the lemmas on `Evit`, `Insert`,
  `Set` and `RefreshCached` go through `Consistent`, which is `CacheOK` without the limit.
* `PendingVisibleCorrect` and `UniqueValuesCorrect`, under the hypothesis `Fits`: the entities
  used between two commits (`TouchLimit`) are no more than the cache holds (`MaxCached`).
  The run with `TouchLimit = 3` shows that they are false without it; the code holds 50,000
  entities of a model (`lruEntityCache.ts:16`), those with `memory: true` without a limit, and
  what a block and the requests meanwhile use is far less. There is no bound on the
  pending changes, their order, or the undoing of any number of them. `ViewInv` says that
  cached entities are those of the overlay and all their unique values indexed (`Complete`),
  that the used entities are first in the order (`UsedFirst`), so that the limit drops one
  that is not used (`LastUnused`, by the pigeonhole principle), that an entity only the cache
  knows is in it (`Pinned`), that each change holds what it replaced (`Linked`), and that
  unique values had one owner after every prefix of the changes (`Owned`), which is what an
  undone change comes back to. That a new value is free in the whole overlay, though contracts
  look at cache and table only, is `FreeValues`; with it `Set` never finds an index taken.

About one node's transactions and blocks, for any contents of transactions, any genesis
block, and any bounds of pool, blocks and forks, from `ContractsAssumption`,
`RoundsAssumption` and `ExecutionAssumption`:

* `ExecutionTypeCorrect`: `TypeOK`, without any hypothesis.
* `TransactionsExecutedOnce`: `ExecutedOnce`, under `NeverBusy`: the genesis block is valid,
  and no synchronisation begins while votes are collected or, from genesis, while there are
  transactions in the pool (`SyncWhenBusy = FALSE`). The invariant, `OnceInv`, says that a
  transaction is in the tables of its block and of all blocks after it (`ChainRecorded`), that
  what is pending does not touch the table of transactions and that the pool has none of them
  (`PoolClean`), that a synchronising node has an empty pool, and that the block votes are
  collected for contains the pool: `ReceiveTransaction` is refused meanwhile.
* `TablesAreReplay`, `OverlayFollowsPool`: `StateIsReplay` and `OverlayIsPool`, under `NeverBusy` and `SendersKnown` (whoever sends has an
  account since genesis). `ReplayInv` says that executing the pool over the tables succeeds
  and gives the session (`PoolApplied`), so that the tables a node saves for its own block,
  which it does not execute, are those that executing it gives; and that the tables of each
  block are what executing it gives (`ChainReplayed`). What a block leaves does not depend on
  blocks above it (`ExecutedFrame`), as `applyRound` looks at the round that ends only, hence a
  fork can be cut off. Every contract keeps the fields of the tables, adds nothing to the
  transactions and removes no account (`CallKeeps`).

Both hypotheses are needed: with `SyncWhenBusy = TRUE`, or with a sender that has no account,
TLC finds `StateIsReplay` violated (see Observations). The code does not enforce either: it
is rare that a node finds itself behind while it collects votes, and that transactions are
sent before block 1.

* `SupplyIsRewardsHeld`: `SupplyIsRewards`, for any milestones, any distance between them and
  any offset but 0 (`REWARDS.OFFSET` is 2160; with 0 the genesis block would have a reward that
  the heights from 1 on do not count). The loop of `calculateSupply` runs once per milestone:
  `SupplyClosed` says what it computes, `MilestoneNext` that the next height has the same
  milestone or is the first of the next one, and `SupplyGrows` that the supply grows by
  `calculateReward` of the next height.
* `IssuedQuantityHeld`: `IssuedQuantity`, if the genesis block is valid. `issue` compares with
  the quantity in the tables, not in the overlay, so that two issues of an asset over the same
  tables would count once; the lock on the asset forbids the second. So the invariant,
  `AssetsInv`, says of tables and overlay that balances sum up to quantities (`Backed`), and of
  the overlay that an asset with a changed quantity is locked (`InStep`). `ContractsAssumption`
  says that amounts are positive, as the contracts validate (`runtime.ts:28-40`). Every other
  contract, fees, and `applyRound` leave both tables alone (`Touches`).
* `MissedRoundsCounted`: `MissedRounds`, under `NeverBusy` and `SendersKnown`.
* `CoinsConserved`: `Conservation`, under the same two. `applyRound` divides fees and rewards by
  the length of the list and pays the average once per block (`blocks.ts:441-462`). Nothing makes
  the two numbers the same: `genesisBlock.localnet.json` registers 101 delegates,
  `genesisBlock.testnet.json` 21. So the property counts what a round withheld, from the list it had
  (`Withheld`, negative for a short list), and the proof follows the list of each round from the
  tables before it (`ListOfRound`).
* `VotesAreWeighed`: `VoteWeights`, under `NeverBusy` and `SendersKnown`. The property itself has the
  hypothesis `ExactUnlocks`, that Number keeps what was unlocked: `deleteCreatedVotes` subtracts a
  Number from votes that were added exactly. `Weighed(v, exact)` says
  of tables that votes are of accounts, for delegates, and that a delegate has no fewer votes than
  its voters have locked, or (`exact`) just as many. A contract changes the stake of one account
  (`OneStake`), and the votes by as much; but it looks for the votes of the account in the tables
  of the last block, not in the pending changes (`findAll`, `basic.ts:218`). What makes the
  two the same is the lock on the account: `InStakes` says that the votes of an account the
  session has not locked, and what it locks, are those of the tables, and that accounts and delegates only come
  along, so that a name voted for is still a delegate's. The contracts `lock`, `unlock`, `vote`
  and `unvote` all take that lock, so that an account does one of them in a block. A delegate
  that is new starts without votes, rightly, as nobody can have voted for its name. `unlock` by
  an account that is no delegate is the one case that is not exact. What is proved for either
  value of `exact` is put together in the theorem.

All three speak of the tables of a height, and those are, by `ChainReplayed`, what executing each
block over the tables before gives. So they go in three steps. First, what one contract does
(`Proceeds`, `CoinsMoved`, `Voted`): accounts and delegates stay in order (`PeopleOK`: a name has one
owner, a delegate is named as the account behind it), no coin appears but what `unlock` makes,
and a fee goes to its round. Then a block: its transactions in any number (`Advances`,
`StakeSession`), then `applyRound` (`BlockEffect`, `CoinsEffect`, `SameStakes`). `ListedInv`, inductive, says that whoever
forged a block is listed in the tables it was committed over, hence a delegate: `applyRound`
pays the accounts behind the delegates of the round's blocks (`blocks.ts:458-461`), and coins
paid to an account that is not there would be lost. Last, an induction over the height (`OrderedUpTo`,
`MissedTold`, `AlwaysBalanced`, `AlwaysWeighed`), and with it that the list of a round, which is made at the end of the
round before, is not empty from genesis on (`ListNotEmpty`), as whoever forges is on it. The remainders
need no more than that the last forger gets average times delegates minus the
total, as `blocks.ts:444` has it.

Sums over tables (`SumFunction`) take the elements in an order that `CHOOSE` gives. `SumIs`
shows that a sum is the same in any order, from which what a changed term (`SumChange`) or an
added one (`SumAdd`) does to it follows.

What a run over a sequence computes (`ApplyBlock`, `ProcessAll`, `PayForgers`, `Left`) is a
`FoldLeft`, which the community modules define by recursion over sets of indexes. That the
function it recurses with exists (`AppliedFold` and the like), and what the fold does at each
step (`ApplyBlockRun`), is proved by `SetInduction`: a set that has 0 and with every number
the next one has all numbers. It speaks of a set instead of a property, and follows from the
finiteness of intervals: shifting the part of the set up to a missing number by one would map
it one to one into a smaller one.

About requests that are answered while blocks are committed, for any requests and
transactions, from `HttpApiAssumption` and under `NeverBusy` and `SendersKnown`:

* `HttpTypeCorrect`, `BlocksAreComplete`, `CountsAreCovered`, `TransfersAreResolved` and
  `KeysAreOfDelegates`. None of the properties says anything of a request that is not answered
  yet, so the invariant, `HttpInv`, adds to those of `Execution` what is known of the results a
  handler has so far (`SeenOK`): that a count is no more than there is now, that a page has as many
  rows as the count promised, that the blocks read are a range that is still in the chain and the
  transactions those of its heights, that the transfers read are still there, and that an
  account read as a delegate's still is one. It holds as long as no block is rolled back
  (`removed`), because a commit takes nothing away from what is queried (`Grows`): that was
  not to be taken for granted of contracts, which may change any row, and is proved of each.
  That what a transfer refers to is there (`Known`) is an invariant of the tables, by
  induction over the height; the rows of `transferAsset` are why it needs to be one of the
  contracts too. `BlocksAreComplete` compares two positions in a list with heights, as `getBlocks`
  does (`util.ts:37-48`), and needs that the block whose row is ahead is the last of the list.

About the storage of one node, for any accounts, votes, values, memory models, cache sizes,
history kept in memory and numbers of changes, from `SmartDBAssumption`:

* `HeightsCorrect`, `SameHeightCorrect`, under `HeightsKept`, for
  rollbacks of any depth, API reads, and a process that may stop at any other moment. `HeightsInv`
  says which rows there are in every step of a commit, a rollback and a start.
* `StorageCorrect` and, from it, `TypeCorrect`, `RevertibleCorrect`, `LastBlockSavedCorrect` (of
  commits that fail, not of a process that stops within one)
  and the refinement, `StoreImplemented`, under `StorageKept`.

Each part of the hypotheses leaves out something the code does not survive:

| Part | Without it |
|---|---|
| `ComparedAsNumbers`: heights up to `MaxHeight` compare as numbers | the second finding: entities are reverted and the blocks stay. With the base 10 of the code this is so up to a height of nine, in any larger base up to any height: what is proved holds of the code but for that comparison |
| `CommitFaultsOnly`: the statements that may fail are those that insert a block, save the entities and revert them | a block row without its history (`smartDB.ts:301`), or blocks above the entities (`smartDB.ts:314`) |
| `NotStoppedInDelete`: no stop between the two deletes of a block | a history row above the last block, which the next commit cannot insert |
| `Readers = {}` (of `StorageKept` only, as the rest) | the API caches an entity it read before a rollback (`dbSession.ts:263`) |
| `MaxRollback <= 1` | cached entities keep the values of the blocks rolled back (`basicEntityTracker.ts:388`) |
| `CrashSteps \subseteq {"idle", "rollback"}` | a block without its changes: inserted and not saved (`smartDB.ts:345`), or reverted and not deleted (`smartDB.ts:314`) |

`storage` is an instance of both hypotheses. `block_cache` checks `SameHeight` with failing history
rows as well, which `HeightsInv` does not have.

The argument of `StorageCorrect` is about changes, not about states of the tracker. `Leads(a, changes, b)`
says that table `a` becomes `b` by changes each of which starts from the row that is there;
then `ApplyChanges` succeeds and gives `b`, `RevertChanges` goes back, and `UndoChanges` takes
a cache that goes with `b` to one that goes with `a` without throwing, although entities may
have left it (`GoesWith`: what is cached is right, and what was changed is cached or was
deleted). `Held(.., kept, now, T)` says that tables `T[1], T[2], ...` exist, one for each committed height, with
history rows that lead from one to the next (`Chained`), that the confirmed changes lead from
the last one to `kept` and those of the running contract from there to `now` (`PendingFits`),
that a vote with a pending change is locked (`LocksFit`; `vote` and `unvote` look at the tables
only, so the lock is what makes a change start from the row that is there), and that the
history in memory is that of the table where it reaches (`HistoryFits`). None of the
properties is inductive by itself: that undoing does not throw is preserved because of the
locks, and what a rollback brings back is known because of the history rows.

`Held` determines what a store of versions would show (`View`), and `StorageMoves` proves of each
action, at once, that it keeps `Held` for new tables and that the two views are a step of
`VersionedStore` or equal (`StoreStep`); `StoreImplemented` only puts this together.

Model-checked only:

* `NoDoubleSign`, which is not true in general (see Observations).
* `CatchUp` and `Served`: liveness and fairness are out of the prover's reach.
* `CachedBlocksAreRows`: `HeightsInv` says which heights the block cache has, not which blocks.

## Not modelled

* The peer-to-peer network and the encodings (`p2p`, `protobuf`): sets of messages stand for
  them. Hashes, signatures and the formats of parameters (`ed`, `extended-joi`,
  `type-validation`): records stand for them, without collisions or forgeries.
* The formatting of SQL and the schemas; the tables behave as PostgreSQL's would, except that
  rows without ORDER BY come in the order of insertion.
* The limits on the size of a block's payload. Read off the code: a pool of more than 8 MB makes
  `generateBlock` throw every time, and `MAX_TXS_PER_BLOCK` is not checked for local blocks.
* Enabling and disabling of forging for lists of secrets, generating accounts, the peer list,
  and requests in the middle of a block's contracts.
* The arithmetic of a prediction (`ml.ts`): `getPredictionCategory` is modelled as what it was
  trained with, and no run executes it.
* Rounds and delegate lists in `Consensus` are constants: `Rounds` computes the lists, but the
  network has no votes in it. A network of nodes that execute transactions would be
  `Consensus` and `Execution` together, which is out of TLC's reach at sizes where anything
  happens.
* The client, the command line and the logger, which keep no state of the network.
