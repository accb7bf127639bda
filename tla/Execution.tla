----------------------------- MODULE Execution ------------------------------
(***************************************************************************)
(* What one node does with transactions: its pool of unconfirmed ones,     *)
(* whose effects lie as an overlay over the tables, the cache of failed    *)
(* ones, and the blocks it forges, proposes, receives and synchronises.    *)
(*                                                                         *)
(* Every action is a task of the node's Sequence, which runs them one at a *)
(* time.  The storage is taken to keep the promises of VersionedStore: a   *)
(* commit saves all that is pending, a rollback drops it and brings the    *)
(* tables of a height back.  How a block is agreed on is in Consensus.     *)
(***************************************************************************)
EXTENDS Rounds

CONSTANTS
  GenesisTrs,      \* the transactions of the genesis block
  Senders,         \* bound: the transactions that are sent to the pool
  MaxHeight,       \* bound: height of the last block
  MaxPool,         \* bound: transactions in the pool
  MaxBlockTrs,     \* bound: transactions in a block of another node
  FailedLimit,     \* DEFAULT_LIMIT of LimitCache
  ForkLimit,       \* blocks a synchronisation may remove
  SyncWhenBusy,    \* whether a synchronisation may find the pool in use
  Null

ASSUME ExecutionAssumption ==
  /\ GenesisTrs \in Seq(TrsIds)
  /\ Senders \subseteq TrsIds
  /\ {MaxHeight, MaxPool, MaxBlockTrs} \subseteq Nat
  /\ {FailedLimit, ForkLimit} \subseteq Nat \ {0}
  /\ SyncWhenBusy \in BOOLEAN

VARIABLES
  chain,          \* the Block table: delegate and transactions by height
  saved,          \* the tables as each block of the chain left them
  session,        \* the overlay: what the session sees, and its locks
  pool,           \* transactionPool
  failedTrs,      \* failedTrsCache, the oldest first
  pendingBlock,   \* the block this node collects votes for
  syncing         \* a synchronisation loads blocks

vars == <<chain, saved, session, pool, failedTrs, pendingBlock, syncing>>

-----------------------------------------------------------------------------
(* State *)

Height == Max(DOMAIN chain)

SessionOver(tables) == [view |-> tables, table |-> tables, locks |-> {}]

(* rollbackBlock to the last block: pending changes and locks are dropped *)
RolledBack == SessionOver(saved[Height])

IsCollectingVotes == pendingBlock # Null

Block(height, delegate, trs) == [height |-> height, delegate |-> delegate, trs |-> trs]

Delegates == ToSet(session.view.bookkeeper)

-----------------------------------------------------------------------------
(* TransactionPool and LimitCache *)

TrsAlreadyFailed(failed, id) == id \in ToSet(failed)

AddFailedTrs(failed, id) ==
  IF id \in ToSet(failed) THEN failed
  ELSE IF Len(failed) >= FailedLimit THEN Append(Tail(failed), id)
  ELSE Append(failed, id)

-----------------------------------------------------------------------------
(* Transactions on their way to the pool *)

PoolState == [session |-> session, pool |-> pool, failed |-> failedTrs, ok |-> TRUE]

(* Mutant: a transaction is taken up while votes are collected *)
AcceptedWhileCollecting(ps, collecting, id) ==
  /\ ~ TrsAlreadyFailed(ps.failed, id)
  /\ id \notin ToSet(ps.pool)
  /\ id \notin ps.session.table.transactions

Accepted(ps, collecting, id) ==
  /\ ~ collecting
  /\ ~ TrsAlreadyFailed(ps.failed, id)
  /\ id \notin ToSet(ps.pool)
  /\ id \notin ps.session.table.transactions

(***************************************************************************)
(* processUnconfirmedTransactionAsync.  Whatever the reason, a transaction *)
(* that is not taken up is remembered as failed.                           *)
(***************************************************************************)
ProcessUnconfirmed(ps, collecting, id, lastHeight) ==
  LET applied == ApplyUnconfirmed(ps.session, id, lastHeight)
  IN  IF Accepted(ps, collecting, id)
      THEN [session |-> applied.session,
            pool    |-> IF applied.ok THEN Append(ps.pool, id) ELSE ps.pool,
            failed  |-> IF applied.ok THEN ps.failed ELSE AddFailedTrs(ps.failed, id),
            ok      |-> applied.ok]
      ELSE [ps EXCEPT !.failed = AddFailedTrs(@, id), !.ok = FALSE]

ProcessNext(ps, collecting, id, lastHeight) ==
  IF ps.ok THEN ProcessUnconfirmed(ps, collecting, id, lastHeight) ELSE ps

(* processUnconfirmedTransactionsAsync: up to the first that fails *)
ProcessAll(ps, collecting, ids, lastHeight) ==
  FoldLeft(LAMBDA r, id : ProcessNext(r, collecting, id, lastHeight), ps, ids)

SetPoolState(ps) ==
  /\ session' = ps.session
  /\ pool' = ps.pool
  /\ failedTrs' = ps.failed

(* A transaction from the HTTP API or from a peer, or one that arrives again *)
ReceiveTransaction(id) ==
  /\ ~ syncing
  /\ Len(pool) < MaxPool
  /\ SetPoolState(ProcessUnconfirmed(PoolState, IsCollectingVotes, id, Height))
  /\ UNCHANGED <<chain, saved, pendingBlock, syncing>>

-----------------------------------------------------------------------------
(* Blocks *)

ApplyNext(r, id, lastHeight) ==
  IF r.ok THEN ApplyUnconfirmed(r.session, id, lastHeight) ELSE r

(* applyBlock: up to the first transaction that fails *)
ApplyBlock(s, trs, lastHeight) ==
  FoldLeft(LAMBDA r, id : ApplyNext(r, id, lastHeight), [ok |-> TRUE, session |-> s], trs)

(* Mutant: the transactions are left out *)
SaveBlockTransactionsNone(view, trs) == view

SaveBlockTransactions(view, trs) == [view EXCEPT !.transactions = @ \cup ToSet(trs)]

(* The tables a block leaves behind, once its transactions are applied *)
TablesAfter(view, blocks, height, block) ==
  ApplyRound(SaveBlockTransactions(view, block.trs), blocks, height, block.delegate, block.trs)

(* Mutant: transactions that are in the database already are not looked for *)
BlockPassesAgain(s, block) == IsInjective(block.trs)

(* verifyBlock and CheckBlockWithDbAccessIO, as far as transactions go *)
BlockPasses(s, block) ==
  IsInjective(block.trs) /\ ToSet(block.trs) \cap s.table.transactions = {}

(* The tables of a block of another node, or Refused *)
Executed(s, blocks, height, block) ==
  LET applied == ApplyBlock(s, block.trs, height - 1)
  IN  IF BlockPasses(s, block) /\ applied.ok
      THEN TablesAfter(applied.session.view, blocks, height, block)
      ELSE Refused

(* commitBlock *)
Commit(block, tables) ==
  /\ chain' = With(chain, Height + 1, block)
  /\ saved' = With(saved, Height + 1, tables)

GenesisBlock == Block(0, Null, GenesisTrs)

GenesisTables == Executed(SessionOver(NoEntities), NoRows, 0, GenesisBlock)

Init ==
  /\ chain = [h \in {0} |-> GenesisBlock]
  /\ saved = [h \in {0} |-> GenesisTables]
  /\ session = SessionOver(GenesisTables)
  /\ pool = <<>>
  /\ failedTrs = <<>>
  /\ pendingBlock = Null
  /\ syncing = FALSE

-----------------------------------------------------------------------------
(* Forging *)

(* Mutant: the pool keeps what the block contains *)
CommitLocalPool(block) ==
  LET tables == TablesAfter(session.view, chain, Height + 1, block)
  IN  /\ Commit(block, tables)
      /\ session' = SessionOver(tables)
      /\ pool' = pool
      /\ pendingBlock' = Null

(* A block of this node: its transactions are applied already *)
CommitLocal(block) ==
  LET tables == TablesAfter(session.view, chain, Height + 1, block)
  IN  /\ Commit(block, tables)
      /\ session' = SessionOver(tables)
      /\ pool' = <<>>
      /\ pendingBlock' = Null

(* Delegates.loop on a node that holds enough secrets *)
Forge(delegate) ==
  /\ ~ syncing /\ ~ IsCollectingVotes
  /\ Height < MaxHeight
  /\ CommitLocal(Block(Height + 1, delegate, pool))
  /\ UNCHANGED <<failedTrs, syncing>>

(* Delegates.loop on a node that needs the votes of others *)
Propose(delegate) ==
  /\ ~ syncing
  /\ Height < MaxHeight
  /\ pendingBlock' = Block(Height + 1, delegate, pool)
  /\ UNCHANGED <<chain, saved, session, pool, failedTrs, syncing>>

(***************************************************************************)
(* onReceiveVotes, with the last vote that was missing.  The pool is       *)
(* emptied in any case; beginBlock throws if the height does not fit.      *)
(***************************************************************************)
OnReceiveVotes ==
  /\ ~ syncing /\ IsCollectingVotes
  /\ IF pendingBlock.height = Height + 1
     THEN CommitLocal(pendingBlock)
     ELSE pool' = <<>> /\ pendingBlock' = Null /\ UNCHANGED <<chain, saved, session>>
  /\ UNCHANGED <<failedTrs, syncing>>

-----------------------------------------------------------------------------
(* Blocks of other nodes *)

(* The transactions of the pool a block does not contain, in their order *)
Left(ids, trs) ==
  FoldLeft(LAMBDA left, id : IF id \in ToSet(trs) THEN left ELSE Append(left, id), <<>>, ids)

(***************************************************************************)
(* onReceiveBlock.  The pool is emptied and the overlay dropped; then the  *)
(* block is processed, and the pool is filled again with what the block    *)
(* does not contain, even if the block was refused.                        *)
(***************************************************************************)
OnReceiveBlock(block) ==
  LET tables == Executed(RolledBack, chain, Height + 1, block)
      base   == IF tables # Refused THEN SessionOver(tables) ELSE RolledBack
      last   == IF tables # Refused THEN Height + 1 ELSE Height
      empty  == [session |-> base, pool |-> <<>>, failed |-> failedTrs, ok |-> TRUE]
  IN  /\ ~ syncing
      /\ Height < MaxHeight
      /\ IF tables # Refused THEN Commit(block, tables) ELSE UNCHANGED <<chain, saved>>
      /\ SetPoolState(ProcessAll(empty, FALSE, Left(pool, block.trs), last))
      /\ pendingBlock' = Null
      /\ UNCHANGED syncing

(* findUpdate and syncBlocksFromPeer: back to a common block, with an empty pool *)
StartSync(common) ==
  /\ ~ syncing
  /\ common <= Height /\ Height <= common + ForkLimit
  /\ IsCollectingVotes => SyncWhenBusy
  /\ chain' = Restrict(chain, 0 .. common)
  /\ saved' = Restrict(saved, 0 .. common)
  /\ session' = SessionOver(saved[common])
  /\ pool' = <<>>
  /\ syncing' = TRUE
  /\ UNCHANGED <<failedTrs, pendingBlock>>

(* loadBlocks on a node that has the genesis block only: the pool stays *)
StartSyncFromGenesis ==
  /\ ~ syncing
  /\ Height = 0
  /\ IsCollectingVotes \/ pool # <<>> => SyncWhenBusy
  /\ syncing' = TRUE
  /\ UNCHANGED <<chain, saved, session, pool, failedTrs, pendingBlock>>

(***************************************************************************)
(* A block that loadBlocksFromPeer processes.  One that passes and fails   *)
(* is rolled back, with whatever is pending.                               *)
(***************************************************************************)
LoadBlock(block) ==
  LET tables == Executed(session, chain, Height + 1, block)
  IN  /\ syncing
      /\ Height < MaxHeight
      /\ IF tables # Refused
         THEN Commit(block, tables) /\ session' = SessionOver(tables)
         ELSE /\ session' = IF BlockPasses(session, block) THEN RolledBack ELSE session
              /\ UNCHANGED <<chain, saved>>
      /\ pendingBlock' = Null
      /\ UNCHANGED <<pool, failedTrs, syncing>>

EndSync ==
  /\ syncing
  /\ syncing' = FALSE
  /\ UNCHANGED <<chain, saved, session, pool, failedTrs, pendingBlock>>

(* A process that starts has its tables and nothing else *)
Restart ==
  /\ session' = RolledBack
  /\ pool' = <<>>
  /\ failedTrs' = <<>>
  /\ pendingBlock' = Null
  /\ syncing' = FALSE
  /\ UNCHANGED <<chain, saved>>

-----------------------------------------------------------------------------

OtherBlocks ==
  {Block(Height + 1, d, trs) : d \in Delegates, trs \in BoundedSeq(Senders, MaxBlockTrs)}

Next ==
  \/ \E id \in Senders : ReceiveTransaction(id)
  \/ \E d \in Delegates : Forge(d) \/ Propose(d)
  \/ OnReceiveVotes
  \/ \E block \in OtherBlocks : OnReceiveBlock(block) \/ LoadBlock(block)
  \/ \E common \in DOMAIN chain : StartSync(common)
  \/ StartSyncFromGenesis
  \/ EndSync
  \/ Restart

Spec == Init /\ [][Next]_vars

-----------------------------------------------------------------------------
(* Properties *)

LockIsName(name) == name[1] \in {"basic.account", "uia.registerIssuer", "uia.registerAsset", "uia.issue"}

(* The shape of the state, and the bounds of pool and cache. *)
TypeOK ==
  /\ DOMAIN chain = 0 .. Height /\ DOMAIN saved = DOMAIN chain
  /\ \A h \in DOMAIN chain : chain[h].height = h /\ ToSet(chain[h].trs) \subseteq TrsIds
  /\ session.table = saved[Height]
  /\ \A name \in session.locks : LockIsName(name)
  /\ pool \in Seq(TrsIds) /\ IsInjective(pool)
  /\ failedTrs \in BoundedSeq(TrsIds, FailedLimit) /\ IsInjective(failedTrs)
  /\ pendingBlock # Null => ToSet(pendingBlock.trs) \subseteq TrsIds
  /\ syncing \in BOOLEAN

(***************************************************************************)
(* The tables of a node are what its blocks say: those of each block are   *)
(* the result of executing it over the tables of the block before, whether *)
(* the node forged it over its pool, received it or synchronised it.       *)
(***************************************************************************)
StateIsReplay ==
  \A h \in DOMAIN chain \ {0} :
    saved[h] = Executed(SessionOver(saved[h - 1]), chain, h, chain[h])

(***************************************************************************)
(* The overlay is the pool, executed in order over the tables: nothing of  *)
(* a transaction that failed, was forged, or was dropped is left in it.    *)
(***************************************************************************)
OverlayIsPool ==
  session = ApplyBlock(SessionOver(saved[Height]), pool, Height).session

(* No transaction is executed by two blocks, or waits once it is executed. *)
ExecutedOnce ==
  /\ \A h, k \in DOMAIN chain : h # k => ToSet(chain[h].trs) \cap ToSet(chain[k].trs) = {}
  /\ \A h \in DOMAIN chain : ToSet(chain[h].trs) \cap ToSet(pool) = {}

-----------------------------------------------------------------------------
(* Properties of the tables *)

Tables == saved[Height]

ExecutedOf(type) ==
  {id \in UNION {ToSet(chain[h].trs) : h \in DOMAIN chain} : Content[id].type = type}

Coins(tables) ==
  SumFunction([a \in DOMAIN tables.account |-> tables.account[a].gny + tables.account[a].lockAmount])

(***************************************************************************)
(* What a round took in and did not pay out.  Each of its blocks is paid   *)
(* the average over the delegates of its list; the remainder, which is     *)
(* never positive, is subtracted once more.  A list with fewer delegates   *)
(* than the round has blocks is paid more than was taken in.               *)
(***************************************************************************)
Withheld(data, number) ==
  LET n       == Len(saved[(number - 1) * RoundLength].bookkeeper)
      average == data.fee \div n + data.reward \div n
  IN  IF number * RoundLength <= Height
      THEN 2 * (data.fee + data.reward) - (RoundLength + n) * average
      ELSE data.fee + data.reward

(***************************************************************************)
(* No coins appear or get lost but by that division: those of all          *)
(* accounts, locked ones included, with the fees and rewards of the round  *)
(* that are still to be paid, and what rounds that ended kept (or paid in  *)
(* excess), are the rewards of the blocks since genesis.  unlock is left   *)
(* out: it adds strings.                                                   *)
(***************************************************************************)
Conservation ==
  ExecutedOf("unlock") = {} =>
    Coins(Tables) + SumFunction([r \in DOMAIN Tables.round |-> Withheld(Tables.round[r], r)])
      = CalculateSupply(Height) - InitialAmount

Voters(tables, d) == {v.voterAddress : v \in {w \in tables.votes : w.delegate = d}}

LockedBehind(tables, d) ==
  SumFunctionOnSet([a \in DOMAIN tables.account |-> tables.account[a].lockAmount], Voters(tables, d))

(* Whoever unlocked in a block was a delegate before it *)
OnlyDelegatesUnlock ==
  \A h \in DOMAIN chain : \A id \in ToSet(chain[h].trs) :
    Content[id].type = "unlock" =>
      /\ h > 0 /\ Content[id].senderId \in DOMAIN saved[h - 1].account
      /\ saved[h - 1].account[Content[id].senderId].isDelegate

(***************************************************************************)
(* Whatever was locked when a block unlocked it was an amount that Number  *)
(* leaves as it is, as any amount up to 2^53 is.                           *)
(***************************************************************************)
ExactUnlocks ==
  \A h \in DOMAIN chain : \A id \in ToSet(chain[h].trs) :
    Content[id].type = "unlock" =>
      /\ h > 0 /\ Content[id].senderId \in DOMAIN saved[h - 1].account
      /\ LET locked == saved[h - 1].account[Content[id].senderId].lockAmount
         IN  NumberOf(locked) = locked

(***************************************************************************)
(* The votes of a delegate are the coins its voters have locked, whenever  *)
(* they voted, locked more, or unlocked.  An account that was no delegate  *)
(* when it unlocked left its votes their weight, so that there may be more *)
(* of them, but never fewer.  deleteCreatedVotes takes back the Number of  *)
(* the locked amount, which above 2^53 is another amount: votes can then   *)
(* be too few or too many for good, so the property speaks of chains on    *)
(* which that has not happened.                                            *)
(***************************************************************************)
VoteWeights ==
  ExactUnlocks =>
    \A d \in DOMAIN Tables.delegate :
      /\ Tables.delegate[d].votes >= LockedBehind(Tables, d)
      /\ OnlyDelegatesUnlock => Tables.delegate[d].votes = LockedBehind(Tables, d)

(***************************************************************************)
(* The issued quantity of an asset is what its holders have, and within    *)
(* its maximum, though issue reads the quantity from the tables.           *)
(***************************************************************************)
IssuedQuantity ==
  \A name \in DOMAIN Tables.asset :
    /\ Tables.asset[name].quantity <= Tables.asset[name].maximum
    /\ Tables.asset[name].quantity =
         SumFunctionOnSet(Tables.balance, {key \in DOMAIN Tables.balance : key[2] = name})

RoundHeights(r) == (r - 1) * RoundLength + 1 .. r * RoundLength

FinishedRounds == {r \in 1 .. MaxHeight : r * RoundLength <= Height}

(***************************************************************************)
(* Over the rounds that ended, a delegate missed those that listed it and  *)
(* that have no block of it.                                               *)
(***************************************************************************)
MissedRounds ==
  \A d \in DOMAIN Tables.delegate :
    Tables.delegate[d].missedBlocks =
      Cardinality({r \in FinishedRounds :
        /\ d \in ToSet(saved[(r - 1) * RoundLength].bookkeeper)
        /\ \A h \in RoundHeights(r) : chain[h].delegate # d})

(***************************************************************************)
(* calculateSupply adds up the rewards of milestones; block by block they  *)
(* are those of calculateReward.                                           *)
(***************************************************************************)
SupplyIsRewards ==
  CalculateSupply(Height) = InitialAmount + SumFunction([h \in 1 .. Height |-> CalculateReward(h)])

=============================================================================
