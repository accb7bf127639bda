----------------------------- MODULE Consensus ------------------------------
(***************************************************************************)
(* A network of gny nodes forging, voting for, receiving and synchronising *)
(* blocks.  Each node keeps its consensus state (global.state), the Block  *)
(* table of its database, the tasks waiting in its Sequence and the sync   *)
(* that is running, if any.                                                *)
(*                                                                         *)
(* A task of the Sequence is one step: the queue has concurrency 1.  What  *)
(* a caller reads before it enqueues a task is carried by the task and may *)
(* be stale when the task runs.  A message is handled whenever its         *)
(* receiver is not syncing; it stays in the network, so it can be handled  *)
(* late, again, or never.  A sync is a task that waits for its peer, in    *)
(* between other nodes move on.                                            *)
(***************************************************************************)
EXTENDS NodeState

CONSTANTS
  MaxTasks,     \* bound: tasks waiting in the Sequence of a node
  SyncNodes,    \* bound: nodes whose sync requests are answered at all
  DbFailNodes,  \* nodes whose database or contracts may throw on a block
  FailSteps,    \* the statements that may throw there, of those below
  RestartNodes  \* nodes that may be stopped and started again

(***************************************************************************)
(* "commit": the contracts, the insertion of the Block row, or the saving  *)
(* of the entities, after which the row is deleted again: nothing is left. *)
(* "insertHistory": the insertion of the BlockHistory row, after that of   *)
(* the Block row, which nothing deletes.  "rollback": rollbackBlock, before *)
(* it has deleted all the blocks it should.  One call meets one of them: a *)
(* second failure while the first is taken back, and a failure between the *)
(* two rows of a block that is deleted, are in SmartDB.                    *)
(***************************************************************************)
ASSUME FailStepsAssumption == FailSteps \subseteq {"commit", "insertHistory", "rollback"}

VARIABLES
  now,        \* the wall clock, in half slots
  state,      \* state[n]: global.state of node n
  chain,      \* chain[n]: the Block table of node n, its rows by height
  dbHeight,   \* dbHeight[n]: lastBlockHeight of its SmartDB
  tasks,      \* tasks[n]: loop and sync tasks waiting in the Sequence of n
  sync,       \* sync[n]: progress of the sync task running at n
  proposes,   \* proposes broadcast so far
  voteMsgs,   \* votes sent to a proposer so far
  newBlocks,  \* blocks announced to the network so far
  signed      \* history: every signature a delegate gave for a block

vars == <<now, state, chain, dbHeight, tasks, sync, proposes, voteMsgs, newBlocks, signed>>

messages == <<proposes, voteMsgs, newBlocks>>

db == <<chain, dbHeight>>

-----------------------------------------------------------------------------
(* Tasks and sync records *)

LoopTask(slot, key)       == [kind |-> "loop", slot |-> slot, key |-> key]
StartSyncTask(lastBlock)  == [kind |-> "startSync", lastBlock |-> lastBlock]
SyncFromPeerTask(peer)    == [kind |-> "syncFromPeer", peer |-> peer]

Idle == [phase |-> "idle"]

CommonPhase(peer, newest) == [phase |-> "common", peer |-> peer, newest |-> newest]

BlocksPhase(peer, lastCommonBlockId, batch) ==
  [phase |-> "blocks", peer |-> peer,
   lastCommonBlockId |-> lastCommonBlockId, batch |-> batch]

FailsAt(n, step) == n \in DbFailNodes /\ step \in FailSteps

IsSyncing(n) == sync[n].phase # "idle"

Enqueue(n, task) ==
  /\ tasks' = [tasks EXCEPT ![n] = @ \cup {task}]
  /\ Cardinality(tasks'[n]) <= MaxTasks

Dequeue(n, task) ==
  /\ ~ IsSyncing(n)
  /\ task \in tasks[n]
  /\ tasks' = [tasks EXCEPT ![n] = @ \ {task}]

(* Loader.startSyncBlocks, syncBlocksFromPeer: nothing while syncing *)
RequestSync(n, task) ==
  IF n \in SyncNodes /\ ~ IsSyncing(n)
  THEN Enqueue(n, task)
  ELSE UNCHANGED tasks

Init ==
  /\ now = 2                      \* the first slot after the one of genesis
  /\ state = [n \in Node |-> InitialState(Genesis)]
  /\ chain = [n \in Node |-> [height \in {0} |-> Genesis]]
  /\ dbHeight = [n \in Node |-> 0]
  /\ tasks = [n \in Node |-> {}]
  /\ sync = [n \in Node |-> Idle]
  /\ proposes = {}
  /\ voteMsgs = {}
  /\ newBlocks = {}
  /\ signed = {}

-----------------------------------------------------------------------------
(* Blocks.processBlock *)

VerifyBlockVotes(votes, height) ==
  \A sig \in votes.signatures :
    /\ sig.publicKey \in DelegatesAt(height)
    /\ VerifyVote(votes.height, votes.id, sig)

(* Where a block comes from decides what is checked: options.local, options.votes *)
Origin == {"local", "broadcast", "sync"}

(* Mutant: does not compare the previous block *)
VerifyBlockAnyPrevious(s, block, votes, origin) ==
  /\ VerifyBlockSlot(s, now, block)
  /\ origin = "broadcast" =>
       /\ votes.height = block.height
       /\ votes.id = BlockId(block)
       /\ HasEnoughVotesRemote(votes)
       /\ VerifyBlockVotes(votes, block.height)

VerifyBlock(s, block, votes, origin) ==
  /\ block.prevBlockId = BlockId(s.lastBlock)
  /\ VerifyBlockSlot(s, now, block)
  /\ origin = "broadcast" =>
       /\ votes.height = block.height
       /\ votes.id = BlockId(block)
       /\ HasEnoughVotesRemote(votes)
       /\ VerifyBlockVotes(votes, block.height)

ValidateSlot(height, slot, key) == OwnerOf(height, slot) = key

(***************************************************************************)
(* What a block has to pass before it is written: a block of the node's    *)
(* own only SmartDB.beginBlock, a foreign one CheckBlock and               *)
(* CheckBlockWithDbAccessIO as well.  The height is the key of its row.    *)
(***************************************************************************)
BlockPasses(n, s, block, votes, origin) ==
  /\ block.height = dbHeight[n] + 1
  /\ block.height \notin DOMAIN chain[n]
  /\ origin # "local" =>
       /\ VerifyBlock(s, block, votes, origin)
       /\ ValidateSlot(block.height, block.slot, block.delegate)
       /\ \A h \in DOMAIN chain[n] : BlockId(chain[n][h]) # BlockId(block)

(* SmartDB.commitBlock *)
CommitBlock(n, block) ==
  /\ chain' = [chain EXCEPT ![n] = WithRow(@, block.height, block)]
  /\ dbHeight' = [dbHeight EXCEPT ![n] = @ + 1]

(* Mutant: the height counts the block before its history is written *)
AppendBlockHalfCounted(n, block) ==
  /\ chain' = [chain EXCEPT ![n] = WithRow(@, block.height, block)]
  /\ dbHeight' = [dbHeight EXCEPT ![n] = @ + 1]

(* SmartDB.appendBlock up to its second insertion, which throws *)
AppendBlockHalf(n, block) ==
  /\ chain' = [chain EXCEPT ![n] = WithRow(@, block.height, block)]
  /\ UNCHANGED dbHeight

(* ProcessBlockFireEvents: an own block is announced with six of its votes *)
Announce(n, block, votes, origin) ==
  IF origin = "local"
  THEN \E first \in FirstSignatures(votes.signatures) :
         newBlocks' = newBlocks \cup
           {[from |-> n, block |-> block, votes |-> [votes EXCEPT !.signatures = first]]}
  ELSE UNCHANGED newBlocks

(* Mutant: the pending block and its votes are kept *)
ProcessBlockCleanupEffectKeeps(s) == ProcessBlockCleanup(s)

ProcessBlockCleanupEffect(s) == ClearState(ProcessBlockCleanup(s))

(***************************************************************************)
(* The block is committed and becomes lastBlock, or an error is swallowed, *)
(* which may leave a Block row that does not count; the collected votes    *)
(* are dropped either way.                                                 *)
(***************************************************************************)
ProcessBlock(n, s, block, votes, origin) ==
  \/ /\ BlockPasses(n, s, block, votes, origin)
     /\ CommitBlock(n, block)
     /\ state' = [state EXCEPT ![n] = ProcessBlockCleanupEffect(SetLastBlock(s, block))]
     /\ Announce(n, block, votes, origin)
  \/ /\ \/ /\ ~ BlockPasses(n, s, block, votes, origin) \/ FailsAt(n, "commit")
           /\ UNCHANGED db
        \/ /\ BlockPasses(n, s, block, votes, origin) /\ FailsAt(n, "insertHistory")
           /\ AppendBlockHalf(n, block)
     /\ state' = [state EXCEPT ![n] = ProcessBlockCleanupEffect(s)]
     /\ UNCHANGED newBlocks

-----------------------------------------------------------------------------
(* Forging *)

Tick ==
  /\ now < MaxNow
  /\ now' = now + 1
  /\ UNCHANGED <<state, db, tasks, sync, messages, signed>>

IsLoopReady(n) ==
  /\ KeysOf[n] # {}
  /\ ~ IsSyncing(n)
  /\ SlotOf(now) # state[n].lastBlock.slot
  /\ EarlyInSlot(now)

(***************************************************************************)
(* Delegates.loop up to sequence.add: the slot and the key of the block    *)
(* are fixed here, from the delegate list of the height after lastBlock.   *)
(***************************************************************************)
Loop(n) ==
  LET height == state[n].lastBlock.height + 1
      slots  == OwnSlotsFrom(n, height, SlotOf(now))
  IN  /\ IsLoopReady(n)
      /\ height <= MaxHeight
      /\ \E slot \in slots :
           /\ \A other \in slots : slot <= other
           /\ Enqueue(n, LoopTask(slot, OwnerOf(height, slot)))
      /\ UNCHANGED <<now, state, db, sync, messages, signed>>

(* Mutant: the slot of the task may be any later one *)
CanForgeAnySlot(n, slot) ==
  /\ state[n].lastBlock.slot < slot
  /\ ~ HasPendingBlock(state[n], slot)
  /\ state[n].lastBlock.height < MaxHeight
  /\ GetActiveDelegateKeypairs(n, state[n].lastBlock.height + 1) # {}

CanForge(n, slot) ==
  /\ slot = SlotOf(now)
  /\ state[n].lastBlock.slot < slot
  /\ ~ HasPendingBlock(state[n], slot)
  /\ state[n].lastBlock.height < MaxHeight
  /\ GetActiveDelegateKeypairs(n, state[n].lastBlock.height + 1) # {}

ManageProposeCreation(n, block) ==
  [height |-> block.height, id |-> BlockId(block), slot |-> block.slot,
   generatorPublicKey |-> block.delegate, address |-> n]

(* Too few keys at hand: keep the block pending and ask the network to vote *)
ProposeBlock(n, block, localVotes) ==
  LET propose == ManageProposeCreation(n, block)
      pending == AddPendingVotes(SetPendingBlock(state[n], block), localVotes)
  IN  /\ state' = [state EXCEPT ![n] =
                     CollectingVotes(MarkProposeAsReceived(pending, propose))]
      /\ proposes' = proposes \cup {propose}
      /\ UNCHANGED <<db, newBlocks>>

(* Enough keys at hand: commit the block, unless one is pending *)
ForgeBlock(n, block, localVotes) ==
  /\ IF state[n].pendingBlock = Null
     THEN ProcessBlock(n, state[n], block, localVotes, "local")
     ELSE UNCHANGED <<state, db, newBlocks>>
  /\ UNCHANGED proposes

(* The task of Delegates.loop, with Blocks.generateBlock *)
RunLoopTask(n, task) ==
  /\ task.kind = "loop"
  /\ Dequeue(n, task)
  /\ IF CanForge(n, task.slot)
     THEN \E payload \in Payload :
            LET block == GenerateBlockShort(task.key, task.slot, state[n].lastBlock, payload)
                keys  == GetActiveDelegateKeypairs(n, block.height)
                localVotes == CreateVotes(keys, block.height, BlockId(block))
            IN  /\ signed' = signed \cup localVotes.signatures
                /\ IF HasEnoughVotes(localVotes)
                   THEN ForgeBlock(n, block, localVotes)
                   ELSE ProposeBlock(n, block, localVotes)
     ELSE UNCHANGED <<state, db, proposes, newBlocks, signed>>
  /\ UNCHANGED <<now, sync, voteMsgs>>

-----------------------------------------------------------------------------
(* Voting *)

IgnoredAsFrequent(s) == s.lastVoteTime # Null /\ SurelyWithin5s(s.lastVoteTime, now)

(* The delegates of n active at the height of p vote for its block *)
VoteFor(n, p) ==
  LET s     == MarkProposeAsReceived(state[n], p)
      keys  == GetActiveDelegateKeypairs(n, p.height)
      votes == CreateVotes(keys, p.height, p.id)
  IN  /\ ~ IgnoredAsFrequent(s)
      /\ ValidateSlot(p.height, p.slot, p.generatorPublicKey)
      /\ IF keys = {}
         THEN /\ state' = [state EXCEPT ![n] = s]
              /\ UNCHANGED <<voteMsgs, signed>>
         ELSE /\ state' = [state EXCEPT ![n] = SetLastPropose(s, now, p)]
              /\ voteMsgs' = voteMsgs \cup {[to |-> p.address, votes |-> votes]}
              /\ signed' = signed \cup votes.signatures
      /\ UNCHANGED tasks

(***************************************************************************)
(* Blocks.onReceivePropose.  An ignored propose leaves no trace: the mark  *)
(* that it was received is only saved together with the vote.              *)
(***************************************************************************)
OnReceivePropose(n, p) ==
  /\ ~ IsSyncing(n)
  /\ p \in proposes /\ p.address # n
  /\ ~ AlreadyReceivedPropose(state[n], p)
  /\ ~ DoesNewBlockProposeMatchOldOne(state[n], p)
  /\ \/ /\ p.height = state[n].lastBlock.height + 1
        /\ VoteFor(n, p)
     \/ /\ p.height > state[n].lastBlock.height + 1
        /\ RequestSync(n, StartSyncTask(state[n].lastBlock))
        /\ UNCHANGED <<state, voteMsgs, signed>>
  /\ UNCHANGED <<now, db, sync, proposes, newBlocks>>

(* Blocks.onReceiveVotes *)
OnReceiveVotes(n, m) ==
  LET s == AddPendingVotes(state[n], m.votes)
  IN  /\ ~ IsSyncing(n)
      /\ m \in voteMsgs /\ m.to = n
      /\ IF HasEnoughVotes(s.pendingVotes)
         THEN ProcessBlock(n, s, s.pendingBlock, s.pendingVotes, "local")
         ELSE /\ state' = [state EXCEPT ![n] = s]
              /\ UNCHANGED <<db, newBlocks>>
      /\ UNCHANGED <<now, tasks, sync, proposes, voteMsgs, signed>>

-----------------------------------------------------------------------------
(* Receiving a block *)

(***************************************************************************)
(* Transport.receivePeer_NewBlockHeader and Blocks.onReceiveBlock.  Before *)
(* the block is processed the contracts of the pool are rolled back, to    *)
(* the height of lastBlock: that throws when the database is below it, and *)
(* then nothing but the mark of the block is saved.                        *)
(***************************************************************************)
OnReceiveBlock(n, m) ==
  LET s        == state[n]
      received == MarkBlockAsReceived(s, m.block)
  IN  /\ ~ IsSyncing(n)
      /\ m \in newBlocks /\ m.from # n
      /\ \/ /\ FitsInLine(s, m.block)
            /\ ~ AlreadyReceivedThisBlock(s, m.block)
            /\ \/ /\ s.lastBlock.height <= dbHeight[n]
                  /\ ProcessBlock(n, received, m.block, m.votes, "broadcast")
               \/ /\ s.lastBlock.height > dbHeight[n] \/ FailsAt(n, "rollback")
                  /\ state' = [state EXCEPT ![n] = received]
                  /\ UNCHANGED <<db, newBlocks>>
            /\ UNCHANGED tasks
         \/ /\ ~ FitsInLine(s, m.block)
            /\ ~ IsLongForkAhead(s, m.block)
            /\ RequestSync(n, SyncFromPeerTask(m.from))
            /\ UNCHANGED <<state, db, newBlocks>>
      /\ UNCHANGED <<now, sync, proposes, voteMsgs, signed>>

-----------------------------------------------------------------------------
(* Synchronisation (Loader) *)

(* The timer of Loader.onPeerReady *)
NextSync(n) ==
  /\ SlotOf(now) + 1 - state[n].lastBlock.slot >= 3
  /\ ~ IsSyncing(n)
  /\ RequestSync(n, StartSyncTask(state[n].lastBlock))
  /\ UNCHANGED <<now, state, db, sync, messages, signed>>

(***************************************************************************)
(* The task of startSyncBlocks up to the answer to getHeight.  The last    *)
(* block is the one its caller saw, the node may have moved on since.      *)
(***************************************************************************)
StartSync(n, task, peer) ==
  /\ task.kind = "startSync"
  /\ Dequeue(n, task)
  /\ peer # n /\ ~ IsSyncing(peer)
  /\ sync' = [sync EXCEPT ![n] =
       IF task.lastBlock.height >= state[peer].lastBlock.height
       THEN Idle
       ELSE IF BlockId(task.lastBlock) = BlockId(Genesis)
            THEN BlocksPhase(peer, BlockId(Genesis), {})
            ELSE CommonPhase(peer,
                   IF state[n].lastBlock.height > task.lastBlock.height
                   THEN state[n].lastBlock.height
                   ELSE task.lastBlock.height)]
  /\ UNCHANGED <<now, state, db, messages, signed>>

(***************************************************************************)
(* The task of syncBlocksFromPeer up to its first request for blocks.  It  *)
(* rolls the pool back to the height of lastBlock, and gives up, not       *)
(* syncing, when that throws.                                              *)
(***************************************************************************)
SyncBlocksFromPeer(n, task) ==
  LET lastBlock == state[n].lastBlock
  IN  /\ task.kind = "syncFromPeer"
      /\ Dequeue(n, task)
      /\ \/ /\ lastBlock.height <= dbHeight[n]
            /\ sync' = [sync EXCEPT ![n] = BlocksPhase(task.peer, BlockId(lastBlock), {})]
         \/ /\ lastBlock.height > dbHeight[n] \/ FailsAt(n, "rollback")
            /\ UNCHANGED sync
      /\ UNCHANGED <<now, state, db, messages, signed>>

(* Mutant: only the newest block is compared *)
CommonHeightsNewest(own, theirs, newest) ==
  {h \in DOMAIN own \cap DOMAIN theirs \cap {newest} : BlockId(own[h]) = BlockId(theirs[h])}

(***************************************************************************)
(* The heights whose blocks the peer finds equal: both sides list the      *)
(* blocks of the range from the top, and compare them place by place.      *)
(***************************************************************************)
CommonHeights(own, theirs, newest) ==
  LET range            == newest - (ForkLimit - 1) .. newest
      Place(h, blocks) == Cardinality({g \in DOMAIN blocks \cap range : g > h})
  IN  {h \in DOMAIN own \cap DOMAIN theirs \cap range :
         Place(h, own) = Place(h, theirs) /\ BlockId(own[h]) = BlockId(theirs[h])}

(***************************************************************************)
(* SmartDB.rollbackBlock deletes the last block for as long as its height, *)
(* compared as a string, is greater than the target height: the height it  *)
(* comes to.                                                               *)
(***************************************************************************)
RollbackHeight(last, target) ==
  LET stops == {h \in target .. last : ~ GreaterAsText(h, target)}
  IN  CHOOSE h \in stops : \A other \in stops : other <= h

(* The blocks above this height that count are deleted, others are not *)
DeleteBlocks(n, height) ==
  /\ chain' = [chain EXCEPT ![n] =
                  [h \in DOMAIN @ \ (height + 1 .. dbHeight[n]) |-> @[h]]]
  /\ dbHeight' = [dbHeight EXCEPT ![n] = height]

CanRollback(n, target) ==
  target <= dbHeight[n] /\ RollbackHeight(dbHeight[n], target) \in DOMAIN chain[n]

(***************************************************************************)
(* The heights at which rollbackBlock may throw: at once when the target   *)
(* is above the last height, at the end when there is no last block to     *)
(* load, and after any of the blocks when the database fails.              *)
(***************************************************************************)
RollbackThrowsAt(n, target) ==
  IF target > dbHeight[n]
  THEN {dbHeight[n]}
  ELSE {height \in RollbackHeight(dbHeight[n], target) .. dbHeight[n] :
          \/ FailsAt(n, "rollback")
          \/ ~ CanRollback(n, target) /\ height = RollbackHeight(dbHeight[n], target)}

(***************************************************************************)
(* Loader.findUpdate after the answer to commonBlock.  A rollback that     *)
(* throws ends the sync, and lastBlock stays what it was.                  *)
(***************************************************************************)
FindUpdate(n) ==
  LET peer   == sync[n].peer
      newest == sync[n].newest
      common == CommonHeights(chain[n], chain[peer], newest)
  IN  /\ sync[n].phase = "common"
      /\ ~ IsSyncing(peer)
      /\ \/ /\ \A c \in common : newest - c >= ForkLimit
            /\ sync' = [sync EXCEPT ![n] = Idle]
            /\ UNCHANGED <<state, db>>
         \/ \E c \in common :
              /\ \A h \in common : h <= c
              /\ newest - c < ForkLimit
              /\ \/ /\ CanRollback(n, c)
                    /\ DeleteBlocks(n, RollbackHeight(dbHeight[n], c))
                    /\ state' = [state EXCEPT ![n] =
                         IF newest > c THEN SetLastBlock(@, chain[n][dbHeight'[n]]) ELSE @]
                    /\ sync' = [sync EXCEPT ![n] = BlocksPhase(peer, BlockId(chain[n][c]), {})]
                 \/ /\ \E height \in RollbackThrowsAt(n, c) : DeleteBlocks(n, height)
                    /\ sync' = [sync EXCEPT ![n] = Idle]
                    /\ UNCHANGED state
      /\ UNCHANGED <<now, tasks, messages, signed>>

(* The blocks the peer has after the one with this id, none if it lacks it *)
BlocksAfter(rows, id) ==
  {rows[h] : h \in {g \in DOMAIN rows :
                      \E found \in DOMAIN rows : BlockId(rows[found]) = id /\ g > found}}

(* loadBlocksFromPeer: a request for blocks, an empty answer ends the sync *)
RequestBlocks(n) ==
  /\ sync[n].phase = "blocks" /\ sync[n].batch = {}
  /\ ~ IsSyncing(sync[n].peer)
  /\ LET batch == BlocksAfter(chain[sync[n].peer], sync[n].lastCommonBlockId)
     IN  sync' = [sync EXCEPT ![n] = IF batch = {} THEN Idle ELSE [@ EXCEPT !.batch = batch]]
  /\ UNCHANGED <<now, state, db, tasks, messages, signed>>

(* The next block of the answer is processed, and counts as common even if it fails *)
LoadBlock(n) ==
  /\ sync[n].phase = "blocks"
  /\ \E block \in sync[n].batch :
       /\ \A other \in sync[n].batch : block.height <= other.height
       /\ ProcessBlock(n, state[n], block, NoVotes, "sync")
       /\ sync' = [sync EXCEPT ![n] = BlocksPhase(@.peer, BlockId(block), @.batch \ {block})]
  /\ UNCHANGED <<now, tasks, proposes, voteMsgs, signed>>

(* A request fails, the peer refuses it while it syncs itself, or 30 rounds are over *)
SyncFails(n) ==
  /\ \/ sync[n].phase = "common"
     \/ sync[n].phase = "blocks" /\ sync[n].batch = {}
  /\ sync' = [sync EXCEPT ![n] = Idle]
  /\ UNCHANGED <<now, state, db, tasks, messages, signed>>

GetHeightFails(n, task) ==
  /\ task.kind = "startSync"
  /\ Dequeue(n, task)
  /\ UNCHANGED <<now, state, db, sync, messages, signed>>

-----------------------------------------------------------------------------
(* Mutant: a restarted node begins with genesis again *)
RestartFromGenesis(n) ==
  /\ n \in RestartNodes
  /\ state' = [state EXCEPT ![n] = InitialState(Genesis)]
  /\ tasks' = [tasks EXCEPT ![n] = {}]
  /\ sync' = [sync EXCEPT ![n] = Idle]
  /\ UNCHANGED <<now, db, messages, signed>>

(***************************************************************************)
(* The process is stopped and started: only the database survives, and its *)
(* highest row is the last block.                                          *)
(***************************************************************************)
Restart(n) ==
  /\ n \in RestartNodes
  /\ \E height \in DOMAIN chain[n] :
       /\ \A h \in DOMAIN chain[n] : h <= height
       /\ dbHeight' = [dbHeight EXCEPT ![n] = height]
       /\ state' = [state EXCEPT ![n] = InitialState(chain[n][height])]
  /\ tasks' = [tasks EXCEPT ![n] = {}]
  /\ sync' = [sync EXCEPT ![n] = Idle]
  /\ UNCHANGED <<now, chain, messages, signed>>

-----------------------------------------------------------------------------
RunTask(n) ==
  \E task \in tasks[n] :
    \/ RunLoopTask(n, task)
    \/ \E peer \in Node : StartSync(n, task, peer)
    \/ SyncBlocksFromPeer(n, task)
    \/ GetHeightFails(n, task)

Receive(n) ==
  \/ \E p \in proposes : OnReceivePropose(n, p)
  \/ \E m \in voteMsgs : OnReceiveVotes(n, m)
  \/ \E m \in newBlocks : OnReceiveBlock(n, m)

SyncStep(n) == FindUpdate(n) \/ RequestBlocks(n) \/ LoadBlock(n) \/ SyncFails(n)

Next ==
  \/ Tick
  \/ \E n \in Node :
       \/ Loop(n)
       \/ NextSync(n)
       \/ RunTask(n)
       \/ Receive(n)
       \/ SyncStep(n)
       \/ Restart(n)

Spec == Init /\ [][Next]_vars

(***************************************************************************)
(* What the scheduling of a node gives: the clock runs, the Sequence runs  *)
(* its tasks, a running sync goes on, the timer of onPeerReady comes back. *)
(* Of the network it takes that a request made again and again to a peer   *)
(* that could answer is answered in the end, though any of them may fail,  *)
(* and that no broadcast is repeated for ever, though all may get lost.    *)
(***************************************************************************)
Fairness ==
  /\ WF_vars(Tick)
  /\ \A n \in Node :
       /\ WF_vars(RunTask(n))
       /\ WF_vars(SyncStep(n))
       /\ SF_vars(NextSync(n))
       /\ SF_vars(\E task \in tasks[n], peer \in Node : StartSync(n, task, peer))
       /\ SF_vars(FindUpdate(n))
       /\ SF_vars(RequestBlocks(n))
       /\ <>[][~ Receive(n)]_vars

FairSpec == Spec /\ Fairness

-----------------------------------------------------------------------------
(* Properties *)

BlockOK(b) ==
  /\ b = [height |-> b.height, prevBlockId |-> b.prevBlockId, slot |-> b.slot,
          delegate |-> b.delegate, payload |-> b.payload]
  /\ b.height \in 0 .. MaxHeight
  /\ b.slot \in 0 .. SlotOf(MaxNow)
  /\ b.height > 0 => /\ b.delegate \in Delegate /\ b.payload \in Payload
                     /\ HeightOfId(b.prevBlockId) = b.height - 1

RowsOK(rows) ==
  /\ rows = [h \in DOMAIN rows |-> rows[h]]
  /\ 0 \in DOMAIN rows /\ DOMAIN rows \subseteq 0 .. MaxHeight
  /\ \A h \in DOMAIN rows : BlockOK(rows[h]) /\ rows[h].height = h

VotesOK(v) ==
  /\ v = [height |-> v.height, id |-> v.id, signatures |-> v.signatures]
  /\ IsFiniteSet(v.signatures)
  /\ \A sig \in v.signatures :
       /\ sig = [publicKey |-> sig.publicKey, height |-> sig.height, id |-> sig.id]
       /\ sig.publicKey \in Delegate

StateOK(s) ==
  /\ s = [votesKeySet |-> s.votesKeySet, pendingBlock |-> s.pendingBlock,
          pendingVotes |-> s.pendingVotes, lastBlock |-> s.lastBlock,
          blockCache |-> s.blockCache, proposeCache |-> s.proposeCache,
          lastPropose |-> s.lastPropose,
          privIsCollectingVotes |-> s.privIsCollectingVotes,
          lastVoteTime |-> s.lastVoteTime]
  /\ s.votesKeySet \in SUBSET Delegate
  /\ s.pendingBlock # Null => BlockOK(s.pendingBlock)
  /\ s.pendingVotes.signatures # {} => BlockOK(s.pendingBlock)
  /\ VotesOK(s.pendingVotes)
  /\ BlockOK(s.lastBlock)

TaskOK(task) ==
  \/ /\ task.kind = "loop" /\ task = LoopTask(task.slot, task.key)
     /\ task.slot \in Nat /\ task.key \in Delegate
  \/ /\ task.kind = "startSync" /\ task = StartSyncTask(task.lastBlock)
     /\ BlockOK(task.lastBlock)
  \/ /\ task.kind = "syncFromPeer" /\ task = SyncFromPeerTask(task.peer)
     /\ task.peer \in Node

SyncOK(r) ==
  \/ r = Idle
  \/ /\ r.phase = "common" /\ r = CommonPhase(r.peer, r.newest)
     /\ r.peer \in Node /\ r.newest \in 0 .. MaxHeight
  \/ /\ r.phase = "blocks" /\ r = BlocksPhase(r.peer, r.lastCommonBlockId, r.batch)
     /\ r.peer \in Node /\ \A b \in r.batch : BlockOK(b)

ProposeOK(p) == p.height \in 1 .. MaxHeight /\ p.slot \in Nat /\ p.address \in Node

StatesOK == state = [n \in Node |-> state[n]] /\ \A n \in Node : StateOK(state[n])

ChainsOK ==
  /\ chain = [n \in Node |-> chain[n]]
  /\ dbHeight \in [Node -> 0 .. MaxHeight]
  /\ \A n \in Node : RowsOK(chain[n])

TasksOK ==
  /\ tasks = [n \in Node |-> tasks[n]]
  /\ \A n \in Node : \A task \in tasks[n] : TaskOK(task)

SyncsOK == sync = [n \in Node |-> sync[n]] /\ \A n \in Node : SyncOK(sync[n])

ProposesOK == \A p \in proposes : ProposeOK(p)
VoteMsgsOK == \A m \in voteMsgs : m.to \in Node /\ VotesOK(m.votes)
NewBlocksOK ==
  \A m \in newBlocks : m.from \in Node /\ BlockOK(m.block) /\ VotesOK(m.votes)

(***************************************************************************)
(* The type invariant.  No block is of a slot after the last one of the    *)
(* clock, rows are found at the height of their block, and votes are       *)
(* collected for a pending block only.                                     *)
(***************************************************************************)
TypeOK ==
  /\ now \in 0 .. MaxNow
  /\ StatesOK
  /\ ChainsOK
  /\ TasksOK
  /\ SyncsOK
  /\ ProposesOK
  /\ VoteMsgsOK
  /\ NewBlocksOK

(***************************************************************************)
(* The signatures a proposer counts towards the quorum come from as many   *)
(* different delegates, those it keeps in votesKeySet: votes delivered     *)
(* twice, or given for two of its proposes, do not count twice.            *)
(***************************************************************************)
DistinctSigners ==
  \A n \in Node :
    LET signatures == state[n].pendingVotes.signatures
    IN  /\ state[n].votesKeySet = {sig.publicKey : sig \in signatures}
        /\ \A a, b \in signatures : a.publicKey = b.publicKey => a = b

(***************************************************************************)
(* A pending block is committed without looking at its predecessor again   *)
(* (onReceiveVotes sets options.local).  Whatever the node received, rolled *)
(* back or synchronised since it proposed the block, the block is not of a *)
(* height the node has passed, and if it has the next height then it still *)
(* extends the last block.                                                 *)
(***************************************************************************)
Extends(block, last) ==
  block.prevBlockId = BlockId(last) /\ block.slot > last.slot

PendingExtends(s) ==
  s.pendingBlock # Null =>
    /\ s.pendingBlock.height > s.lastBlock.height
    /\ s.pendingBlock.height = s.lastBlock.height + 1 => Extends(s.pendingBlock, s.lastBlock)

PendingExtendsTip == \A n \in Node : PendingExtends(state[n])

(***************************************************************************)
(* The last block a node works with and its database, between tasks.  The  *)
(* node is never below its database, so the rollback that precedes a       *)
(* received block or a sync deletes no block; at one height the two have   *)
(* the same block; and they are at one height, with no row missing and     *)
(* none too many, as long as no statement of the database fails.           *)
(***************************************************************************)
AtDbHeight(s, rows, height) ==
  s.lastBlock.height = height /\ height \in DOMAIN rows /\ rows[height] = s.lastBlock

StateAgreesWithDb ==
  \A n \in Node :
    /\ state[n].lastBlock.height > dbHeight[n] \/ AtDbHeight(state[n], chain[n], dbHeight[n])
    /\ n \notin DbFailNodes => /\ AtDbHeight(state[n], chain[n], dbHeight[n])
                              /\ DOMAIN chain[n] = 0 .. dbHeight[n]

(***************************************************************************)
(* The blocks of each node that count keep the promises of Ledger: a node  *)
(* only appends a block made for its last one, or drops fewer than         *)
(* ForkLimit, also when that stops midway.  That needs LeftRowsStay: a row *)
(* left behind by "insertHistory" does not count until the node restarts,  *)
(* and then it is the last block, whatever was below it in the meantime.   *)
(***************************************************************************)
Counted == [n \in Node |-> [i \in 1 .. dbHeight[n] + 1 |-> chain[n][i - 1]]]

LeftRowsStay == "insertHistory" \in FailSteps => DbFailNodes \cap RestartNodes = {}

Promise == INSTANCE Ledger WITH chain <- Counted

ImplementsLedger == Promise!Spec

(* More than two thirds of the delegates of a round signed the block *)
Signature(d, b) == [publicKey |-> d, height |-> b.height, id |-> BlockId(b)]
Signers(b) == {d \in Delegate : Signature(d, b) \in signed}
Certified(b) == 3 * Cardinality(Signers(b)) > 2 * DELEGATES

(***************************************************************************)
(* A block a node takes from a broadcast is signed by more than two thirds *)
(* of the delegates.  Its message carries six signatures at most, and the  *)
(* receiver verifies no more: they stand for the votes its sender counted. *)
(***************************************************************************)
AcceptedCertified ==
  [][\A n \in Node : \A m \in newBlocks :
       OnReceiveBlock(n, m) /\ chain'[n] # chain[n] => Certified(m.block)]_vars

(***************************************************************************)
(* A delegate signs one block of a height and a slot at most: pending      *)
(* blocks, the last propose and the last block keep a node from forging    *)
(* twice in a slot and from voting for two proposes of a slot.  There are  *)
(* three ways around that, all of which drop a pending block or pass by    *)
(* lastPropose: the forger of the slot restarts, meets a failing database  *)
(* or synchronises; a block of that height is announced that its receivers *)
(* refuse, for the cleanup of processBlock drops the pending block all the *)
(* same; or a block of the slot is proposed by somebody else, whose turn   *)
(* was over when its task ran.                                             *)
(***************************************************************************)
Refused(m) ==
  m.votes.id # BlockId(m.block) \/ ~ ValidateSlot(m.block.height, m.block.slot, m.block.delegate)

MayForgeTwice(height, slot) ==
  \/ \E n \in RestartNodes \cup DbFailNodes \cup SyncNodes : OwnerOf(height, slot) \in KeysOf[n]
  \/ \E m \in newBlocks : m.block.height = height /\ Refused(m)
  \/ \E p \in proposes :
       /\ p.height = height /\ p.slot = slot
       /\ ~ ValidateSlot(height, slot, p.generatorPublicKey)

NoDoubleSign ==
  \A a, b \in signed :
    a.publicKey = b.publicKey /\ a.height = b.height /\ SlotOfId(a.id) = SlotOfId(b.id) =>
      a = b \/ MayForgeTwice(a.height, SlotOfId(a.id))

(***************************************************************************)
(* A node that lost blocks catches up by its timer alone: once its last    *)
(* block is three slots old and another node has more blocks, it does not  *)
(* stay behind.  The other node has to answer: it does not synchronise     *)
(* itself from some time on, for then it refuses every request.  And the   *)
(* fork must not be longer than what both look back for a common block.    *)
(***************************************************************************)
Behind(n, m) ==
  /\ dbHeight[n] < dbHeight[m]
  /\ SlotOf(now) + 1 - state[n].lastBlock.slot >= 3

ShortFork(n, m) ==
  \E h \in DOMAIN chain[n] \cap DOMAIN chain[m] :
    h > dbHeight[n] - ForkLimit /\ chain[n][h] = chain[m][h]

CatchUp ==
  \A n, m \in Node :
    <>[] ~ IsSyncing(m) =>
      (Behind(n, m) /\ ShortFork(n, m) ~> ~ Behind(n, m) \/ ~ ShortFork(n, m))

(***************************************************************************)
(* A rollback to the common block leaves that block as the last one, so    *)
(* that the blocks the peer sends next extend it: findUpdate logs "set new *)
(* last block", rollbackBlock "SUCCESS rollbackBlock".                     *)
(***************************************************************************)
RollsBackToCommonBlock ==
  [][\A n \in Node :
       sync[n].phase = "common" /\ sync'[n].phase = "blocks" =>
         BlockId(state'[n].lastBlock) = sync'[n].lastCommonBlockId]_vars

(***************************************************************************)
(* More than two thirds of the delegates signed every block a node has:    *)
(* the proposer counted their votes before it committed its block          *)
(* (hasEnoughVotes, with the test that 67 votes are not enough).           *)
(***************************************************************************)
CommittedCertified ==
  \A n \in Node : \A h \in DOMAIN chain[n] \ {0} : Certified(chain[n][h])

=============================================================================
