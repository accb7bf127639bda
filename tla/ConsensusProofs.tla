-------------------------- MODULE ConsensusProofs ---------------------------
(* Theorems about Consensus, for every value of its constants.             *)
EXTENDS Consensus, SequenceTheorems, FiniteSetTheorems, TLAPS

USE BlocksAssumption DEF messages, db

-----------------------------------------------------------------------------
(* Lemmas about numbers and the rows of a table *)

(* Slots grow with the clock *)
LEMMA SlotMonotone ==
  ASSUME NEW t \in 0 .. MaxNow
  PROVE  SlotOf(t) \in 0 .. SlotOf(MaxNow)
BY DEF SlotOf

LEMMA LeastNatural ==
  ASSUME NEW S \in SUBSET Nat, S # {}
  PROVE  \E least \in S : \A other \in S : least <= other
<1> DEFINE R == OpToRel(<, Nat)
<1>1. IsWellFoundedOn(R, Nat)
  BY NatLessThanWellFounded
<1>2. \A x, y \in Nat : x < y => <<x, y>> \in R
  BY DEF OpToRel
<1> HIDE DEF R
<1>3. PICK least \in S : \A other \in S : ~ (<<other, least>> \in R)
  BY <1>1, WFMin
<1>4. \A other \in S : ~ (other < least)
  BY <1>2, <1>3
<1> QED
  BY <1>4

(* A rollback keeps all blocks up to its target, and possibly more *)
LEMMA RollbackKeeps ==
  ASSUME NEW last \in Nat, NEW target \in 0 .. last
  PROVE  RollbackHeight(last, target) \in target .. last
<1> DEFINE stops == {h \in target .. last : ~ GreaterAsText(h, target)}
           Highest(h) == \A other \in stops : other <= h
<1>1. target \in stops
  BY DEF GreaterAsText
<1>2. stops \in SUBSET (target .. last)
  OBVIOUS
<1> HIDE DEF stops
<1>3. \E h \in stops : Highest(h)
  <2> DEFINE S == {last - h : h \in stops}
  <2>1. S \in SUBSET Nat /\ S # {}
    BY <1>1, <1>2
  <2>2. PICK least \in S : \A other \in S : least <= other
    BY <2>1, LeastNatural
  <2>3. PICK h \in stops : least = last - h
    BY <2>2
  <2>4. ASSUME NEW other \in stops PROVE other <= h
    <3>1. last - h <= last - other
      BY <2>2, <2>3
    <3> QED
      BY <1>2, <2>3, <3>1
  <2> QED
    BY <2>3, <2>4
<1>4. (CHOOSE h \in stops : Highest(h)) \in stops
  <2> HIDE DEF Highest
  <2> QED
    BY <1>3
<1> QED
  BY <1>2, <1>4 DEF RollbackHeight, stops

LEMMA WithRowOK ==
  ASSUME NEW rows, RowsOK(rows), NEW b, BlockOK(b)
  PROVE  /\ RowsOK(WithRow(rows, b.height, b))
         /\ DOMAIN WithRow(rows, b.height, b) = DOMAIN rows \cup {b.height}
         /\ WithRow(rows, b.height, b)[b.height] = b
         /\ \A h \in DOMAIN rows \ {b.height} : WithRow(rows, b.height, b)[h] = rows[h]
<1> DEFINE new == WithRow(rows, b.height, b)
<1>1. new = [h \in DOMAIN rows \cup {b.height} |-> IF h = b.height THEN b ELSE rows[h]]
  BY DEF WithRow, WithRows
<1>2. b.height \in 0 .. MaxHeight
  BY DEF BlockOK
<1> HIDE DEF new
<1>3. RowsOK(new)
  BY <1>1, <1>2 DEF RowsOK
<1> QED
  BY <1>1, <1>3 DEF new

(* The rows that are left when those above a height are deleted *)
LEMMA FewerRowsOK ==
  ASSUME NEW rows, RowsOK(rows), NEW low \in Nat, NEW high
  PROVE  RowsOK([h \in DOMAIN rows \ (low + 1 .. high) |-> rows[h]])
BY DEF RowsOK

-----------------------------------------------------------------------------
(* Lemmas about votes and the state record *)

LEMMA GenesisOK == BlockOK(Genesis)
BY DEF BlockOK, Genesis, SlotOf

LEMMA KeypairsOK ==
  ASSUME NEW n \in Node, NEW height
  PROVE  /\ GetActiveDelegateKeypairs(n, height) \in SUBSET Delegate
         /\ IsFiniteSet(GetActiveDelegateKeypairs(n, height))
BY FS_Subset DEF GetActiveDelegateKeypairs

LEMMA VotesSubset ==
  ASSUME NEW votes, VotesOK(votes), NEW signatures \in SUBSET votes.signatures
  PROVE  VotesOK([votes EXCEPT !.signatures = signatures])
BY FS_Subset DEF VotesOK

LEMMA CreateVotesOK ==
  ASSUME NEW keys \in SUBSET Delegate, NEW height, NEW id
  PROVE  VotesOK(CreateVotes(keys, height, id))
<1> DEFINE Sign(k) == [publicKey |-> k, height |-> height, id |-> id]
           T == {Sign(k) : k \in keys}
           f == [k \in keys |-> Sign(k)]
<1>1. f \in Surjection(keys, T)
  BY DEF Surjection
<1>2. IsFiniteSet(keys)
  BY FS_Subset
<1>3. IsFiniteSet(T)
  <2> HIDE DEF f, T
  <2> QED
    BY <1>1, <1>2, FS_Surjection
<1> QED
  BY <1>3 DEF CreateVotes, VotesOK

LEMMA NoVotesOK == VotesOK(NoVotes)
BY CreateVotesOK DEF NoVotes

LEMMA NoVotesEmpty == NoVotes.signatures = {}
BY DEF NoVotes, CreateVotes

LEMMA InitialStateOK ==
  ASSUME NEW block, BlockOK(block)
  PROVE  StateOK(InitialState(block))
BY NoVotesOK, NoVotesEmpty DEF InitialState, StateOK

LEMMA AddPendingVotesOK ==
  ASSUME NEW s, StateOK(s), NEW votes, VotesOK(votes)
  PROVE  /\ StateOK(AddPendingVotes(s, votes))
         /\ AddPendingVotes(s, votes).pendingBlock = s.pendingBlock
         /\ AddPendingVotes(s, votes).lastBlock = s.lastBlock
<1> DEFINE fresh == FreshSignatures(s, votes)
           old   == IF s.pendingVotes.signatures = {} THEN votes ELSE s.pendingVotes
           new   == [height     |-> old.height,
                     id         |-> old.id,
                     signatures |-> s.pendingVotes.signatures \cup fresh]
           keys  == s.votesKeySet \cup {sig.publicKey : sig \in fresh}
<1>1. fresh \in SUBSET votes.signatures
  BY DEF FreshSignatures
<1>2. IsFiniteSet(fresh) /\ IsFiniteSet(s.pendingVotes.signatures)
  BY <1>1, FS_Subset DEF VotesOK, StateOK
<1>3. VotesOK(new) /\ keys \in SUBSET Delegate
  <2>1. IsFiniteSet(s.pendingVotes.signatures \cup fresh)
    BY <1>2, FS_Union
  <2> HIDE DEF fresh
  <2> QED
    BY <1>1, <2>1 DEF VotesOK, StateOK
<1>4. AddPendingVotes(s, votes) =
        IF fresh = {} THEN s ELSE [s EXCEPT !.votesKeySet = keys, !.pendingVotes = new]
  BY DEF AddPendingVotes, StateOK
<1>5. fresh # {} => BlockOK(s.pendingBlock)
  BY DEF FreshSignatures, StateOK
<1> HIDE DEF fresh, new, keys
<1> QED
  BY <1>3, <1>4, <1>5 DEF StateOK

(* A copy of the state with one field changed *)
LEMMA FieldsOK ==
  ASSUME NEW s, StateOK(s), NEW x
  PROVE  /\ x \in SUBSET Delegate => StateOK([s EXCEPT !.votesKeySet = x])
         /\ BlockOK(x) => StateOK([s EXCEPT !.pendingBlock = x])
         /\ x = Null /\ s.pendingVotes.signatures = {} =>
              StateOK([s EXCEPT !.pendingBlock = x])
         /\ VotesOK(x) /\ (x.signatures # {} => BlockOK(s.pendingBlock)) =>
              StateOK([s EXCEPT !.pendingVotes = x])
         /\ BlockOK(x) => StateOK([s EXCEPT !.lastBlock = x])
         /\ StateOK([s EXCEPT !.blockCache = x])
         /\ StateOK([s EXCEPT !.proposeCache = x])
         /\ StateOK([s EXCEPT !.lastPropose = x])
         /\ StateOK([s EXCEPT !.privIsCollectingVotes = x])
         /\ StateOK([s EXCEPT !.lastVoteTime = x])
<1>1. x \in SUBSET Delegate => StateOK([s EXCEPT !.votesKeySet = x])
  BY DEF StateOK
<1>2. /\ BlockOK(x) => StateOK([s EXCEPT !.pendingBlock = x])
      /\ x = Null /\ s.pendingVotes.signatures = {} =>
           StateOK([s EXCEPT !.pendingBlock = x])
  BY DEF StateOK
<1>3. VotesOK(x) /\ (x.signatures # {} => BlockOK(s.pendingBlock)) =>
        StateOK([s EXCEPT !.pendingVotes = x])
  BY DEF StateOK
<1>4. BlockOK(x) => StateOK([s EXCEPT !.lastBlock = x])
  BY DEF StateOK
<1>5. StateOK([s EXCEPT !.blockCache = x])
  BY DEF StateOK
<1>6. StateOK([s EXCEPT !.proposeCache = x])
  BY DEF StateOK
<1>7. StateOK([s EXCEPT !.lastPropose = x])
  BY DEF StateOK
<1>8. StateOK([s EXCEPT !.privIsCollectingVotes = x])
  BY DEF StateOK
<1>9. StateOK([s EXCEPT !.lastVoteTime = x])
  BY DEF StateOK
<1> QED
  BY <1>1, <1>2, <1>3, <1>4, <1>5, <1>6, <1>7, <1>8, <1>9

(* The other changed copies of the state *)
LEMMA CopiesOK ==
  ASSUME NEW s, StateOK(s)
  PROVE  /\ StateOK(ProcessBlockCleanup(s))
         /\ StateOK(ClearState(s))
         /\ StateOK(CollectingVotes(s))
         /\ \A block : BlockOK(block) => /\ StateOK(SetPendingBlock(s, block))
                                        /\ StateOK(SetLastBlock(s, block))
                                        /\ StateOK(MarkBlockAsReceived(s, block))
         /\ \A p : StateOK(MarkProposeAsReceived(s, p))
         /\ \A p, time : StateOK(SetLastPropose(s, time, p))
<1>1. StateOK(ProcessBlockCleanup(s))
  <2>1. StateOK([s EXCEPT !.blockCache = {}])
    BY FieldsOK
  <2>2. StateOK([[s EXCEPT !.blockCache = {}] EXCEPT !.proposeCache = {}])
    BY <2>1, FieldsOK
  <2>3. StateOK([[[s EXCEPT !.blockCache = {}] EXCEPT !.proposeCache = {}]
                    EXCEPT !.lastVoteTime = Null])
    BY <2>2, FieldsOK
  <2>4. StateOK([[[[s EXCEPT !.blockCache = {}] EXCEPT !.proposeCache = {}]
                    EXCEPT !.lastVoteTime = Null] EXCEPT !.privIsCollectingVotes = FALSE])
    BY <2>3, FieldsOK
  <2> QED
    BY <2>4 DEF ProcessBlockCleanup
<1>2. StateOK(ClearState(s))
  <2>1. StateOK([s EXCEPT !.votesKeySet = {}])
    BY FieldsOK
  <2> DEFINE t == [s EXCEPT !.votesKeySet = {}]
             u == [t EXCEPT !.pendingVotes = NoVotes]
  <2>3. StateOK(u) /\ u.pendingVotes = NoVotes
    <3>1. StateOK(u)
      BY <2>1, FieldsOK, NoVotesOK, NoVotesEmpty
    <3> QED
      BY <3>1 DEF StateOK
  <2>4. StateOK([u EXCEPT !.pendingBlock = Null])
    <3> HIDE DEF u
    <3> QED
      BY <2>3, FieldsOK, NoVotesEmpty
  <2>5. [u EXCEPT !.pendingBlock = Null] = ClearState(s)
    BY DEF ClearState, StateOK
  <2> QED
    BY <2>4, <2>5
<1>3. StateOK(CollectingVotes(s))
  BY FieldsOK DEF CollectingVotes
<1>4. ASSUME NEW block, BlockOK(block)
      PROVE  /\ StateOK(SetPendingBlock(s, block))
             /\ StateOK(SetLastBlock(s, block))
             /\ StateOK(MarkBlockAsReceived(s, block))
  <2>1. StateOK(SetPendingBlock(s, block))
    BY <1>4, FieldsOK DEF SetPendingBlock
  <2>2. StateOK(SetLastBlock(s, block))
    BY <1>4, FieldsOK DEF SetLastBlock
  <2>3. StateOK(MarkBlockAsReceived(s, block))
    BY FieldsOK DEF MarkBlockAsReceived
  <2> QED
    BY <2>1, <2>2, <2>3
<1>5. \A p : StateOK(MarkProposeAsReceived(s, p))
  BY FieldsOK DEF MarkProposeAsReceived
<1>6. ASSUME NEW p, NEW time PROVE StateOK(SetLastPropose(s, time, p))
  <2>1. StateOK([s EXCEPT !.lastVoteTime = time])
    BY FieldsOK
  <2>2. StateOK([[s EXCEPT !.lastVoteTime = time] EXCEPT !.lastPropose = p])
    BY <2>1, FieldsOK
  <2> QED
    BY <2>2 DEF SetLastPropose
<1> QED
  BY <1>1, <1>2, <1>3, <1>4, <1>5, <1>6

-----------------------------------------------------------------------------
(* Type correctness *)

LEMMA TypeInit == Init => TypeOK
<1> SUFFICES ASSUME Init PROVE TypeOK
  OBVIOUS
<1>1. 2 \in 0 .. MaxNow
  OBVIOUS
<1>2. RowsOK([height \in {0} |-> Genesis])
  BY GenesisOK DEF RowsOK, Genesis
<1>3. StateOK(InitialState(Genesis))
  BY GenesisOK, InitialStateOK
<1> QED
  BY <1>1, <1>2, <1>3
     DEF Init, TypeOK, StatesOK, ChainsOK, TasksOK, SyncsOK, SyncOK,
         ProposesOK, VoteMsgsOK, NewBlocksOK

LEMMA AnnounceTypes ==
  ASSUME NewBlocksOK, NEW n \in Node, NEW block, BlockOK(block), NEW votes, VotesOK(votes),
         NEW origin, Announce(n, block, votes, origin)
  PROVE  NewBlocksOK'
<1>1. CASE UNCHANGED newBlocks
  BY <1>1 DEF NewBlocksOK
<1>2. CASE \E first \in FirstSignatures(votes.signatures) :
             newBlocks' = newBlocks \cup
               {[from |-> n, block |-> block,
                 votes |-> [votes EXCEPT !.signatures = first]]}
  <2>1. PICK first \in FirstSignatures(votes.signatures) :
             newBlocks' = newBlocks \cup
               {[from |-> n, block |-> block,
                 votes |-> [votes EXCEPT !.signatures = first]]}
    BY <1>2
  <2>2. first \in SUBSET votes.signatures
    BY DEF FirstSignatures
  <2>3. VotesOK([votes EXCEPT !.signatures = first])
    BY <2>2, VotesSubset
  <2> QED
    BY <2>1, <2>3 DEF NewBlocksOK
<1> QED
  BY <1>1, <1>2 DEF Announce

(* The row of a block that passes is written, and the height may count it *)
LEMMA RowTypes ==
  ASSUME ChainsOK, NEW n \in Node, NEW block, BlockOK(block),
         NEW s, NEW votes, NEW origin, BlockPasses(n, s, block, votes, origin),
         CommitBlock(n, block) \/ AppendBlockHalf(n, block)
  PROVE  ChainsOK'
<1> DEFINE rows == WithRow(chain[n], block.height, block)
<1>1. RowsOK(rows)
  BY WithRowOK DEF ChainsOK
<1>2. chain' = [chain EXCEPT ![n] = rows]
  BY DEF CommitBlock, AppendBlockHalf
<1>3. dbHeight[n] + 1 \in 0 .. MaxHeight
  BY DEF BlockPasses, BlockOK
<1>4. dbHeight' = [dbHeight EXCEPT ![n] = dbHeight[n] + 1] \/ UNCHANGED dbHeight
  BY DEF CommitBlock, AppendBlockHalf
<1> HIDE DEF rows
<1> QED
  BY <1>1, <1>2, <1>3, <1>4 DEF ChainsOK

(* A block that is processed is committed, or nothing but the state changes *)
LEMMA ProcessBlockTypes ==
  ASSUME StatesOK, ChainsOK, NewBlocksOK, NEW n \in Node,
         NEW s, StateOK(s), NEW block, BlockOK(block), NEW votes, VotesOK(votes),
         NEW origin, ProcessBlock(n, s, block, votes, origin)
  PROVE  StatesOK' /\ ChainsOK' /\ NewBlocksOK'
<1>1. StateOK(ProcessBlockCleanupEffect(s)) /\ StateOK(ProcessBlockCleanupEffect(SetLastBlock(s, block)))
  BY CopiesOK DEF ProcessBlockCleanupEffect
<1>2. StatesOK'
  <2>1. \/ state' = [state EXCEPT ![n] = ProcessBlockCleanupEffect(SetLastBlock(s, block))]
        \/ state' = [state EXCEPT ![n] = ProcessBlockCleanupEffect(s)]
    BY DEF ProcessBlock
  <2> QED
    BY <1>1, <2>1 DEF StatesOK
<1>3. ChainsOK'
  <2>1. \/ UNCHANGED db
        \/ /\ BlockPasses(n, s, block, votes, origin)
           /\ CommitBlock(n, block) \/ AppendBlockHalf(n, block)
    BY DEF ProcessBlock
  <2> QED
    BY <2>1, RowTypes DEF ChainsOK
<1>4. NewBlocksOK'
  <2>1. Announce(n, block, votes, origin) \/ UNCHANGED newBlocks
    BY DEF ProcessBlock
  <2> QED
    BY <2>1, AnnounceTypes DEF NewBlocksOK
<1> QED
  BY <1>2, <1>3, <1>4

LEMMA TasksTypes ==
  ASSUME TasksOK, NEW n \in Node, NEW task
  PROVE  /\ Enqueue(n, task) /\ TaskOK(task) => TasksOK'
         /\ RequestSync(n, task) /\ TaskOK(task) => TasksOK'
         /\ Dequeue(n, task) => TasksOK' /\ TaskOK(task)
<1>1. Enqueue(n, task) /\ TaskOK(task) => TasksOK'
  BY DEF Enqueue, TasksOK
<1>2. RequestSync(n, task) /\ TaskOK(task) => TasksOK'
  BY <1>1 DEF RequestSync, TasksOK
<1>3. Dequeue(n, task) => TasksOK' /\ TaskOK(task)
  BY DEF Dequeue, TasksOK
<1> QED
  BY <1>1, <1>2, <1>3

LEMMA TypeTick == TypeOK /\ Tick => TypeOK'
BY DEF Tick, TypeOK, StatesOK, ChainsOK, TasksOK, SyncsOK, ProposesOK, VoteMsgsOK, NewBlocksOK

LEMMA OwnKey ==
  ASSUME NEW n \in Node, NEW height, NEW slot, NEW s \in OwnSlotsFrom(n, height, slot)
  PROVE  s \in slot .. slot + DELEGATES - 1 /\ OwnerOf(height, s) \in Delegate
BY DEF OwnSlotsFrom

LEMMA TypeLoop == ASSUME TypeOK, NEW n \in Node, Loop(n) PROVE TypeOK'
<1> DEFINE height == state[n].lastBlock.height + 1
           slots  == OwnSlotsFrom(n, height, SlotOf(now))
<1>1. PICK slot \in slots : Enqueue(n, LoopTask(slot, OwnerOf(height, slot)))
  BY DEF Loop
<1>2. SlotOf(now) \in Nat
  BY SlotMonotone DEF TypeOK, SlotOf
<1>3. slot \in Nat /\ OwnerOf(height, slot) \in Delegate
  BY <1>2, OwnKey
<1>4. TaskOK(LoopTask(slot, OwnerOf(height, slot)))
  <2> HIDE DEF height
  <2> QED
    BY <1>3 DEF TaskOK, LoopTask
<1>5. TasksOK'
  BY <1>1, <1>4, TasksTypes DEF TypeOK
<1> QED
  BY <1>5 DEF Loop, TypeOK, StatesOK, ChainsOK, SyncsOK, ProposesOK, VoteMsgsOK, NewBlocksOK

LEMMA ForgedBlockOK ==
  ASSUME NEW key \in Delegate, NEW slot \in 0 .. SlotOf(MaxNow), NEW last, BlockOK(last),
         last.height < MaxHeight, NEW payload \in Payload
  PROVE  /\ BlockOK(GenerateBlockShort(key, slot, last, payload))
         /\ GenerateBlockShort(key, slot, last, payload).height \in 1 .. MaxHeight
         /\ GenerateBlockShort(key, slot, last, payload).slot = slot
BY DEF BlockOK, GenerateBlockShort, HeightOfId, BlockId

LEMMA TypeRunLoopTask ==
  ASSUME TypeOK, NEW n \in Node, NEW task, RunLoopTask(n, task)
  PROVE  TypeOK'
<1>1. TasksOK' /\ task.key \in Delegate
  <2>1. TasksOK' /\ TaskOK(task)
    BY TasksTypes DEF RunLoopTask, TypeOK
  <2> QED
    BY <2>1 DEF RunLoopTask, TaskOK, StartSyncTask, SyncFromPeerTask
<1>2. UNCHANGED <<now, sync, voteMsgs>>
  BY DEF RunLoopTask
<1>3. StatesOK' /\ ChainsOK' /\ NewBlocksOK' /\ ProposesOK'
  <2>1. CASE UNCHANGED <<state, db, proposes, newBlocks, signed>>
    BY <2>1 DEF TypeOK, StatesOK, ChainsOK, NewBlocksOK, ProposesOK
  <2>2. CASE CanForge(n, task.slot)
    <3> DEFINE Block(payload) ==
                 GenerateBlockShort(task.key, task.slot, state[n].lastBlock, payload)
               keys == GetActiveDelegateKeypairs(n, state[n].lastBlock.height + 1)
               LocalVotes(b) == CreateVotes(GetActiveDelegateKeypairs(n, b.height),
                                            b.height, BlockId(b))
    <3>1. PICK payload \in Payload :
            \/ ForgeBlock(n, Block(payload), LocalVotes(Block(payload)))
            \/ ProposeBlock(n, Block(payload), LocalVotes(Block(payload)))
      BY <2>2 DEF RunLoopTask
    <3> DEFINE block == Block(payload)
               localVotes == LocalVotes(block)
    <3>2. task.slot \in 0 .. SlotOf(MaxNow) /\ state[n].lastBlock.height < MaxHeight
      BY <2>2, SlotMonotone DEF CanForge, TypeOK
    <3>3. StateOK(state[n]) /\ BlockOK(state[n].lastBlock)
      BY DEF TypeOK, StatesOK, StateOK
    <3>4. BlockOK(block) /\ block.height \in 1 .. MaxHeight /\ block.slot \in Nat
      BY <1>1, <3>2, <3>3, ForgedBlockOK DEF SlotOf
    <3> HIDE DEF block
    <3>5. VotesOK(localVotes)
      BY KeypairsOK, CreateVotesOK
    <3> HIDE DEF localVotes
    <3>6. CASE ForgeBlock(n, block, localVotes)
      <4>1. ProposesOK'
        BY <3>6 DEF ForgeBlock, TypeOK, ProposesOK
      <4>2. StatesOK' /\ ChainsOK' /\ NewBlocksOK'
        <5>1. CASE ProcessBlock(n, state[n], block, localVotes, "local")
          BY <5>1, <3>3, <3>4, <3>5, ProcessBlockTypes DEF TypeOK
        <5>2. CASE UNCHANGED <<state, db, newBlocks>>
          BY <5>2 DEF TypeOK, StatesOK, ChainsOK, NewBlocksOK
        <5> QED
          BY <3>6, <5>1, <5>2 DEF ForgeBlock
      <4> QED
        BY <4>1, <4>2
    <3>7. CASE ProposeBlock(n, block, localVotes)
      <4> DEFINE propose == ManageProposeCreation(n, block)
                 pending == AddPendingVotes(SetPendingBlock(state[n], block), localVotes)
                 new     == CollectingVotes(MarkProposeAsReceived(pending, propose))
      <4>1. StateOK(new)
        <5>1. StateOK(SetPendingBlock(state[n], block))
          BY <3>3, <3>4, CopiesOK
        <5>2. StateOK(pending)
          BY <5>1, <3>5, AddPendingVotesOK
        <5>3. StateOK(MarkProposeAsReceived(pending, propose))
          BY <5>2, CopiesOK
        <5> QED
          BY <5>3, CopiesOK
      <4>2. ProposeOK(propose)
        BY <3>4 DEF ManageProposeCreation, ProposeOK
      <4>3. state' = [state EXCEPT ![n] = new] /\ proposes' = proposes \cup {propose}
            /\ UNCHANGED <<db, newBlocks>>
        BY <3>7 DEF ProposeBlock
      <4> HIDE DEF new, propose
      <4> QED
        BY <4>1, <4>2, <4>3 DEF TypeOK, StatesOK, ChainsOK, NewBlocksOK, ProposesOK
    <3> QED
      BY <3>1, <3>6, <3>7 DEF block, localVotes
  <2> QED
    BY <2>1, <2>2 DEF RunLoopTask
<1> QED
  BY <1>1, <1>2, <1>3 DEF TypeOK, SyncsOK, VoteMsgsOK

LEMMA TypeOnReceivePropose ==
  ASSUME TypeOK, NEW n \in Node, NEW p, OnReceivePropose(n, p)
  PROVE  TypeOK'
<1>1. ProposeOK(p) /\ StateOK(state[n])
  BY DEF OnReceivePropose, TypeOK, ProposesOK, StatesOK
<1>2. CASE VoteFor(n, p)
  <2> DEFINE s     == MarkProposeAsReceived(state[n], p)
             votes == CreateVotes(GetActiveDelegateKeypairs(n, p.height), p.height, p.id)
  <2>1. StateOK(s)
    BY <1>1, CopiesOK
  <2>2. VotesOK(votes)
    BY KeypairsOK, CreateVotesOK
  <2> HIDE DEF s, votes
  <2>3. StateOK(SetLastPropose(s, now, p))
    BY <2>1, CopiesOK
  <2>4. UNCHANGED tasks
    BY <1>2 DEF VoteFor
  <2>5. /\ state' = [state EXCEPT ![n] = s]
           \/ state' = [state EXCEPT ![n] = SetLastPropose(s, now, p)]
        /\ UNCHANGED voteMsgs \/ voteMsgs' = voteMsgs \cup {[to |-> p.address, votes |-> votes]}
    BY <1>2 DEF VoteFor, s, votes
  <2>6. StatesOK'
    BY <2>1, <2>3, <2>5 DEF TypeOK, StatesOK
  <2>7. VoteMsgsOK'
    BY <1>1, <2>2, <2>5 DEF TypeOK, VoteMsgsOK, ProposeOK
  <2> QED
    BY <2>4, <2>6, <2>7
       DEF OnReceivePropose, TypeOK, ChainsOK, TasksOK, SyncsOK, ProposesOK, NewBlocksOK
<1>3. CASE RequestSync(n, StartSyncTask(state[n].lastBlock)) /\ UNCHANGED <<state, voteMsgs, signed>>
  <2>1. TaskOK(StartSyncTask(state[n].lastBlock))
    BY <1>1 DEF TaskOK, StartSyncTask, StateOK
  <2>2. TasksOK'
    BY <1>3, <2>1, TasksTypes DEF TypeOK
  <2> QED
    BY <1>3, <2>2 DEF OnReceivePropose, TypeOK, StatesOK, ChainsOK, SyncsOK, ProposesOK,
                     VoteMsgsOK, NewBlocksOK
<1> QED
  BY <1>2, <1>3 DEF OnReceivePropose

LEMMA EnoughVotes == ASSUME NEW votes, HasEnoughVotes(votes) PROVE votes.signatures # {}
<1> SUFFICES ASSUME votes.signatures = {} PROVE FALSE
  OBVIOUS
<1>1. Cardinality(votes.signatures) = 0
  BY FS_EmptySet
<1> QED
  BY <1>1 DEF HasEnoughVotes

LEMMA TypeOnReceiveVotes ==
  ASSUME TypeOK, NEW n \in Node, NEW m, OnReceiveVotes(n, m)
  PROVE  TypeOK'
<1> DEFINE s == AddPendingVotes(state[n], m.votes)
<1>1. StateOK(s)
  BY AddPendingVotesOK DEF OnReceiveVotes, TypeOK, StatesOK, VoteMsgsOK
<1>2. StatesOK' /\ ChainsOK' /\ NewBlocksOK'
  <2>1. CASE HasEnoughVotes(s.pendingVotes)
    <3> HIDE DEF s
    <3>1. BlockOK(s.pendingBlock) /\ VotesOK(s.pendingVotes)
      BY <1>1, <2>1, EnoughVotes DEF StateOK
    <3>2. ProcessBlock(n, s, s.pendingBlock, s.pendingVotes, "local")
      BY <2>1 DEF OnReceiveVotes, s
    <3> QED
      BY <1>1, <3>1, <3>2, ProcessBlockTypes DEF TypeOK
  <2>2. CASE ~ HasEnoughVotes(s.pendingVotes)
    <3>1. state' = [state EXCEPT ![n] = s] /\ UNCHANGED <<db, newBlocks>>
      BY <2>2 DEF OnReceiveVotes
    <3> HIDE DEF s
    <3> QED
      BY <1>1, <3>1 DEF TypeOK, StatesOK, ChainsOK, NewBlocksOK
  <2> QED
    BY <2>1, <2>2
<1> QED
  BY <1>2 DEF OnReceiveVotes, TypeOK, TasksOK, SyncsOK, ProposesOK, VoteMsgsOK

LEMMA TypeOnReceiveBlock ==
  ASSUME TypeOK, NEW n \in Node, NEW m, OnReceiveBlock(n, m)
  PROVE  TypeOK'
<1>1. m.from \in Node /\ BlockOK(m.block) /\ VotesOK(m.votes) /\ StateOK(state[n])
  BY DEF OnReceiveBlock, TypeOK, NewBlocksOK, StatesOK
<1> DEFINE received == MarkBlockAsReceived(state[n], m.block)
<1>2. StateOK(received)
  BY <1>1, CopiesOK
<1> HIDE DEF received
<1>3. CASE /\ ProcessBlock(n, received, m.block, m.votes, "broadcast")
           /\ UNCHANGED tasks
  <2>1. StatesOK' /\ ChainsOK' /\ NewBlocksOK'
    BY <1>1, <1>2, <1>3, ProcessBlockTypes DEF TypeOK
  <2> QED
    BY <1>3, <2>1 DEF OnReceiveBlock, TypeOK, TasksOK, SyncsOK, ProposesOK, VoteMsgsOK
<1>4. CASE state' = [state EXCEPT ![n] = received] /\ UNCHANGED <<db, newBlocks, tasks>>
  BY <1>2, <1>4 DEF OnReceiveBlock, TypeOK, StatesOK, ChainsOK, TasksOK, SyncsOK, ProposesOK,
                   VoteMsgsOK, NewBlocksOK
<1>5. CASE RequestSync(n, SyncFromPeerTask(m.from)) /\ UNCHANGED <<state, db, newBlocks>>
  <2>1. TaskOK(SyncFromPeerTask(m.from))
    BY <1>1 DEF TaskOK, SyncFromPeerTask
  <2>2. TasksOK'
    BY <1>5, <2>1, TasksTypes DEF TypeOK
  <2> QED
    BY <1>5, <2>2 DEF OnReceiveBlock, TypeOK, StatesOK, ChainsOK, SyncsOK, ProposesOK,
                     VoteMsgsOK, NewBlocksOK
<1> QED
  BY <1>3, <1>4, <1>5 DEF OnReceiveBlock, received

LEMMA TypeNextSync == ASSUME TypeOK, NEW n \in Node, NextSync(n) PROVE TypeOK'
<1>1. TaskOK(StartSyncTask(state[n].lastBlock))
  BY DEF TypeOK, StatesOK, StateOK, TaskOK, StartSyncTask
<1>2. TasksOK'
  BY <1>1, TasksTypes DEF NextSync, TypeOK
<1> QED
  BY <1>2 DEF NextSync, TypeOK, StatesOK, ChainsOK, SyncsOK, ProposesOK, VoteMsgsOK, NewBlocksOK

(* A step that gives one sync record a value of its type *)
LEMMA SyncTypes ==
  ASSUME SyncsOK, NEW n \in Node, NEW r, SyncOK(r), sync' = [sync EXCEPT ![n] = r]
  PROVE  SyncsOK'
BY DEF SyncsOK

LEMMA SyncRecordsOK ==
  /\ SyncOK(Idle)
  /\ \A peer \in Node : \A newest \in 0 .. MaxHeight : SyncOK(CommonPhase(peer, newest))
  /\ \A peer \in Node : \A id, batch :
       (\A b \in batch : BlockOK(b)) => SyncOK(BlocksPhase(peer, id, batch))
BY DEF SyncOK, Idle, CommonPhase, BlocksPhase

LEMMA TypeStartSync ==
  ASSUME TypeOK, NEW n \in Node, NEW peer \in Node, NEW task, StartSync(n, task, peer)
  PROVE  TypeOK'
<1> DEFINE newest == IF state[n].lastBlock.height > task.lastBlock.height
                     THEN state[n].lastBlock.height
                     ELSE task.lastBlock.height
           r == IF task.lastBlock.height >= state[peer].lastBlock.height
                THEN Idle
                ELSE IF BlockId(task.lastBlock) = BlockId(Genesis)
                     THEN BlocksPhase(peer, BlockId(Genesis), {})
                     ELSE CommonPhase(peer, newest)
<1>1. TasksOK' /\ TaskOK(task)
  BY TasksTypes DEF StartSync, TypeOK
<1>2. newest \in 0 .. MaxHeight
  <2>1. task.lastBlock.height \in 0 .. MaxHeight
    BY <1>1 DEF StartSync, TaskOK, BlockOK, LoopTask, SyncFromPeerTask
  <2>2. state[n].lastBlock.height \in 0 .. MaxHeight
    BY DEF TypeOK, StatesOK, StateOK, BlockOK
  <2> QED
    BY <2>1, <2>2
<1> HIDE DEF newest
<1>3. SyncOK(r)
  BY <1>2, SyncRecordsOK
<1>4. sync' = [sync EXCEPT ![n] = r]
  BY DEF StartSync, newest
<1> HIDE DEF r
<1>5. SyncsOK'
  BY <1>3, <1>4, SyncTypes DEF TypeOK
<1> QED
  BY <1>1, <1>5 DEF StartSync, TypeOK, StatesOK, ChainsOK, ProposesOK, VoteMsgsOK, NewBlocksOK

LEMMA TypeSyncBlocksFromPeer ==
  ASSUME TypeOK, NEW n \in Node, NEW task, SyncBlocksFromPeer(n, task)
  PROVE  TypeOK'
<1> DEFINE r == BlocksPhase(task.peer, BlockId(state[n].lastBlock), {})
<1>1. TasksOK' /\ TaskOK(task)
  BY TasksTypes DEF SyncBlocksFromPeer, TypeOK
<1>2. task.peer \in Node
  BY <1>1 DEF SyncBlocksFromPeer, TaskOK, LoopTask, StartSyncTask
<1>3. SyncOK(r)
  BY <1>2, SyncRecordsOK
<1>4. sync' = [sync EXCEPT ![n] = r] \/ UNCHANGED sync
  BY DEF SyncBlocksFromPeer
<1> HIDE DEF r
<1>5. SyncsOK'
  BY <1>3, <1>4, SyncTypes DEF TypeOK, SyncsOK
<1> QED
  BY <1>1, <1>5 DEF SyncBlocksFromPeer, TypeOK, StatesOK, ChainsOK, ProposesOK, VoteMsgsOK,
                   NewBlocksOK

(* Blocks are deleted down to a height at or below the last one that counts *)
LEMMA DeleteTypes ==
  ASSUME ChainsOK, NEW n \in Node, NEW height \in 0 .. dbHeight[n], DeleteBlocks(n, height)
  PROVE  ChainsOK'
<1> DEFINE rows == [h \in DOMAIN chain[n] \ (height + 1 .. dbHeight[n]) |-> chain[n][h]]
<1>1. RowsOK(rows)
  <2>1. RowsOK(chain[n]) /\ height \in Nat
    BY DEF ChainsOK
  <2> QED
    BY <2>1, FewerRowsOK
<1>2. chain' = [chain EXCEPT ![n] = rows] /\ dbHeight' = [dbHeight EXCEPT ![n] = height]
  BY DEF DeleteBlocks
<1>3. height \in 0 .. MaxHeight
  BY DEF ChainsOK
<1> HIDE DEF rows
<1> QED
  BY <1>1, <1>2, <1>3 DEF ChainsOK

LEMMA CommonInDb ==
  ASSUME TypeOK, NEW n \in Node, NEW rows, NEW newest, NEW c \in CommonHeights(chain[n], rows, newest)
  PROVE  c \in DOMAIN chain[n] /\ c \in 0 .. MaxHeight /\ c \in Nat
BY DEF CommonHeights, TypeOK, ChainsOK, RowsOK

(* A rollback that throws has reached a height between its target and the last one *)
LEMMA ThrowsInRange ==
  ASSUME TypeOK, NEW n \in Node, NEW target \in Nat, NEW height \in RollbackThrowsAt(n, target)
  PROVE  height \in 0 .. dbHeight[n] /\ (height >= target \/ height = dbHeight[n])
<1>1. dbHeight[n] \in Nat
  BY DEF TypeOK, ChainsOK
<1>2. CASE target > dbHeight[n]
  BY <1>1, <1>2 DEF RollbackThrowsAt
<1>3. CASE ~ (target > dbHeight[n])
  <2>1. RollbackHeight(dbHeight[n], target) \in target .. dbHeight[n]
    <3>1. target \in 0 .. dbHeight[n]
      BY <1>1, <1>3
    <3> QED
      BY <1>1, <3>1, RollbackKeeps
  <2>2. height \in RollbackHeight(dbHeight[n], target) .. dbHeight[n]
    BY <1>3 DEF RollbackThrowsAt
  <2> QED
    BY <1>1, <2>1, <2>2
<1> QED
  BY <1>2, <1>3

LEMMA TypeFindUpdate == ASSUME TypeOK, NEW n \in Node, FindUpdate(n) PROVE TypeOK'
<1> DEFINE peer   == sync[n].peer
           newest == sync[n].newest
           common == CommonHeights(chain[n], chain[peer], newest)
<1>1. peer \in Node /\ dbHeight[n] \in Nat
  BY DEF FindUpdate, TypeOK, SyncsOK, SyncOK, Idle, BlocksPhase, ChainsOK
<1>2. StatesOK' /\ ChainsOK' /\ SyncsOK'
  <2>1. CASE sync' = [sync EXCEPT ![n] = Idle] /\ UNCHANGED <<state, db>>
    BY <2>1, SyncRecordsOK, SyncTypes DEF TypeOK, StatesOK, ChainsOK
  <2>2. CASE \E c \in common :
               /\ CanRollback(n, c)
               /\ DeleteBlocks(n, RollbackHeight(dbHeight[n], c))
               /\ state' = [state EXCEPT ![n] =
                    IF newest > c THEN SetLastBlock(@, chain[n][dbHeight'[n]]) ELSE @]
               /\ sync' = [sync EXCEPT ![n] = BlocksPhase(peer, BlockId(chain[n][c]), {})]
    <3>1. PICK c \in common :
               /\ CanRollback(n, c)
               /\ DeleteBlocks(n, RollbackHeight(dbHeight[n], c))
               /\ state' = [state EXCEPT ![n] =
                    IF newest > c THEN SetLastBlock(state[n], chain[n][dbHeight'[n]]) ELSE state[n]]
               /\ sync' = [sync EXCEPT ![n] = BlocksPhase(peer, BlockId(chain[n][c]), {})]
      BY <2>2
    <3>2. c \in 0 .. dbHeight[n]
      BY <1>1, <3>1, CommonInDb DEF CanRollback
    <3> DEFINE k == RollbackHeight(dbHeight[n], c)
    <3>3. k \in 0 .. dbHeight[n] /\ k \in DOMAIN chain[n]
      <4>1. k \in c .. dbHeight[n]
        BY <1>1, <3>2, RollbackKeeps
      <4> HIDE DEF common
      <4> QED
        BY <1>1, <3>1, <3>2, <4>1 DEF CanRollback
    <3>4. dbHeight'[n] = k
      BY <3>1 DEF DeleteBlocks, TypeOK, ChainsOK
    <3> HIDE DEF k, peer, newest, common
    <3>5. ChainsOK'
      BY <3>1, <3>3, DeleteTypes DEF TypeOK, k
    <3>6. BlockOK(chain[n][k])
      BY <3>3 DEF TypeOK, ChainsOK, RowsOK
    <3>7. StateOK(state[n]) /\ StateOK(SetLastBlock(state[n], chain[n][dbHeight'[n]]))
      BY <3>4, <3>6, CopiesOK DEF TypeOK, StatesOK
    <3>8. StatesOK'
      BY <3>1, <3>7 DEF TypeOK, StatesOK
    <3>9. SyncsOK'
      BY <1>1, <3>1, SyncRecordsOK, SyncTypes DEF TypeOK
    <3> QED
      BY <3>5, <3>8, <3>9
  <2>3. CASE \E c \in common :
               /\ \E height \in RollbackThrowsAt(n, c) : DeleteBlocks(n, height)
               /\ sync' = [sync EXCEPT ![n] = Idle]
               /\ UNCHANGED state
    <3>1. PICK c \in common : \E height \in RollbackThrowsAt(n, c) : DeleteBlocks(n, height)
      BY <2>3
    <3>2. PICK height \in RollbackThrowsAt(n, c) : DeleteBlocks(n, height)
      BY <3>1
    <3>3. height \in 0 .. dbHeight[n]
      BY <3>1, <3>2, CommonInDb, ThrowsInRange
    <3>4. ChainsOK'
      BY <3>3, <3>2, DeleteTypes DEF TypeOK
    <3>5. StatesOK' /\ SyncsOK'
      BY <2>3, SyncRecordsOK, SyncTypes DEF TypeOK, StatesOK
    <3> QED
      BY <3>4, <3>5
  <2> QED
    BY <2>1, <2>2, <2>3 DEF FindUpdate
<1> QED
  BY <1>2 DEF FindUpdate, TypeOK, TasksOK, ProposesOK, VoteMsgsOK, NewBlocksOK

LEMMA TypeRequestBlocks == ASSUME TypeOK, NEW n \in Node, RequestBlocks(n) PROVE TypeOK'
<1> DEFINE r     == sync[n]
           batch == BlocksAfter(chain[r.peer], r.lastCommonBlockId)
<1>1. r.peer \in Node /\ r = BlocksPhase(r.peer, r.lastCommonBlockId, r.batch)
  BY DEF RequestBlocks, TypeOK, SyncsOK, SyncOK, Idle, CommonPhase
<1>2. \A b \in batch : BlockOK(b)
  BY <1>1 DEF BlocksAfter, TypeOK, ChainsOK, RowsOK
<1>3. sync' = [sync EXCEPT ![n] = IF batch = {} THEN Idle ELSE [r EXCEPT !.batch = batch]]
  BY DEF RequestBlocks
<1> HIDE DEF batch, r
<1>4. [r EXCEPT !.batch = batch] = BlocksPhase(r.peer, r.lastCommonBlockId, batch)
  BY <1>1 DEF BlocksPhase
<1>5. SyncsOK'
  BY <1>1, <1>2, <1>3, <1>4, SyncRecordsOK, SyncTypes DEF TypeOK
<1> QED
  BY <1>5 DEF RequestBlocks, TypeOK, StatesOK, ChainsOK, TasksOK, ProposesOK, VoteMsgsOK,
             NewBlocksOK

LEMMA TypeLoadBlock == ASSUME TypeOK, NEW n \in Node, LoadBlock(n) PROVE TypeOK'
<1> DEFINE r == sync[n]
<1>1. r.peer \in Node /\ \A b \in r.batch : BlockOK(b)
  BY DEF LoadBlock, TypeOK, SyncsOK, SyncOK, Idle, CommonPhase
<1>2. PICK block \in r.batch :
        /\ ProcessBlock(n, state[n], block, NoVotes, "sync")
        /\ sync' = [sync EXCEPT ![n] = BlocksPhase(r.peer, BlockId(block), r.batch \ {block})]
  BY DEF LoadBlock
<1> HIDE DEF r
<1>3. SyncsOK'
  BY <1>1, <1>2, SyncRecordsOK, SyncTypes DEF TypeOK
<1>4. StatesOK' /\ ChainsOK' /\ NewBlocksOK'
  BY <1>1, <1>2, NoVotesOK, ProcessBlockTypes DEF TypeOK, StatesOK
<1> QED
  BY <1>3, <1>4 DEF LoadBlock, TypeOK, TasksOK, ProposesOK, VoteMsgsOK

LEMMA TypeSyncFails == ASSUME TypeOK, NEW n \in Node, SyncFails(n) PROVE TypeOK'
<1>1. SyncsOK'
  BY SyncRecordsOK, SyncTypes DEF SyncFails, TypeOK
<1> QED
  BY <1>1 DEF SyncFails, TypeOK, StatesOK, ChainsOK, TasksOK, ProposesOK, VoteMsgsOK, NewBlocksOK

LEMMA TypeGetHeightFails ==
  ASSUME TypeOK, NEW n \in Node, NEW task, GetHeightFails(n, task)
  PROVE  TypeOK'
<1>1. TasksOK'
  BY TasksTypes DEF GetHeightFails, TypeOK
<1> QED
  BY <1>1 DEF GetHeightFails, TypeOK, StatesOK, ChainsOK, SyncsOK, ProposesOK, VoteMsgsOK,
             NewBlocksOK

LEMMA TypeRestart == ASSUME TypeOK, NEW n \in Node, Restart(n) PROVE TypeOK'
<1>1. PICK height \in DOMAIN chain[n] :
        /\ dbHeight' = [dbHeight EXCEPT ![n] = height]
        /\ state' = [state EXCEPT ![n] = InitialState(chain[n][height])]
  BY DEF Restart
<1>2. height \in 0 .. MaxHeight /\ StateOK(InitialState(chain[n][height]))
  BY InitialStateOK DEF TypeOK, ChainsOK, RowsOK
<1>3. StatesOK'
  BY <1>1, <1>2 DEF TypeOK, StatesOK
<1>4. ChainsOK'
  BY <1>1, <1>2 DEF Restart, TypeOK, ChainsOK
<1>5. TasksOK'
  BY DEF Restart, TypeOK, TasksOK
<1>6. SyncsOK'
  BY SyncRecordsOK, SyncTypes DEF Restart, TypeOK
<1> QED
  BY <1>3, <1>4, <1>5, <1>6 DEF Restart, TypeOK, ProposesOK, VoteMsgsOK, NewBlocksOK

LEMMA TypeStutter == TypeOK /\ UNCHANGED vars => TypeOK'
BY DEF vars, TypeOK, StatesOK, ChainsOK, TasksOK, SyncsOK, ProposesOK, VoteMsgsOK, NewBlocksOK

(***************************************************************************)
(* Whatever messages are lost, repeated or late, whatever task is stale,   *)
(* whenever nodes restart or their databases fail: every state of a        *)
(* network is one TypeOK describes.                                        *)
(***************************************************************************)
THEOREM TypeCorrect == Spec => []TypeOK
<1>1. TypeOK /\ [Next]_vars => TypeOK'
  <2> SUFFICES ASSUME TypeOK, [Next]_vars PROVE TypeOK'
    OBVIOUS
  <2>1. CASE Tick
    BY <2>1, TypeTick
  <2>2. CASE \E n \in Node : Loop(n)
    BY <2>2, TypeLoop
  <2>3. CASE \E n \in Node : NextSync(n)
    BY <2>3, TypeNextSync
  <2>4. CASE \E n \in Node : RunTask(n)
    BY <2>4, TypeRunLoopTask, TypeStartSync, TypeSyncBlocksFromPeer, TypeGetHeightFails
       DEF RunTask
  <2>5. CASE \E n \in Node : Receive(n)
    BY <2>5, TypeOnReceivePropose, TypeOnReceiveVotes, TypeOnReceiveBlock DEF Receive
  <2>6. CASE \E n \in Node : SyncStep(n)
    BY <2>6, TypeFindUpdate, TypeRequestBlocks, TypeLoadBlock, TypeSyncFails DEF SyncStep
  <2>7. CASE \E n \in Node : Restart(n)
    BY <2>7, TypeRestart
  <2>8. CASE UNCHANGED vars
    BY <2>8, TypeStutter
  <2> QED
    BY <2>1, <2>2, <2>3, <2>4, <2>5, <2>6, <2>7, <2>8 DEF Next
<1> QED
  BY <1>1, TypeInit, PTL DEF Spec

-----------------------------------------------------------------------------
(***************************************************************************)
(* Consensus implements Ledger, and keeps the invariants this rests on.    *)
(*                                                                         *)
(* The inductive invariant says of every node that its last block is above *)
(* its database or the one of its last height, how the rows are related to *)
(* that height, that a pending block of the next height extends the last   *)
(* one (onReceiveVotes commits it unchecked), and that a rollback is       *)
(* measured from a height not below the last block (otherwise ForkLimit    *)
(* would not bound it).  When a block is committed its height is the next  *)
(* one for both, so that the last block cannot be above the database then. *)
(***************************************************************************)

(***************************************************************************)
(* PendingExtends, also for a state with votes but no pending block, which *)
(* cannot be told apart while Null is any constant at all.                 *)
(***************************************************************************)
HasPending(s) == s.pendingBlock # Null \/ s.pendingVotes.signatures # {}

PendingFits(s) ==
  HasPending(s) =>
    /\ s.pendingBlock.height > s.lastBlock.height
    /\ s.pendingBlock.height = s.lastBlock.height + 1 => Extends(s.pendingBlock, s.lastBlock)

(* No row is missing while none left behind is found by a restart *)
TableFits(n, rows, height) ==
  /\ LeftRowsStay => 0 .. height \subseteq DOMAIN rows
  /\ ~ FailsAt(n, "insertHistory") => DOMAIN rows = 0 .. height

NodeOK(n, s, rows, height, r) ==
  /\ s.lastBlock.height > height \/ AtDbHeight(s, rows, height)
  /\ n \notin DbFailNodes => s.lastBlock.height = height
  /\ TableFits(n, rows, height)
  /\ PendingFits(s)
  /\ r.phase = "common" => r.newest >= s.lastBlock.height

NodesOK == \A n \in Node : NodeOK(n, state[n], chain[n], dbHeight[n], sync[n])

(***************************************************************************)
(* What the step of a node does to the blocks that count: nothing, a block *)
(* that extends the last one is added, or fewer than ForkLimit are dropped. *)
(***************************************************************************)
Grows(n, block) ==
  /\ AtDbHeight(state[n], chain[n], dbHeight[n])
  /\ block.height = dbHeight[n] + 1
  /\ Extends(block, state[n].lastBlock)
  /\ CommitBlock(n, block)

Shrinks(n, height) == dbHeight[n] - height < ForkLimit /\ DeleteBlocks(n, height)

CountedStep(n) ==
  \/ UNCHANGED Counted
  \/ \E block : BlockOK(block) /\ Grows(n, block)
  \/ \E height \in 0 .. dbHeight[n] : Shrinks(n, height)

NodesStepOK(n) == NodesOK' /\ (LeftRowsStay => CountedStep(n))

-----------------------------------------------------------------------------
(* Steps of one node *)

(* The last block, the pending block and its votes are the same *)
Same(s, t) ==
  /\ t.lastBlock = s.lastBlock
  /\ t.pendingBlock = s.pendingBlock
  /\ t.pendingVotes = s.pendingVotes

(* What the changed copies of the state keep *)
LEMMA CopiesKeep ==
  ASSUME NEW s, StateOK(s), NEW x, NEW y
  PROVE  /\ Same(s, MarkBlockAsReceived(s, x))
         /\ Same(s, MarkProposeAsReceived(s, x))
         /\ Same(s, SetLastPropose(s, x, y))
         /\ Same(s, CollectingVotes(s))
         /\ SetPendingBlock(s, x).lastBlock = s.lastBlock
         /\ SetPendingBlock(s, x).pendingBlock = x
         /\ SetLastBlock(s, x).lastBlock = x
         /\ SetLastBlock(s, x).pendingBlock = s.pendingBlock
         /\ SetLastBlock(s, x).pendingVotes = s.pendingVotes
         /\ ProcessBlockCleanupEffect(s).lastBlock = s.lastBlock
         /\ ~ HasPending(ProcessBlockCleanupEffect(s))
<1>1. Same(s, MarkBlockAsReceived(s, x))
  BY DEF StateOK, MarkBlockAsReceived, Same
<1>2. Same(s, MarkProposeAsReceived(s, x))
  BY DEF StateOK, MarkProposeAsReceived, Same
<1>3. Same(s, SetLastPropose(s, x, y))
  BY DEF StateOK, SetLastPropose, Same
<1>4. Same(s, CollectingVotes(s))
  BY DEF StateOK, CollectingVotes, Same
<1>5. /\ SetPendingBlock(s, x).lastBlock = s.lastBlock
      /\ SetPendingBlock(s, x).pendingBlock = x
  BY DEF StateOK, SetPendingBlock
<1>6. /\ SetLastBlock(s, x).lastBlock = x
      /\ SetLastBlock(s, x).pendingBlock = s.pendingBlock
      /\ SetLastBlock(s, x).pendingVotes = s.pendingVotes
  BY DEF StateOK, SetLastBlock
<1>7. /\ ProcessBlockCleanupEffect(s).lastBlock = s.lastBlock
      /\ ~ HasPending(ProcessBlockCleanupEffect(s))
  BY NoVotesEmpty DEF StateOK, ProcessBlockCleanupEffect, ProcessBlockCleanup, ClearState, HasPending
<1> QED
  BY <1>1, <1>2, <1>3, <1>4, <1>5, <1>6, <1>7

(* Votes are added to those of a pending block only *)
LEMMA AddPendingVotesKeeps ==
  ASSUME NEW s, StateOK(s), NEW votes, VotesOK(votes)
  PROVE  HasPending(AddPendingVotes(s, votes)) => HasPending(s)
<1>1. CASE FreshSignatures(s, votes) = {}
  BY <1>1 DEF AddPendingVotes
<1>2. CASE FreshSignatures(s, votes) # {}
  <2>1. s.pendingBlock # Null
    BY <1>2 DEF FreshSignatures
  <2> QED
    BY <2>1 DEF HasPending
<1> QED
  BY <1>1, <1>2

(* A step that leaves one node consistent and the others alone *)
LEMMA OneNode ==
  ASSUME NodesOK, NEW n \in Node,
         NodeOK(n, state'[n], chain'[n], dbHeight'[n], sync'[n]),
         \A m \in Node \ {n} : /\ state'[m] = state[m] /\ chain'[m] = chain[m]
                               /\ dbHeight'[m] = dbHeight[m] /\ sync'[m] = sync[m]
  PROVE  NodesOK'
<1>1. \A m \in Node : NodeOK(m, state'[m], chain'[m], dbHeight'[m], sync'[m])
  BY DEF NodesOK
<1> QED
  BY <1>1 DEF NodesOK, NodeOK, AtDbHeight, TableFits, LeftRowsStay, FailsAt

LEMMA Updates ==
  ASSUME TypeOK, NEW n \in Node, NEW x
  PROVE  /\ state' = [state EXCEPT ![n] = x] =>
              state'[n] = x /\ \A m \in Node \ {n} : state'[m] = state[m]
         /\ chain' = [chain EXCEPT ![n] = x] =>
              chain'[n] = x /\ \A m \in Node \ {n} : chain'[m] = chain[m]
         /\ dbHeight' = [dbHeight EXCEPT ![n] = x] =>
              dbHeight'[n] = x /\ \A m \in Node \ {n} : dbHeight'[m] = dbHeight[m]
         /\ sync' = [sync EXCEPT ![n] = x] =>
              sync'[n] = x /\ \A m \in Node \ {n} : sync'[m] = sync[m]
BY DEF TypeOK, StatesOK, ChainsOK, SyncsOK

(* The blocks that count are the same when heights and their rows are *)
LEMMA SameCounted ==
  ASSUME UNCHANGED dbHeight,
         \A m \in Node : \A h \in 0 .. dbHeight[m] : chain'[m][h] = chain[m][h],
         TypeOK
  PROVE  UNCHANGED Counted
<1>1. ASSUME NEW m \in Node
      PROVE  [i \in 1 .. dbHeight[m] + 1 |-> chain'[m][i - 1]]
               = [i \in 1 .. dbHeight[m] + 1 |-> chain[m][i - 1]]
  <2>1. dbHeight[m] \in Nat
    BY DEF TypeOK, ChainsOK
  <2>2. \A i \in 1 .. dbHeight[m] + 1 : i - 1 \in 0 .. dbHeight[m]
    BY <2>1
  <2>3. \A i \in 1 .. dbHeight[m] + 1 : chain'[m][i - 1] = chain[m][i - 1]
    BY <2>2
  <2> QED
    BY <2>3
<1> QED
  BY <1>1 DEF Counted

LEMMA LastHeight ==
  ASSUME TypeOK, NodesOK, NEW n \in Node
  PROVE  /\ BlockOK(state[n].lastBlock) /\ state[n].lastBlock.height \in Nat
         /\ dbHeight[n] \in Nat /\ dbHeight[n] <= state[n].lastBlock.height
         /\ state[n].lastBlock.height = dbHeight[n] =>
              AtDbHeight(state[n], chain[n], dbHeight[n])
<1>1. BlockOK(state[n].lastBlock) /\ state[n].lastBlock.height \in Nat /\ dbHeight[n] \in Nat
  <2>1. BlockOK(state[n].lastBlock)
    BY DEF TypeOK, StatesOK, StateOK
  <2>2. dbHeight[n] \in Nat
    BY DEF TypeOK, ChainsOK
  <2> QED
    BY <2>1, <2>2 DEF BlockOK
<1>2. state[n].lastBlock.height > dbHeight[n] \/ AtDbHeight(state[n], chain[n], dbHeight[n])
  BY DEF NodesOK, NodeOK
<1> QED
  BY <1>1, <1>2 DEF AtDbHeight

(***************************************************************************)
(* A block that passes is of the height after both the last block and the  *)
(* database, and extends the last block: a foreign block because it was    *)
(* verified, an own block because it was made for the last one.            *)
(***************************************************************************)
LEMMA PassingExtends ==
  ASSUME TypeOK, NodesOK, NEW n \in Node,
         NEW s, s.lastBlock = state[n].lastBlock,
         NEW block, BlockOK(block), NEW votes, NEW origin,
         origin = "local" =>
           /\ block.height > s.lastBlock.height
           /\ block.height = s.lastBlock.height + 1 => Extends(block, s.lastBlock),
         BlockPasses(n, s, block, votes, origin)
  PROVE  /\ block.height = dbHeight[n] + 1 /\ block.height \notin DOMAIN chain[n]
         /\ Extends(block, s.lastBlock) /\ AtDbHeight(state[n], chain[n], dbHeight[n])
<1>1. /\ block.height = dbHeight[n] + 1 /\ block.height \notin DOMAIN chain[n]
      /\ origin # "local" => VerifyBlock(s, block, votes, origin)
  BY DEF BlockPasses
<1>2. /\ BlockOK(s.lastBlock) /\ s.lastBlock.height \in Nat
      /\ dbHeight[n] \in Nat /\ dbHeight[n] <= s.lastBlock.height
      /\ s.lastBlock.height = dbHeight[n] => AtDbHeight(state[n], chain[n], dbHeight[n])
  BY LastHeight
<1>3. CASE origin = "local"
  <2>1. block.height > s.lastBlock.height
    BY <1>3
  <2>2. s.lastBlock.height = dbHeight[n]
    BY <1>1, <1>2, <2>1
  <2> QED
    BY <1>1, <1>2, <1>3, <2>2
<1>4. CASE origin # "local"
  <2>1. block.prevBlockId = BlockId(s.lastBlock) /\ block.slot > s.lastBlock.slot
    BY <1>1, <1>4 DEF VerifyBlock, VerifyBlockSlot
  <2>2. HeightOfId(block.prevBlockId) = block.height - 1
    BY <1>1, <1>2 DEF BlockOK
  <2>3. s.lastBlock.height = dbHeight[n]
    BY <1>1, <1>2, <2>1, <2>2 DEF HeightOfId, BlockId
  <2> QED
    BY <1>1, <1>2, <2>1, <2>3 DEF Extends
<1> QED
  BY <1>3, <1>4

(***************************************************************************)
(* processBlock appends a block that extends the last one, or leaves a row *)
(* above the blocks that count, or leaves the table alone.                 *)
(***************************************************************************)
LEMMA ProcessBlockStep ==
  ASSUME TypeOK, NodesOK, NEW n \in Node,
         NEW s, StateOK(s), s.lastBlock = state[n].lastBlock,
         NEW block, BlockOK(block), NEW votes, NEW origin,
         origin = "local" =>
           /\ block.height > s.lastBlock.height
           /\ block.height = s.lastBlock.height + 1 => Extends(block, s.lastBlock),
         sync'[n].phase # "common", \A m \in Node \ {n} : sync'[m] = sync[m],
         ProcessBlock(n, s, block, votes, origin)
  PROVE  NodesStepOK(n)
<1> DEFINE kept == ProcessBlockCleanupEffect(s)
           next == ProcessBlockCleanupEffect(SetLastBlock(s, block))
           rows == WithRow(chain[n], block.height, block)
<1>1. /\ kept.lastBlock = s.lastBlock /\ ~ HasPending(kept)
      /\ next.lastBlock = block /\ ~ HasPending(next)
  <2>1. StateOK(SetLastBlock(s, block))
    BY CopiesOK
  <2> QED
    BY <2>1, CopiesKeep
<1> HIDE DEF kept, next
<1>2. /\ RowsOK(chain[n]) /\ dbHeight[n] \in Nat
      /\ NodeOK(n, state[n], chain[n], dbHeight[n], sync[n])
  BY DEF TypeOK, ChainsOK, NodesOK
<1>3. /\ RowsOK(rows) /\ DOMAIN rows = DOMAIN chain[n] \cup {block.height}
      /\ rows[block.height] = block
      /\ \A h \in DOMAIN chain[n] \ {block.height} : rows[h] = chain[n][h]
  <2>1. RowsOK(chain[n])
    BY <1>2
  <2>2. RowsOK(rows)
    BY <2>1, WithRowOK
  <2>3. DOMAIN rows = DOMAIN chain[n] \cup {block.height}
    BY <2>1, WithRowOK
  <2>4. /\ rows[block.height] = block
        /\ \A h \in DOMAIN chain[n] \ {block.height} : rows[h] = chain[n][h]
    BY DEF WithRow, WithRows
  <2> QED
    BY <2>2, <2>3, <2>4
<1>4. CASE /\ BlockPasses(n, s, block, votes, origin)
           /\ CommitBlock(n, block)
           /\ state' = [state EXCEPT ![n] = next]
  <2>1. /\ block.height = dbHeight[n] + 1
        /\ Extends(block, s.lastBlock) /\ AtDbHeight(state[n], chain[n], dbHeight[n])
    BY <1>4, PassingExtends
  <2>2. /\ state'[n] = next /\ \A m \in Node \ {n} : state'[m] = state[m]
        /\ chain'[n] = rows /\ \A m \in Node \ {n} : chain'[m] = chain[m]
        /\ dbHeight'[n] = dbHeight[n] + 1 /\ \A m \in Node \ {n} : dbHeight'[m] = dbHeight[m]
    BY <1>4, Updates DEF CommitBlock
  <2> HIDE DEF rows
  <2>3. TableFits(n, rows, dbHeight[n] + 1)
    <3>1. TableFits(n, chain[n], dbHeight[n])
      BY <1>2 DEF NodeOK
    <3>2. 0 .. dbHeight[n] + 1 = 0 .. dbHeight[n] \cup {dbHeight[n] + 1}
      BY <1>2
    <3> QED
      BY <1>3, <2>1, <3>1, <3>2 DEF TableFits
  <2>4. AtDbHeight(next, rows, dbHeight[n] + 1)
    BY <1>1, <1>3, <2>1 DEF AtDbHeight
  <2>5. NodeOK(n, next, rows, dbHeight[n] + 1, sync'[n])
    BY <1>1, <2>3, <2>4 DEF NodeOK, PendingFits, AtDbHeight
  <2>6. NodesOK'
    BY <2>2, <2>5, OneNode
  <2>7. Grows(n, block)
    BY <1>4, <2>1 DEF Grows
  <2> QED
    BY <2>6, <2>7 DEF NodesStepOK, CountedStep
<1>5. CASE /\ BlockPasses(n, s, block, votes, origin) /\ FailsAt(n, "insertHistory")
           /\ AppendBlockHalf(n, block)
           /\ state' = [state EXCEPT ![n] = kept]
  <2>1. /\ block.height = dbHeight[n] + 1 /\ block.height \notin DOMAIN chain[n]
        /\ AtDbHeight(state[n], chain[n], dbHeight[n])
    BY <1>5, PassingExtends
  <2>2. /\ state'[n] = kept /\ \A m \in Node \ {n} : state'[m] = state[m]
        /\ chain'[n] = rows /\ \A m \in Node \ {n} : chain'[m] = chain[m]
        /\ UNCHANGED dbHeight
    BY <1>5, Updates DEF AppendBlockHalf
  <2> HIDE DEF rows
  <2>3. AtDbHeight(kept, rows, dbHeight[n])
    BY <1>1, <1>2, <1>3, <2>1 DEF AtDbHeight
  <2>4. TableFits(n, rows, dbHeight[n])
    <3>1. LeftRowsStay => 0 .. dbHeight[n] \subseteq DOMAIN chain[n]
      BY <1>2 DEF NodeOK, TableFits
    <3> QED
      BY <1>3, <1>5, <3>1 DEF TableFits
  <2>5. NodeOK(n, kept, rows, dbHeight[n], sync'[n])
    BY <1>1, <1>2, <2>3, <2>4 DEF NodeOK, PendingFits
  <2>6. NodesOK'
    BY <2>2, <2>5, OneNode
  <2>7. LeftRowsStay => UNCHANGED Counted
    <3> SUFFICES ASSUME LeftRowsStay PROVE UNCHANGED Counted
      OBVIOUS
    <3>1. 0 .. dbHeight[n] \subseteq DOMAIN chain[n]
      BY <1>2 DEF NodeOK, TableFits
    <3>2. \A h \in 0 .. dbHeight[n] : chain'[n][h] = chain[n][h]
      BY <1>2, <1>3, <2>1, <2>2, <3>1
    <3>3. \A m \in Node : \A h \in 0 .. dbHeight[m] : chain'[m][h] = chain[m][h]
      BY <2>2, <3>2
    <3> QED
      BY <2>2, <3>3, SameCounted
  <2> QED
    BY <2>6, <2>7 DEF NodesStepOK, CountedStep
<1>6. CASE state' = [state EXCEPT ![n] = kept] /\ UNCHANGED db
  <2>1. state'[n] = kept /\ \A m \in Node \ {n} : state'[m] = state[m]
    BY <1>6, Updates
  <2>2. NodeOK(n, kept, chain[n], dbHeight[n], sync'[n])
    BY <1>1, <1>2 DEF NodeOK, PendingFits, AtDbHeight
  <2>3. NodesOK'
    BY <1>6, <2>1, <2>2, OneNode
  <2> QED
    BY <1>6, <2>3 DEF NodesStepOK, CountedStep, Counted
<1> QED
  BY <1>4, <1>5, <1>6 DEF ProcessBlock, kept, next

(* A step that changes neither a last block nor a pending block *)
LEMMA OtherFields ==
  ASSUME TypeOK, NodesOK, NEW n \in Node, NEW s,
         s.lastBlock = state[n].lastBlock,
         s.pendingBlock = state[n].pendingBlock,
         HasPending(s) => HasPending(state[n]),
         state' = [state EXCEPT ![n] = s], UNCHANGED <<db, sync>>
  PROVE  NodesStepOK(n)
<1>1. state'[n] = s /\ \A m \in Node \ {n} : state'[m] = state[m]
  BY Updates
<1>2. NodeOK(n, s, chain[n], dbHeight[n], sync[n])
  BY DEF NodesOK, NodeOK, PendingFits, AtDbHeight
<1>3. NodesOK'
  BY <1>1, <1>2, OneNode
<1> QED
  BY <1>3 DEF NodesStepOK, CountedStep, Counted

(* A step that changes at most the sync record of a node *)
LEMMA SyncOnly ==
  ASSUME TypeOK, NodesOK, NEW n \in Node, NEW r,
         r.phase = "common" => r.newest >= state[n].lastBlock.height,
         sync' = [sync EXCEPT ![n] = r], UNCHANGED <<state, db>>
  PROVE  NodesStepOK(n)
<1>1. sync'[n] = r /\ \A m \in Node \ {n} : sync'[m] = sync[m]
  BY Updates
<1>2. NodeOK(n, state[n], chain[n], dbHeight[n], r)
  BY DEF NodesOK, NodeOK
<1>3. NodesOK'
  BY <1>1, <1>2, OneNode
<1> QED
  BY <1>3 DEF NodesStepOK, CountedStep, Counted

LEMMA Frame ==
  ASSUME NodesOK, NEW n \in Node, UNCHANGED <<state, db, sync>>
  PROVE  NodesStepOK(n)
BY DEF NodesOK, NodesStepOK, CountedStep, Counted, NodeOK, AtDbHeight, TableFits, LeftRowsStay,
       FailsAt

LEMMA NotSyncing ==
  ASSUME NEW n \in Node, ~ IsSyncing(n), UNCHANGED sync
  PROVE  sync'[n].phase # "common" /\ \A m \in Node \ {n} : sync'[m] = sync[m]
BY DEF IsSyncing

-----------------------------------------------------------------------------
(* The actions *)

LEMMA RunLoopTaskStep ==
  ASSUME TypeOK, NodesOK, NEW n \in Node, NEW task, RunLoopTask(n, task)
  PROVE  NodesStepOK(n)
<1>1. UNCHANGED sync /\ ~ IsSyncing(n)
  BY DEF RunLoopTask, Dequeue
<1>2. CASE UNCHANGED <<state, db, proposes, newBlocks, signed>>
  BY <1>1, <1>2, Frame
<1>3. CASE CanForge(n, task.slot)
  <2> DEFINE Block(payload) ==
               GenerateBlockShort(task.key, task.slot, state[n].lastBlock, payload)
             LocalVotes(b) == CreateVotes(GetActiveDelegateKeypairs(n, b.height),
                                          b.height, BlockId(b))
  <2>1. PICK payload \in Payload :
          \/ ForgeBlock(n, Block(payload), LocalVotes(Block(payload)))
          \/ ProposeBlock(n, Block(payload), LocalVotes(Block(payload)))
    BY <1>3 DEF RunLoopTask
  <2> DEFINE block == Block(payload)
             localVotes == LocalVotes(block)
  <2>2. task.slot \in 0 .. SlotOf(MaxNow) /\ state[n].lastBlock.height < MaxHeight
        /\ task.slot > state[n].lastBlock.slot
    <3>1. task.slot \in 0 .. SlotOf(MaxNow)
      BY <1>3, SlotMonotone DEF CanForge, TypeOK
    <3>2. state[n].lastBlock.slot \in Int
      <4>1. BlockOK(state[n].lastBlock)
        BY LastHeight
      <4> QED
        BY <4>1 DEF BlockOK
    <3> QED
      BY <1>3, <3>1, <3>2 DEF CanForge
  <2>3. StateOK(state[n]) /\ BlockOK(state[n].lastBlock)
    BY DEF TypeOK, StatesOK, StateOK
  <2>4. task.key \in Delegate
    <3>1. TaskOK(task)
      BY TasksTypes DEF RunLoopTask, TypeOK
    <3> QED
      BY <3>1 DEF RunLoopTask, TaskOK, StartSyncTask, SyncFromPeerTask
  <2>5. BlockOK(block)
    BY <2>2, <2>3, <2>4, ForgedBlockOK
  <2>6. /\ Extends(block, state[n].lastBlock)
        /\ block.height = state[n].lastBlock.height + 1
    BY <2>2 DEF Extends, GenerateBlockShort
  <2> HIDE DEF block, localVotes
  <2>7. CASE ForgeBlock(n, block, localVotes)
    <3>1. CASE ProcessBlock(n, state[n], block, localVotes, "local")
      <4>1. block.height > state[n].lastBlock.height
        BY <2>3, <2>6 DEF BlockOK
      <4> QED
        BY <1>1, <2>3, <2>5, <2>6, <3>1, <4>1, NotSyncing, ProcessBlockStep
    <3>2. CASE UNCHANGED <<state, db, newBlocks>>
      BY <1>1, <3>2, Frame
    <3> QED
      BY <2>7, <3>1, <3>2 DEF ForgeBlock
  <2>8. CASE ProposeBlock(n, block, localVotes)
    <3> DEFINE propose == ManageProposeCreation(n, block)
               posed   == SetPendingBlock(state[n], block)
               pending == AddPendingVotes(posed, localVotes)
               marked  == MarkProposeAsReceived(pending, propose)
               new     == CollectingVotes(marked)
    <3>1. VotesOK(localVotes)
      BY KeypairsOK, CreateVotesOK DEF localVotes
    <3>2. StateOK(posed) /\ posed.lastBlock = state[n].lastBlock /\ posed.pendingBlock = block
      <4>1. StateOK(posed)
        BY <2>3, <2>5, CopiesOK
      <4> QED
        BY <2>3, <4>1, CopiesKeep
    <3> HIDE DEF posed
    <3>3. /\ StateOK(pending) /\ pending.lastBlock = state[n].lastBlock
          /\ pending.pendingBlock = block
      BY <3>1, <3>2, AddPendingVotesOK
    <3> HIDE DEF pending
    <3>4. /\ StateOK(marked) /\ marked.lastBlock = state[n].lastBlock
          /\ marked.pendingBlock = block
      BY <3>3, CopiesOK, CopiesKeep DEF Same
    <3> HIDE DEF marked
    <3>5. new.lastBlock = state[n].lastBlock /\ new.pendingBlock = block
      BY <3>4, CopiesKeep DEF Same
    <3>6. state' = [state EXCEPT ![n] = new] /\ UNCHANGED db
      BY <2>8 DEF ProposeBlock, marked, pending, posed
    <3> HIDE DEF new
    <3>7. state'[n] = new /\ \A m \in Node \ {n} : state'[m] = state[m]
      BY <3>6, Updates
    <3>8. PendingFits(new)
      <4>1. state[n].lastBlock.height \in Int
        BY <2>3 DEF BlockOK
      <4> QED
        BY <2>6, <3>5, <4>1 DEF PendingFits
    <3>9. NodeOK(n, new, chain[n], dbHeight[n], sync[n])
      BY <3>5, <3>8 DEF NodesOK, NodeOK, AtDbHeight
    <3>10. NodesOK'
      BY <1>1, <3>6, <3>7, <3>9, OneNode
    <3> QED
      BY <3>6, <3>10 DEF NodesStepOK, CountedStep, Counted
  <2> QED
    BY <2>1, <2>7, <2>8 DEF block, localVotes
<1> QED
  BY <1>2, <1>3 DEF RunLoopTask

LEMMA OnReceiveProposeStep ==
  ASSUME TypeOK, NodesOK, NEW n \in Node, NEW p, OnReceivePropose(n, p)
  PROVE  NodesStepOK(n)
<1>1. UNCHANGED <<db, sync>>
  BY DEF OnReceivePropose
<1>2. CASE VoteFor(n, p)
  <2> DEFINE s == MarkProposeAsReceived(state[n], p)
  <2>1. StateOK(s) /\ Same(state[n], s)
    BY CopiesOK, CopiesKeep DEF TypeOK, StatesOK
  <2>2. state' = [state EXCEPT ![n] = s] \/ state' = [state EXCEPT ![n] = SetLastPropose(s, now, p)]
    BY <1>2 DEF VoteFor
  <2> HIDE DEF s
  <2>3. Same(state[n], SetLastPropose(s, now, p))
    BY <2>1, CopiesKeep DEF Same
  <2>4. CASE state' = [state EXCEPT ![n] = s]
    BY <1>1, <2>1, <2>4, OtherFields DEF Same, HasPending
  <2>5. CASE state' = [state EXCEPT ![n] = SetLastPropose(s, now, p)]
    BY <1>1, <2>3, <2>5, OtherFields DEF Same, HasPending
  <2> QED
    BY <2>2, <2>4, <2>5
<1>3. CASE UNCHANGED state
  BY <1>1, <1>3, Frame
<1> QED
  BY <1>2, <1>3 DEF OnReceivePropose

LEMMA OnReceiveVotesStep ==
  ASSUME TypeOK, NodesOK, NEW n \in Node, NEW m, OnReceiveVotes(n, m)
  PROVE  NodesStepOK(n)
<1> DEFINE s == AddPendingVotes(state[n], m.votes)
<1>1. /\ StateOK(s) /\ s.lastBlock = state[n].lastBlock /\ s.pendingBlock = state[n].pendingBlock
      /\ HasPending(s) => HasPending(state[n])
  BY AddPendingVotesOK, AddPendingVotesKeeps DEF OnReceiveVotes, TypeOK, StatesOK, VoteMsgsOK
<1>2. UNCHANGED sync /\ ~ IsSyncing(n)
  BY DEF OnReceiveVotes
<1>3. CASE HasEnoughVotes(s.pendingVotes)
  <2>1. ProcessBlock(n, s, s.pendingBlock, s.pendingVotes, "local")
    BY <1>3 DEF OnReceiveVotes
  <2> HIDE DEF s
  <2>2. BlockOK(s.pendingBlock) /\ HasPending(s)
    BY <1>1, <1>3, EnoughVotes DEF StateOK, HasPending
  <2>3. /\ s.pendingBlock.height > s.lastBlock.height
        /\ s.pendingBlock.height = s.lastBlock.height + 1 => Extends(s.pendingBlock, s.lastBlock)
    <3>1. PendingFits(state[n])
      BY DEF NodesOK, NodeOK
    <3> QED
      BY <1>1, <2>2, <3>1 DEF PendingFits
  <2> QED
    BY <1>1, <1>2, <2>1, <2>2, <2>3, NotSyncing, ProcessBlockStep
<1>4. CASE ~ HasEnoughVotes(s.pendingVotes)
  <2>1. state' = [state EXCEPT ![n] = s] /\ UNCHANGED db
    BY <1>4 DEF OnReceiveVotes
  <2> HIDE DEF s
  <2> QED
    BY <1>1, <1>2, <2>1, OtherFields
<1> QED
  BY <1>3, <1>4

LEMMA OnReceiveBlockStep ==
  ASSUME TypeOK, NodesOK, NEW n \in Node, NEW m, OnReceiveBlock(n, m)
  PROVE  NodesStepOK(n)
<1> DEFINE s == MarkBlockAsReceived(state[n], m.block)
<1>1. UNCHANGED sync /\ ~ IsSyncing(n) /\ BlockOK(m.block) /\ StateOK(state[n])
  BY DEF OnReceiveBlock, TypeOK, NewBlocksOK, StatesOK
<1>2. StateOK(s) /\ Same(state[n], s)
  BY <1>1, CopiesOK, CopiesKeep
<1> HIDE DEF s
<1>3. CASE ProcessBlock(n, s, m.block, m.votes, "broadcast")
  <2>1. sync'[n].phase # "common" /\ \A k \in Node \ {n} : sync'[k] = sync[k]
    BY <1>1, NotSyncing
  <2> QED
    BY <1>1, <1>2, <1>3, <2>1, ProcessBlockStep DEF Same
<1>4. CASE state' = [state EXCEPT ![n] = s] /\ UNCHANGED <<db, newBlocks>>
  BY <1>1, <1>2, <1>4, OtherFields DEF Same, HasPending
<1>5. CASE UNCHANGED <<state, db, newBlocks>>
  BY <1>1, <1>5, Frame
<1> QED
  BY <1>3, <1>4, <1>5 DEF OnReceiveBlock, s

LEMMA StartSyncStep ==
  ASSUME TypeOK, NodesOK, NEW n \in Node, NEW peer \in Node, NEW task, StartSync(n, task, peer)
  PROVE  NodesStepOK(n)
<1> DEFINE newest == IF state[n].lastBlock.height > task.lastBlock.height
                     THEN state[n].lastBlock.height
                     ELSE task.lastBlock.height
           r == IF task.lastBlock.height >= state[peer].lastBlock.height
                THEN Idle
                ELSE IF BlockId(task.lastBlock) = BlockId(Genesis)
                     THEN BlocksPhase(peer, BlockId(Genesis), {})
                     ELSE CommonPhase(peer, newest)
<1>1. newest >= state[n].lastBlock.height
  <2>1. task.lastBlock.height \in Int
    <3>1. TaskOK(task)
      BY TasksTypes DEF StartSync, TypeOK
    <3> QED
      BY <3>1 DEF StartSync, TaskOK, BlockOK, LoopTask, SyncFromPeerTask
  <2>2. state[n].lastBlock.height \in Int
    <3>1. BlockOK(state[n].lastBlock)
      BY LastHeight
    <3> QED
      BY <3>1 DEF BlockOK
  <2> QED
    BY <2>1, <2>2
<1> HIDE DEF newest
<1>2. r.phase = "common" => r.newest >= state[n].lastBlock.height
  BY <1>1 DEF Idle, BlocksPhase, CommonPhase
<1>3. sync' = [sync EXCEPT ![n] = r] /\ UNCHANGED <<state, db>>
  BY DEF StartSync, newest
<1> HIDE DEF r
<1> QED
  BY <1>2, <1>3, SyncOnly

LEMMA SyncBlocksFromPeerStep ==
  ASSUME TypeOK, NodesOK, NEW n \in Node, NEW task, SyncBlocksFromPeer(n, task)
  PROVE  NodesStepOK(n)
<1> DEFINE r == BlocksPhase(task.peer, BlockId(state[n].lastBlock), {})
<1>1. r.phase # "common"
  BY DEF BlocksPhase
<1>2. sync' = [sync EXCEPT ![n] = r] \/ UNCHANGED sync
  BY DEF SyncBlocksFromPeer
<1>3. UNCHANGED <<state, db>>
  BY DEF SyncBlocksFromPeer
<1> HIDE DEF r
<1> QED
  BY <1>1, <1>2, <1>3, SyncOnly, Frame

(***************************************************************************)
(* Blocks are deleted down to a height, and lastBlock is the block of that *)
(* height, or stays what it was above it.                                  *)
(***************************************************************************)
LEMMA DeleteStep ==
  ASSUME TypeOK, NodesOK, NEW n \in Node, NEW height \in 0 .. dbHeight[n],
         dbHeight[n] - height < ForkLimit, DeleteBlocks(n, height),
         NEW s, state' = [state EXCEPT ![n] = s],
         s.pendingBlock = state[n].pendingBlock, s.pendingVotes = state[n].pendingVotes,
         \/ s.lastBlock = state[n].lastBlock
         \/ s.lastBlock = chain[n][height] /\ height \in DOMAIN chain[n],
         n \notin DbFailNodes => s.lastBlock.height = height,
         NEW r, r.phase # "common", sync' = [sync EXCEPT ![n] = r]
  PROVE  NodesStepOK(n)
<1> DEFINE rows == [h \in DOMAIN chain[n] \ (height + 1 .. dbHeight[n]) |-> chain[n][h]]
<1>1. /\ NodeOK(n, state[n], chain[n], dbHeight[n], sync[n])
      /\ RowsOK(chain[n]) /\ StateOK(state[n])
  BY DEF NodesOK, TypeOK, ChainsOK, StatesOK
<1>2. /\ state[n].lastBlock.height \in Nat /\ dbHeight[n] \in Nat
      /\ dbHeight[n] <= state[n].lastBlock.height
      /\ state[n].lastBlock.height = dbHeight[n] => AtDbHeight(state[n], chain[n], dbHeight[n])
  BY LastHeight
<1>3. /\ state'[n] = s /\ \A m \in Node \ {n} : state'[m] = state[m]
      /\ chain'[n] = rows /\ \A m \in Node \ {n} : chain'[m] = chain[m]
      /\ dbHeight'[n] = height /\ \A m \in Node \ {n} : dbHeight'[m] = dbHeight[m]
      /\ sync'[n] = r /\ \A m \in Node \ {n} : sync'[m] = sync[m]
  <2>1. chain' = [chain EXCEPT ![n] = rows] /\ dbHeight' = [dbHeight EXCEPT ![n] = height]
    BY DEF DeleteBlocks
  <2> HIDE DEF rows
  <2>2. state'[n] = s /\ \A m \in Node \ {n} : state'[m] = state[m]
    BY Updates
  <2>3. chain'[n] = rows /\ \A m \in Node \ {n} : chain'[m] = chain[m]
    BY <2>1, Updates
  <2>4. dbHeight'[n] = height /\ \A m \in Node \ {n} : dbHeight'[m] = dbHeight[m]
    BY <2>1, Updates
  <2>5. sync'[n] = r /\ \A m \in Node \ {n} : sync'[m] = sync[m]
    BY Updates
  <2> QED
    BY <2>2, <2>3, <2>4, <2>5
<1>4. TableFits(n, rows, height)
  <2>1. TableFits(n, chain[n], dbHeight[n])
    BY <1>1 DEF NodeOK
  <2>2. 0 .. height = 0 .. dbHeight[n] \ (height + 1 .. dbHeight[n])
    BY <1>2
  <2> QED
    BY <2>1, <2>2 DEF TableFits
<1>5. s.lastBlock.height > height \/ AtDbHeight(s, rows, height)
  <2>1. CASE s.lastBlock = chain[n][height] /\ height \in DOMAIN chain[n]
    BY <1>1, <1>2, <2>1 DEF AtDbHeight, RowsOK
  <2>2. CASE s.lastBlock = state[n].lastBlock /\ state[n].lastBlock.height > height
    BY <2>2
  <2>3. CASE s.lastBlock = state[n].lastBlock /\ ~ (state[n].lastBlock.height > height)
    <3>1. state[n].lastBlock.height = dbHeight[n] /\ height = dbHeight[n]
      BY <1>2, <2>3
    <3> QED
      BY <1>2, <2>3, <3>1 DEF AtDbHeight
  <2> QED
    BY <2>1, <2>2, <2>3
<1>6. PendingFits(s)
  <2>1. PendingFits(state[n])
    BY <1>1 DEF NodeOK
  <2>2. CASE s.lastBlock = state[n].lastBlock
    BY <2>1, <2>2 DEF PendingFits, HasPending
  <2>3. CASE s.lastBlock # state[n].lastBlock
    <3>1. s.lastBlock = chain[n][height] /\ height \in DOMAIN chain[n]
      BY <2>3
    <3>2. s.lastBlock.height = height
      BY <1>1, <3>1 DEF RowsOK
    <3>3. height < state[n].lastBlock.height
      <4>1. height = state[n].lastBlock.height => s.lastBlock = state[n].lastBlock
        BY <1>2, <3>1 DEF AtDbHeight
      <4> QED
        BY <1>2, <2>3, <4>1
    <3> SUFFICES ASSUME HasPending(s)
                 PROVE  /\ s.pendingBlock.height > s.lastBlock.height
                        /\ s.pendingBlock.height # s.lastBlock.height + 1
      BY DEF PendingFits
    <3>4. HasPending(state[n])
      BY DEF HasPending
    <3>5. state[n].pendingBlock.height > state[n].lastBlock.height
      BY <2>1, <3>4 DEF PendingFits
    <3>6. s.pendingBlock.height = state[n].pendingBlock.height
          /\ state[n].pendingBlock.height \in Nat
      <4>1. BlockOK(state[n].pendingBlock)
        BY <1>1, <3>4 DEF StateOK, HasPending
      <4> QED
        BY <4>1 DEF BlockOK
    <3> QED
      BY <1>2, <3>2, <3>3, <3>5, <3>6
  <2> QED
    BY <2>2, <2>3
<1> HIDE DEF rows
<1>7. NodeOK(n, s, rows, height, r)
  BY <1>4, <1>5, <1>6 DEF NodeOK
<1>8. NodesOK'
  BY <1>3, <1>7, OneNode
<1>9. CountedStep(n)
  BY DEF CountedStep, Shrinks
<1> QED
  BY <1>8, <1>9 DEF NodesStepOK

(* A node whose database never fails meets no rollback that throws *)
LEMMA NeverThrows ==
  ASSUME TypeOK, NodesOK, NEW n \in Node, n \notin DbFailNodes, NEW target \in DOMAIN chain[n]
  PROVE  RollbackThrowsAt(n, target) = {}
<1>1. DOMAIN chain[n] = 0 .. dbHeight[n] /\ dbHeight[n] \in Nat
  BY DEF NodesOK, NodeOK, TableFits, FailsAt, TypeOK, ChainsOK
<1>2. target \in 0 .. dbHeight[n]
  BY <1>1
<1>3. RollbackHeight(dbHeight[n], target) \in target .. dbHeight[n]
  BY <1>1, <1>2, RollbackKeeps
<1>4. CanRollback(n, target)
  BY <1>1, <1>2, <1>3 DEF CanRollback
<1> QED
  BY <1>1, <1>2, <1>4 DEF RollbackThrowsAt, FailsAt

(***************************************************************************)
(* A rollback: newest is at least the height of the last block, so fewer   *)
(* than ForkLimit blocks are dropped, and none if the last one is common.  *)
(***************************************************************************)
LEMMA FindUpdateStep ==
  ASSUME TypeOK, NodesOK, NEW n \in Node, FindUpdate(n)
  PROVE  NodesStepOK(n)
<1> DEFINE peer   == sync[n].peer
           newest == sync[n].newest
           common == CommonHeights(chain[n], chain[peer], newest)
<1>1. newest \in Int /\ newest >= state[n].lastBlock.height
  <2>1. sync[n].phase = "common"
    BY DEF FindUpdate
  <2>2. newest \in Int
    BY <2>1 DEF TypeOK, SyncsOK, SyncOK, Idle, BlocksPhase
  <2> QED
    BY <2>1, <2>2 DEF NodesOK, NodeOK
<1>2. /\ state[n].lastBlock.height \in Nat /\ dbHeight[n] \in Nat
      /\ dbHeight[n] <= state[n].lastBlock.height
      /\ state[n].lastBlock.height = dbHeight[n] => AtDbHeight(state[n], chain[n], dbHeight[n])
      /\ RowsOK(chain[n]) /\ StateOK(state[n])
  BY LastHeight DEF TypeOK, ChainsOK, StatesOK
<1>3. CASE sync' = [sync EXCEPT ![n] = Idle] /\ UNCHANGED <<state, db>>
  BY <1>3, SyncOnly DEF Idle
<1>4. CASE \E c \in common :
             /\ newest - c < ForkLimit
             /\ CanRollback(n, c)
             /\ DeleteBlocks(n, RollbackHeight(dbHeight[n], c))
             /\ state' = [state EXCEPT ![n] =
                  IF newest > c THEN SetLastBlock(@, chain[n][dbHeight'[n]]) ELSE @]
             /\ sync' = [sync EXCEPT ![n] = BlocksPhase(peer, BlockId(chain[n][c]), {})]
  <2>1. PICK c \in common :
             /\ newest - c < ForkLimit
             /\ CanRollback(n, c)
             /\ DeleteBlocks(n, RollbackHeight(dbHeight[n], c))
             /\ state' = [state EXCEPT ![n] =
                  IF newest > c THEN SetLastBlock(state[n], chain[n][dbHeight'[n]]) ELSE state[n]]
             /\ sync' = [sync EXCEPT ![n] = BlocksPhase(peer, BlockId(chain[n][c]), {})]
    BY <1>4
  <2> DEFINE k == RollbackHeight(dbHeight[n], c)
             s == IF newest > c THEN SetLastBlock(state[n], chain[n][k]) ELSE state[n]
             r == BlocksPhase(peer, BlockId(chain[n][c]), {})
  <2>2. c \in 0 .. dbHeight[n]
    <3>1. c \in Nat
      BY CommonInDb
    <3>2. c <= dbHeight[n]
      BY <2>1 DEF CanRollback
    <3> QED
      BY <1>2, <3>1, <3>2
  <2>3. k \in c .. dbHeight[n] /\ k \in DOMAIN chain[n]
    <3>1. k \in c .. dbHeight[n]
      BY <1>2, <2>2, RollbackKeeps
    <3> HIDE DEF common
    <3> QED
      BY <2>1, <3>1 DEF CanRollback
  <2>4. r.phase # "common"
    BY DEF BlocksPhase
  <2>5. DeleteBlocks(n, k) /\ dbHeight'[n] = k
    BY <2>1 DEF DeleteBlocks, TypeOK, ChainsOK
  <2> HIDE DEF k, r, common, peer, newest
  <2>6. state' = [state EXCEPT ![n] = s] /\ sync' = [sync EXCEPT ![n] = r]
    BY <2>1, <2>5 DEF r
  <2>7. k \in 0 .. dbHeight[n] /\ dbHeight[n] - k < ForkLimit
    BY <1>1, <1>2, <2>1, <2>2, <2>3
  <2>8. /\ s.pendingBlock = state[n].pendingBlock /\ s.pendingVotes = state[n].pendingVotes
        /\ s.lastBlock = state[n].lastBlock \/ s.lastBlock = chain[n][k]
        /\ newest > c => s.lastBlock = chain[n][k]
        /\ ~ (newest > c) => s.lastBlock = state[n].lastBlock
    BY <1>2, CopiesKeep
  <2> HIDE DEF s
  <2>9. s.lastBlock.height = k
    <3>1. CASE newest > c
      BY <1>2, <2>3, <2>8, <3>1 DEF RowsOK
    <3>2. CASE ~ (newest > c)
      BY <1>1, <1>2, <2>2, <2>3, <2>8, <3>2
    <3> QED
      BY <3>1, <3>2
  <2> QED
    BY <2>3, <2>4, <2>5, <2>6, <2>7, <2>8, <2>9, DeleteStep
<1>5. CASE \E c \in common :
             /\ newest - c < ForkLimit
             /\ \E height \in RollbackThrowsAt(n, c) : DeleteBlocks(n, height)
             /\ sync' = [sync EXCEPT ![n] = Idle]
             /\ UNCHANGED state
  <2>1. PICK c \in common : /\ newest - c < ForkLimit
                            /\ \E height \in RollbackThrowsAt(n, c) : DeleteBlocks(n, height)
    BY <1>5
  <2>2. PICK height \in RollbackThrowsAt(n, c) : DeleteBlocks(n, height)
    BY <2>1
  <2>3. c \in DOMAIN chain[n] /\ c \in Nat
    BY CommonInDb
  <2> HIDE DEF common, newest
  <2>4. height \in 0 .. dbHeight[n] /\ (height >= c \/ height = dbHeight[n])
    BY <2>2, <2>3, ThrowsInRange
  <2>5. dbHeight[n] - height < ForkLimit
    BY <1>1, <1>2, <2>1, <2>3, <2>4
  <2>6. n \in DbFailNodes
    BY <2>2, <2>3, NeverThrows
  <2>7. Idle.phase # "common" /\ state' = [state EXCEPT ![n] = state[n]]
    BY <1>5 DEF Idle, TypeOK, StatesOK
  <2> QED
    BY <1>5, <2>2, <2>4, <2>5, <2>6, <2>7, DeleteStep
<1> QED
  BY <1>3, <1>4, <1>5 DEF FindUpdate

LEMMA RequestBlocksStep ==
  ASSUME TypeOK, NodesOK, NEW n \in Node, RequestBlocks(n)
  PROVE  NodesStepOK(n)
<1> DEFINE batch == BlocksAfter(chain[sync[n].peer], sync[n].lastCommonBlockId)
           r     == IF batch = {} THEN Idle ELSE [sync[n] EXCEPT !.batch = batch]
<1>1. sync[n].phase = "blocks" /\ sync' = [sync EXCEPT ![n] = r] /\ UNCHANGED <<state, db>>
  BY DEF RequestBlocks
<1>2. r.phase # "common"
  <2> HIDE DEF batch
  <2>1. [sync[n] EXCEPT !.batch = batch].phase = sync[n].phase
    BY <1>1 DEF TypeOK, SyncsOK, SyncOK, Idle, CommonPhase, BlocksPhase
  <2> QED
    BY <1>1, <2>1 DEF Idle
<1> HIDE DEF r
<1> QED
  BY <1>1, <1>2, SyncOnly

LEMMA LoadBlockStep ==
  ASSUME TypeOK, NodesOK, NEW n \in Node, LoadBlock(n)
  PROVE  NodesStepOK(n)
<1>1. PICK block \in sync[n].batch :
        /\ ProcessBlock(n, state[n], block, NoVotes, "sync")
        /\ sync' = [sync EXCEPT ![n] =
             BlocksPhase(sync[n].peer, BlockId(block), sync[n].batch \ {block})]
  BY DEF LoadBlock
<1> DEFINE r == BlocksPhase(sync[n].peer, BlockId(block), sync[n].batch \ {block})
<1>2. BlockOK(block) /\ StateOK(state[n])
  BY DEF LoadBlock, TypeOK, StatesOK, SyncsOK, SyncOK, Idle, CommonPhase
<1>3. r.phase # "common"
  BY DEF BlocksPhase
<1>4. sync' = [sync EXCEPT ![n] = r]
  BY <1>1
<1> HIDE DEF r
<1>5. sync'[n].phase # "common" /\ \A m \in Node \ {n} : sync'[m] = sync[m]
  <2>1. sync'[n] = r /\ \A m \in Node \ {n} : sync'[m] = sync[m]
    BY <1>4, Updates
  <2> QED
    BY <1>3, <2>1
<1> QED
  BY <1>1, <1>2, <1>5, ProcessBlockStep

LEMMA SyncFailsStep ==
  ASSUME TypeOK, NodesOK, NEW n \in Node, SyncFails(n)
  PROVE  NodesStepOK(n)
BY SyncOnly DEF SyncFails, Idle

(***************************************************************************)
(* The restarted node takes the block of its highest row.  Unless rows may *)
(* be left behind that is the last block that counted.                     *)
(***************************************************************************)
LEMMA RestartStep ==
  ASSUME TypeOK, NodesOK, NEW n \in Node, Restart(n)
  PROVE  NodesStepOK(n)
<1>1. PICK height \in DOMAIN chain[n] :
        /\ \A h \in DOMAIN chain[n] : h <= height
        /\ dbHeight' = [dbHeight EXCEPT ![n] = height]
        /\ state' = [state EXCEPT ![n] = InitialState(chain[n][height])]
  BY DEF Restart
<1> DEFINE s == InitialState(chain[n][height])
<1>2. s.lastBlock = chain[n][height] /\ ~ HasPending(s)
  BY NoVotesEmpty DEF InitialState, HasPending
<1>3. /\ RowsOK(chain[n]) /\ height \in Nat /\ dbHeight[n] \in Nat
      /\ TableFits(n, chain[n], dbHeight[n])
  BY DEF TypeOK, ChainsOK, RowsOK, NodesOK, NodeOK
<1> HIDE DEF s
<1>4. /\ state'[n] = s /\ \A m \in Node \ {n} : state'[m] = state[m]
      /\ dbHeight'[n] = height /\ \A m \in Node \ {n} : dbHeight'[m] = dbHeight[m]
      /\ sync'[n] = Idle /\ \A m \in Node \ {n} : sync'[m] = sync[m]
      /\ UNCHANGED chain
  BY <1>1, Updates DEF Restart, s
<1>5. ~ FailsAt(n, "insertHistory") => height = dbHeight[n]
  <2>1. ~ FailsAt(n, "insertHistory") => DOMAIN chain[n] = 0 .. dbHeight[n]
    BY <1>3 DEF TableFits
  <2>2. DOMAIN chain[n] = 0 .. dbHeight[n] => height <= dbHeight[n] /\ dbHeight[n] <= height
    BY <1>1, <1>3
  <2> QED
    BY <1>3, <2>1, <2>2
<1>6. LeftRowsStay => ~ FailsAt(n, "insertHistory")
  BY DEF LeftRowsStay, FailsAt, Restart
<1>7. AtDbHeight(s, chain[n], height)
  BY <1>2, <1>3 DEF AtDbHeight, RowsOK
<1>8. TableFits(n, chain[n], height)
  BY <1>3, <1>5, <1>6 DEF TableFits
<1>9. NodeOK(n, s, chain[n], height, Idle)
  BY <1>2, <1>7, <1>8 DEF NodeOK, PendingFits, Idle, AtDbHeight
<1>10. NodesOK'
  BY <1>4, <1>9, OneNode
<1>11. LeftRowsStay => UNCHANGED Counted
  <2>1. LeftRowsStay => UNCHANGED dbHeight
    BY <1>1, <1>5, <1>6 DEF TypeOK, ChainsOK
  <2> QED
    BY <1>4, <2>1 DEF Counted
<1> QED
  BY <1>10, <1>11 DEF NodesStepOK, CountedStep

-----------------------------------------------------------------------------
(* The theorems *)

LEMMA NodesInit == Init => NodesOK
<1> SUFFICES ASSUME Init, NEW n \in Node
             PROVE  NodeOK(n, state[n], chain[n], dbHeight[n], sync[n])
  BY DEF NodesOK
<1>1. /\ state[n] = InitialState(Genesis) /\ chain[n] = [height \in {0} |-> Genesis]
      /\ dbHeight[n] = 0 /\ sync[n] = Idle
  BY DEF Init
<1>2. ~ HasPending(InitialState(Genesis)) /\ InitialState(Genesis).lastBlock = Genesis
  BY NoVotesEmpty DEF HasPending, InitialState
<1>3. 0 .. 0 = {0}
  OBVIOUS
<1>4. AtDbHeight(state[n], chain[n], 0) /\ TableFits(n, chain[n], 0)
  BY <1>1, <1>2, <1>3 DEF AtDbHeight, TableFits, Genesis
<1> QED
  BY <1>1, <1>2, <1>4 DEF NodeOK, PendingFits, Idle, AtDbHeight

LEMMA NodesStep ==
  ASSUME TypeOK, NodesOK, [Next]_vars
  PROVE  NodesOK' /\ (LeftRowsStay => UNCHANGED Counted \/ \E n \in Node : CountedStep(n))
<1>1. CASE UNCHANGED <<state, db, sync>>
  BY <1>1 DEF NodesOK, Counted, NodeOK, AtDbHeight, TableFits, LeftRowsStay, FailsAt
<1>2. CASE \E n \in Node : RunTask(n)
  <2>1. PICK n \in Node : RunTask(n)
    BY <1>2
  <2>2. PICK task \in tasks[n] :
          \/ RunLoopTask(n, task)
          \/ \E peer \in Node : StartSync(n, task, peer)
          \/ SyncBlocksFromPeer(n, task)
          \/ GetHeightFails(n, task)
    BY <2>1 DEF RunTask
  <2>3. CASE GetHeightFails(n, task)
    BY <2>3, Frame DEF GetHeightFails, NodesStepOK
  <2> QED
    BY <2>2, <2>3, RunLoopTaskStep, StartSyncStep, SyncBlocksFromPeerStep DEF NodesStepOK
<1>3. CASE \E n \in Node : Receive(n)
  BY <1>3, OnReceiveProposeStep, OnReceiveVotesStep, OnReceiveBlockStep DEF Receive, NodesStepOK
<1>4. CASE \E n \in Node : SyncStep(n)
  BY <1>4, FindUpdateStep, RequestBlocksStep, LoadBlockStep, SyncFailsStep
     DEF SyncStep, NodesStepOK
<1>5. CASE \E n \in Node : Restart(n)
  BY <1>5, RestartStep DEF NodesStepOK
<1>6. CASE Tick
  BY <1>1, <1>6 DEF Tick
<1>7. CASE \E n \in Node : Loop(n) \/ NextSync(n)
  BY <1>1, <1>7 DEF Loop, NextSync
<1>8. CASE UNCHANGED vars
  BY <1>1, <1>8 DEF vars
<1> QED
  BY <1>2, <1>3, <1>4, <1>5, <1>6, <1>7, <1>8 DEF Next

(***************************************************************************)
(* Between the steps of a node its parts fit together: lastBlock is above  *)
(* the database or the block of its last height, the rows up to there have *)
(* no gap unless a row left behind is found by a restart, a pending block  *)
(* extends the last block unless it is too high to be committed, and a     *)
(* running sync looks for a common block at or above the last height.      *)
(***************************************************************************)
THEOREM NodesCorrect == Spec => []NodesOK
<1>1. TypeOK /\ NodesOK /\ [Next]_vars => NodesOK'
  BY NodesStep
<1> QED
  BY <1>1, NodesInit, TypeCorrect, PTL DEF Spec

(***************************************************************************)
(* Whatever of FailSteps throws, is received late or is stopped: a node    *)
(* never works with a last block below its database, nor with another one  *)
(* of the same height; where nothing throws it is the last one of a table  *)
(* without gaps and with no row that does not count.                       *)
(***************************************************************************)
THEOREM StateAgreesWithDbCorrect == Spec => []StateAgreesWithDb
<1>1. TypeOK /\ NodesOK => StateAgreesWithDb
  <2> SUFFICES ASSUME TypeOK, NodesOK, NEW n \in Node
               PROVE  /\ \/ state[n].lastBlock.height > dbHeight[n]
                         \/ AtDbHeight(state[n], chain[n], dbHeight[n])
                      /\ n \notin DbFailNodes => /\ AtDbHeight(state[n], chain[n], dbHeight[n])
                                                 /\ DOMAIN chain[n] = 0 .. dbHeight[n]
    BY DEF StateAgreesWithDb
  <2>1. NodeOK(n, state[n], chain[n], dbHeight[n], sync[n])
    BY DEF NodesOK
  <2>2. n \notin DbFailNodes => AtDbHeight(state[n], chain[n], dbHeight[n])
    BY <2>1, LastHeight DEF NodeOK
  <2>3. n \notin DbFailNodes => DOMAIN chain[n] = 0 .. dbHeight[n]
    BY <2>1 DEF NodeOK, TableFits, FailsAt
  <2> QED
    BY <2>1, <2>2, <2>3 DEF NodeOK
<1> QED
  BY <1>1, TypeCorrect, NodesCorrect, PTL

(***************************************************************************)
(* A pending block of the next height extends the last block, although no  *)
(* sync and no rollback drops the pending block: onReceiveVotes may commit *)
(* it without a check.                                                     *)
(***************************************************************************)
THEOREM PendingExtendsTipCorrect == Spec => []PendingExtendsTip
<1>1. NodesOK => PendingExtendsTip
  BY DEF NodesOK, NodeOK, PendingExtendsTip, PendingExtends, PendingFits, HasPending
<1> QED
  BY <1>1, NodesCorrect, PTL

-----------------------------------------------------------------------------
(* The refinement *)

(* The operators of Ledger are those of Consensus *)
LEMMA PromiseTerms ==
  /\ \A time : Promise!SlotOf(time) = SlotOf(time)
  /\ \A blocks : Promise!LastOf(blocks) = blocks[Len(blocks)]
  /\ \A key, slot, last, payload :
       Promise!GenerateBlockShort(key, slot, last, payload)
         = GenerateBlockShort(key, slot, last, payload)
  /\ Promise!Genesis = Genesis
BY DEF Promise!SlotOf, SlotOf, Promise!LastOf, Promise!BlockId, BlockId,
       Promise!GenerateBlockShort, GenerateBlockShort, Promise!Genesis, Genesis

(* Where no row is missing, the blocks that count are a sequence *)
LEMMA CountedSeq ==
  ASSUME TypeOK, NEW n \in Node, 0 .. dbHeight[n] \subseteq DOMAIN chain[n]
  PROVE  /\ Counted[n] \in Seq({chain[n][h] : h \in DOMAIN chain[n]})
         /\ Len(Counted[n]) = dbHeight[n] + 1
         /\ \A i \in 1 .. dbHeight[n] + 1 : Counted[n][i] = chain[n][i - 1]
<1> DEFINE S == {chain[n][h] : h \in DOMAIN chain[n]}
           len == dbHeight[n] + 1
<1>1. dbHeight[n] \in Nat /\ len \in Nat
  BY DEF TypeOK, ChainsOK
<1>2. Counted[n] = [i \in 1 .. len |-> chain[n][i - 1]]
  BY DEF Counted
<1>3. \A i \in 1 .. len : chain[n][i - 1] \in S
  <2>1. \A i \in 1 .. len : i - 1 \in 0 .. dbHeight[n]
    BY <1>1
  <2> QED
    BY <2>1
<1> HIDE DEF S, len
<1>4. Counted[n] \in [1 .. len -> S]
  BY <1>2, <1>3
<1>5. Counted[n] \in Seq(S) /\ Len(Counted[n]) = len
  BY <1>1, <1>4, SeqDef, LenProperties
<1> QED
  BY <1>2, <1>5 DEF S, len

LEMMA GrowsImplements ==
  ASSUME TypeOK, NEW n \in Node, 0 .. dbHeight[n] \subseteq DOMAIN chain[n],
         NEW block, BlockOK(block), Grows(n, block)
  PROVE  Promise!AppendBlock(n)
<1> DEFINE old  == Counted[n]
           rows == WithRow(chain[n], block.height, block)
           S    == {chain[n][h] : h \in DOMAIN chain[n]}
           new  == [i \in 1 .. dbHeight[n] + 2 |-> rows[i - 1]]
<1>1. /\ dbHeight[n] \in Nat /\ RowsOK(chain[n]) /\ block.height = dbHeight[n] + 1
      /\ old \in Seq(S) /\ Len(old) = dbHeight[n] + 1
      /\ \A i \in 1 .. dbHeight[n] + 1 : old[i] = chain[n][i - 1]
  <2>1. dbHeight[n] \in Nat /\ RowsOK(chain[n]) /\ block.height = dbHeight[n] + 1
    BY DEF TypeOK, ChainsOK, Grows
  <2> QED
    BY <2>1, CountedSeq
<1>2. /\ rows[block.height] = block
      /\ \A h \in DOMAIN chain[n] \ {block.height} : rows[h] = chain[n][h]
  BY <1>1, WithRowOK
<1>3. old[Len(old)] = state[n].lastBlock /\ state[n].lastBlock.height = dbHeight[n]
  BY <1>1 DEF Grows, AtDbHeight
<1>4. Append(old, block) = new
  <2>1. old \in Seq(S \cup {block})
    BY <1>1, SeqMonotonic
  <2> HIDE DEF old, S
  <2>2. /\ Append(old, block) \in Seq(S \cup {block})
        /\ Len(Append(old, block)) = dbHeight[n] + 2
        /\ \A i \in 1 .. dbHeight[n] + 1 : Append(old, block)[i] = old[i]
        /\ Append(old, block)[dbHeight[n] + 2] = block
    BY <1>1, <2>1, AppendProperties
  <2>3. Append(old, block) = [i \in 1 .. dbHeight[n] + 2 |-> Append(old, block)[i]]
    BY <2>2, LenProperties
  <2>4. ASSUME NEW i \in 1 .. dbHeight[n] + 2 PROVE Append(old, block)[i] = rows[i - 1]
    <3> HIDE DEF rows
    <3>1. CASE i = dbHeight[n] + 2
      <4>1. i - 1 = block.height
        BY <1>1, <3>1
      <4> QED
        BY <1>2, <2>2, <3>1, <4>1
    <3>2. CASE i # dbHeight[n] + 2
      <4>1. i \in 1 .. dbHeight[n] + 1 /\ i - 1 \in 0 .. dbHeight[n] /\ i - 1 # block.height
        BY <1>1, <3>2
      <4> QED
        BY <1>1, <1>2, <2>2, <4>1
    <3> QED
      BY <3>1, <3>2
  <2> HIDE DEF rows
  <2> QED
    BY <2>3, <2>4
<1>5. Counted' = [Counted EXCEPT ![n] = Append(old, block)]
  <2>1. /\ chain'[n] = rows /\ \A m \in Node \ {n} : chain'[m] = chain[m]
        /\ dbHeight'[n] = dbHeight[n] + 1 /\ \A m \in Node \ {n} : dbHeight'[m] = dbHeight[m]
    BY Updates DEF Grows, CommitBlock
  <2> HIDE DEF rows
  <2>2. Counted'[n] = new
    <3>1. Counted'[n] = [i \in 1 .. dbHeight'[n] + 1 |-> chain'[n][i - 1]]
      BY DEF Counted
    <3>2. dbHeight'[n] + 1 = dbHeight[n] + 2
      BY <1>1, <2>1
    <3> QED
      BY <2>1, <3>1, <3>2
  <2>3. \A m \in Node \ {n} : Counted'[m] = Counted[m]
    BY <2>1 DEF Counted
  <2>4. Counted' = [m \in Node |-> Counted'[m]] /\ Counted = [m \in Node |-> Counted[m]]
    BY DEF Counted
  <2> HIDE DEF old, new
  <2> QED
    BY <1>4, <2>2, <2>3, <2>4
<1> HIDE DEF old, new, rows
<1>6. /\ block.delegate \in Delegate /\ block.payload \in Payload
      /\ block.slot \in 0 .. SlotOf(MaxNow)
  BY <1>1 DEF BlockOK
<1>7. block = GenerateBlockShort(block.delegate, block.slot, old[Len(old)], block.payload)
  BY <1>1, <1>3 DEF GenerateBlockShort, Grows, Extends, BlockOK
<1>8. block.slot \in 0 .. SlotOf(MaxNow) + 1 /\ block.slot > old[Len(old)].slot
  <2>1. SlotOf(MaxNow) \in Nat
    BY DEF SlotOf
  <2> QED
    BY <1>3, <1>6, <2>1 DEF Grows, Extends
<1>9. PICK key \in Delegate, slot \in 0 .. SlotOf(MaxNow) + 1, payload \in Payload :
        /\ slot > old[Len(old)].slot
        /\ Counted' = [Counted EXCEPT ![n] =
             Append(old, GenerateBlockShort(key, slot, old[Len(old)], payload))]
  BY <1>5, <1>6, <1>7, <1>8
<1> QED
  BY <1>9, PromiseTerms DEF Promise!AppendBlock, old

LEMMA ShrinksImplements ==
  ASSUME TypeOK, NEW n \in Node, 0 .. dbHeight[n] \subseteq DOMAIN chain[n],
         NEW height \in 0 .. dbHeight[n], Shrinks(n, height)
  PROVE  Promise!Rollback(n)
<1> DEFINE old  == Counted[n]
           rows == [h \in DOMAIN chain[n] \ (height + 1 .. dbHeight[n]) |-> chain[n][h]]
           S    == {chain[n][h] : h \in DOMAIN chain[n]}
           new  == [i \in 1 .. height + 1 |-> rows[i - 1]]
<1>1. /\ dbHeight[n] \in Nat /\ old \in Seq(S) /\ Len(old) = dbHeight[n] + 1
      /\ \A i \in 1 .. dbHeight[n] + 1 : old[i] = chain[n][i - 1]
  <2>1. dbHeight[n] \in Nat
    BY DEF TypeOK, ChainsOK
  <2> QED
    BY <2>1, CountedSeq
<1>2. \A i \in 1 .. height + 1 : rows[i - 1] = old[i]
  <2>1. \A i \in 1 .. height + 1 :
          i \in 1 .. dbHeight[n] + 1 /\ i - 1 \in 0 .. dbHeight[n] /\ i - 1 <= height
    BY <1>1
  <2>2. \A i \in 1 .. height + 1 : i - 1 \in DOMAIN chain[n] \ (height + 1 .. dbHeight[n])
    BY <2>1
  <2> QED
    BY <1>1, <2>1, <2>2
<1> HIDE DEF old, rows, S
<1>3. SubSeq(old, 1, height + 1) = new
  <2>1. \A i \in 1 .. height + 1 : old[i] \in S
    <3>1. \A i \in 1 .. dbHeight[n] + 1 : old[i] \in S
      BY <1>1, LenProperties
    <3> QED
      BY <1>1, <3>1
  <2>2. /\ SubSeq(old, 1, height + 1) \in Seq(S) /\ Len(SubSeq(old, 1, height + 1)) = height + 1
        /\ \A i \in 1 .. height + 1 : SubSeq(old, 1, height + 1)[i] = old[i]
    BY <1>1, <2>1, SubSeqProperties
  <2>3. SubSeq(old, 1, height + 1)
          = [i \in 1 .. height + 1 |-> SubSeq(old, 1, height + 1)[i]]
    BY <2>2, LenProperties
  <2> QED
    BY <1>2, <2>2, <2>3
<1>4. Counted' = [Counted EXCEPT ![n] = SubSeq(old, 1, height + 1)]
  <2>1. /\ chain'[n] = rows /\ \A m \in Node \ {n} : chain'[m] = chain[m]
        /\ dbHeight'[n] = height /\ \A m \in Node \ {n} : dbHeight'[m] = dbHeight[m]
    BY Updates DEF Shrinks, DeleteBlocks, rows
  <2>2. Counted'[n] = new
    BY <2>1 DEF Counted
  <2>3. \A m \in Node \ {n} : Counted'[m] = Counted[m]
    BY <2>1 DEF Counted
  <2>4. Counted' = [m \in Node |-> Counted'[m]] /\ Counted = [m \in Node |-> Counted[m]]
    BY DEF Counted
  <2> HIDE DEF new
  <2> QED
    BY <1>3, <2>2, <2>3, <2>4
<1>5. /\ height \in 0 .. Len(old) - 1
      /\ Len(old) - 1 - height < ForkLimit
  BY <1>1 DEF Shrinks
<1> QED
  BY <1>4, <1>5 DEF Promise!Rollback, Promise!UpTo, old

(* A restarted node finds no row left behind: LeftRowsStay *)
LEMMA PromiseStep ==
  ASSUME LeftRowsStay, TypeOK, NodesOK, [Next]_vars
  PROVE  [Promise!Next]_Counted
<1>1. CASE UNCHANGED Counted
  BY <1>1
<1>2. CASE \E n \in Node : CountedStep(n)
  <2>1. PICK n \in Node : CountedStep(n)
    BY <1>2
  <2>2. 0 .. dbHeight[n] \subseteq DOMAIN chain[n]
    BY DEF NodesOK, NodeOK, TableFits
  <2> QED
    BY <2>1, <2>2, GrowsImplements, ShrinksImplements DEF CountedStep, Promise!Next
<1> QED
  BY <1>1, <1>2, NodesStep

LEMMA PromiseInit == Init => Promise!Init
<1> SUFFICES ASSUME Init PROVE Counted = [n \in Node |-> <<Genesis>>]
  BY PromiseTerms DEF Promise!Init
<1>1. ASSUME NEW n \in Node PROVE Counted[n] = <<Genesis>>
  <2>1. Counted[n] = [i \in 1 .. 1 |-> Genesis]
    <3>1. chain[n] = [height \in {0} |-> Genesis] /\ dbHeight[n] = 0
      BY DEF Init
    <3>2. 0 + 1 = 1 /\ \A i \in 1 .. 1 : i - 1 = 0
      OBVIOUS
    <3> QED
      BY <3>1, <3>2 DEF Counted
  <2> HIDE DEF Genesis
  <2> QED
    BY <2>1
<1>2. Counted = [n \in Node |-> Counted[n]]
  BY DEF Counted
<1> QED
  BY <1>1, <1>2

(***************************************************************************)
(* The blocks of every node that count grow only by blocks made for the    *)
(* last one, and fewer than ForkLimit are dropped at a time, whatever the  *)
(* messages of the other nodes and the order in which they are handled,    *)
(* and whatever of FailSteps throws - unless a block of which only the     *)
(* first row was inserted is found by a restart.                           *)
(***************************************************************************)
THEOREM Refinement == ASSUME LeftRowsStay PROVE Spec => ImplementsLedger
<1>1. TypeOK /\ NodesOK /\ [Next]_vars => [Promise!Next]_Counted
  BY PromiseStep
<1> QED
  BY <1>1, PromiseInit, TypeCorrect, NodesCorrect, PTL DEF Spec, ImplementsLedger, Promise!Spec

PromiseProofs == INSTANCE LedgerProofs WITH chain <- Counted

(***************************************************************************)
(* The blocks of every node that count are a chain from genesis without a  *)
(* gap, unless a row that was left behind is found by a restart.           *)
(***************************************************************************)
THEOREM TablesAreChains == ASSUME LeftRowsStay PROVE Spec => []Promise!ChainLinked
<1>1. PromiseProofs!Spec => []PromiseProofs!ChainLinked
  <2>1. PromiseProofs!BlocksAssumption
    BY DEF PromiseProofs!BlocksAssumption, PromiseProofs!CalculateRound, CalculateRound,
           PromiseProofs!IsFiniteSet, IsFiniteSet
  <2> QED
    BY <2>1, PromiseProofs!LedgerIsChain, PTL
<1>2. Promise!Init => PromiseProofs!Init
  BY DEF Promise!Init, PromiseProofs!Init, Promise!Genesis, PromiseProofs!Genesis
<1>3. [Promise!Next]_Counted => [PromiseProofs!Next]_Counted
  BY DEF Promise!Next, PromiseProofs!Next, Promise!AppendBlock, PromiseProofs!AppendBlock,
         Promise!Rollback, PromiseProofs!Rollback, Promise!LastOf, PromiseProofs!LastOf,
         Promise!UpTo, PromiseProofs!UpTo, Promise!SlotOf, PromiseProofs!SlotOf,
         Promise!GenerateBlockShort, PromiseProofs!GenerateBlockShort,
         Promise!BlockId, PromiseProofs!BlockId
<1>4. PromiseProofs!ChainLinked => Promise!ChainLinked
  BY DEF Promise!ChainLinked, PromiseProofs!ChainLinked, Promise!Genesis, PromiseProofs!Genesis,
         Promise!BlockId, PromiseProofs!BlockId
<1> QED
  BY <1>1, <1>2, <1>3, <1>4, Refinement, PTL
     DEF ImplementsLedger, Promise!Spec, PromiseProofs!Spec

-----------------------------------------------------------------------------
(***************************************************************************)
(* Voting.  What the counting of votes is worth, whatever votes are lost,  *)
(* repeated, late or for another block, whichever nodes restart, fail or   *)
(* synchronise.                                                            *)
(*                                                                         *)
(* The votes a node collects may belong to a block it has replaced by a    *)
(* later one (pendingVotes keeps the id it was created with).  So the      *)
(* inductive invariant does not say that they are for the pending block,   *)
(* but that they are if their id is the one of the pending block: a        *)
(* replaced block is of an earlier slot, which the id tells.               *)
(***************************************************************************)

(* As many delegates as signatures, those of votesKeySet *)
KeysFit(s) ==
  LET signatures == s.pendingVotes.signatures
  IN  /\ s.votesKeySet = {sig.publicKey : sig \in signatures}
      /\ \A a, b \in signatures : a.publicKey = b.publicKey => a = b

(* Votes are for the pending block or for a block of an earlier slot *)
SlotsFit(s, slot) ==
  /\ HasPending(s) => s.pendingBlock.slot \in Nat /\ s.pendingBlock.slot <= slot
  /\ s.pendingVotes.signatures # {} =>
       /\ SlotOfId(s.pendingVotes.id) \in Nat
       /\ SlotOfId(s.pendingVotes.id) <= s.pendingBlock.slot
       /\ s.pendingBlock = Null => SlotOfId(s.pendingVotes.id) < s.pendingBlock.slot

(* Votes with the id of a block are signatures of that block *)
VotesFor(votes, b) == \A sig \in votes.signatures : sig = Signature(sig.publicKey, b)

TallyFits(s) ==
  s.pendingVotes.id = BlockId(s.pendingBlock) => VotesFor(s.pendingVotes, s.pendingBlock)

(* given: the signatures given so far *)
TallyOK(s, slot, given) ==
  /\ KeysFit(s)
  /\ SlotsFit(s, slot)
  /\ TallyFits(s)
  /\ s.pendingVotes.signatures \subseteq given

Tallies == \A n \in Node : TallyOK(state[n], SlotOf(now), signed)

VotesSigned == \A m \in voteMsgs : m.votes.signatures \subseteq signed

(* Certified, for the signatures given by some time *)
CertifiedBy(given, b) ==
  3 * Cardinality({d \in Delegate : Signature(d, b) \in given}) > 2 * DELEGATES

AnnouncedCertified ==
  \A m \in newBlocks : m.votes.id = BlockId(m.block) => Certified(m.block)

VotingInv == Tallies /\ VotesSigned /\ AnnouncedCertified

-----------------------------------------------------------------------------
(* Lemmas about quorums *)

(* Signatures of different delegates for a block are as many signers *)
LEMMA QuorumCertifies ==
  ASSUME NEW votes, VotesOK(votes), NEW b, VotesFor(votes, b), HasEnoughVotes(votes),
         NEW given, votes.signatures \subseteq given
  PROVE  CertifiedBy(given, b)
<1> DEFINE T == votes.signatures
           S == {d \in Delegate : Signature(d, b) \in given}
           key == [sig \in T |-> sig.publicKey]
<1>1. IsFiniteSet(T) /\ \A sig \in T : sig.publicKey \in Delegate
  BY DEF VotesOK
<1>2. \A sig \in T : sig.publicKey \in S
  BY <1>1 DEF VotesFor
<1>3. IsFiniteSet(S)
  BY FS_Subset
<1>4. key \in Injection(T, S)
  <2>1. key \in [T -> S]
    BY <1>2
  <2>2. \A x, y \in T : key[x] = key[y] => x = y
    BY DEF VotesFor
  <2> QED
    BY <2>1, <2>2 DEF Injection, IsInjective
<1>5. Cardinality(T) <= Cardinality(S)
  <2> HIDE DEF key, T, S
  <2> QED
    BY <1>1, <1>3, <1>4, FS_Injection
<1>6. Cardinality(T) \in Nat /\ Cardinality(S) \in Nat
  BY <1>1, <1>3, FS_CardinalityType
<1> HIDE DEF T, S
<1>7. 3 * Cardinality(T) > 2 * DELEGATES
  BY DEF HasEnoughVotes, T
<1> QED
  BY <1>5, <1>6, <1>7 DEF CertifiedBy, S

(* A block stays certified while signatures are added *)
LEMMA CertifiedStays ==
  ASSUME NEW b, NEW given, NEW more, CertifiedBy(given, b), given \subseteq more
  PROVE  CertifiedBy(more, b)
<1> DEFINE S == {d \in Delegate : Signature(d, b) \in given}
           T == {d \in Delegate : Signature(d, b) \in more}
<1>1. S \subseteq T /\ IsFiniteSet(S) /\ IsFiniteSet(T)
  BY FS_Subset
<1>2. 3 * Cardinality(S) > 2 * DELEGATES
  BY DEF CertifiedBy
<1> HIDE DEF S, T
<1>3. Cardinality(S) <= Cardinality(T) /\ Cardinality(S) \in Nat /\ Cardinality(T) \in Nat
  BY <1>1, FS_Subset, FS_CardinalityType
<1>4. 3 * Cardinality(T) > 2 * DELEGATES
  BY <1>2, <1>3
<1> QED
  BY <1>4 DEF CertifiedBy, T

LEMMA CertifiedMeans ==
  \A b : (Certified(b) <=> CertifiedBy(signed, b)) /\ (Certified(b)' <=> CertifiedBy(signed', b))
BY DEF Certified, CertifiedBy, Signers

(* The votes of a node for a block of its own *)
LEMMA LocalVotesFor ==
  ASSUME NEW keys \in SUBSET Delegate, NEW b
  PROVE  /\ VotesFor(CreateVotes(keys, b.height, BlockId(b)), b)
         /\ CreateVotes(keys, b.height, BlockId(b)).id = BlockId(b)
         /\ CreateVotes(keys, b.height, BlockId(b)).height = b.height
BY DEF VotesFor, CreateVotes, Signature

-----------------------------------------------------------------------------
(* Lemmas about the state of a node *)

(* Nothing is collected *)
LEMMA EmptyTally ==
  ASSUME NEW slot, NEW given, NEW s, StateOK(s), s.pendingVotes = NoVotes, s.votesKeySet = {}, ~ HasPending(s)
  PROVE  TallyOK(s, slot, given)
BY NoVotesEmpty DEF TallyOK, KeysFit, SlotsFit, TallyFits, VotesFor

(* A copy with the same pending block, votes and keys *)
LEMMA TallyKept ==
  ASSUME NEW slot, NEW given, NEW s, TallyOK(s, slot, given), NEW t,
         t.pendingBlock = s.pendingBlock, t.pendingVotes = s.pendingVotes,
         t.votesKeySet = s.votesKeySet
  PROVE  TallyOK(t, slot, given)
BY DEF TallyOK, KeysFit, SlotsFit, TallyFits, VotesFor, HasPending

LEMMA CopiesKeepKeys ==
  ASSUME NEW s, StateOK(s), NEW x, NEW y
  PROVE  /\ MarkBlockAsReceived(s, x).votesKeySet = s.votesKeySet
         /\ MarkProposeAsReceived(s, x).votesKeySet = s.votesKeySet
         /\ SetLastPropose(s, x, y).votesKeySet = s.votesKeySet
         /\ CollectingVotes(s).votesKeySet = s.votesKeySet
         /\ SetLastBlock(s, x).votesKeySet = s.votesKeySet
         /\ SetPendingBlock(s, x).votesKeySet = s.votesKeySet
         /\ SetPendingBlock(s, x).pendingVotes = s.pendingVotes
BY DEF StateOK, MarkBlockAsReceived, MarkProposeAsReceived, SetLastPropose, CollectingVotes,
       SetLastBlock, SetPendingBlock

LEMMA CopiesTally ==
  ASSUME NEW slot, NEW given, NEW s, StateOK(s), NEW x, NEW y
  PROVE  /\ TallyOK(s, slot, given) => TallyOK(MarkBlockAsReceived(s, x), slot, given)
         /\ TallyOK(s, slot, given) => TallyOK(MarkProposeAsReceived(s, x), slot, given)
         /\ TallyOK(s, slot, given) => TallyOK(SetLastPropose(s, x, y), slot, given)
         /\ TallyOK(s, slot, given) => TallyOK(CollectingVotes(s), slot, given)
BY CopiesKeep, CopiesKeepKeys, TallyKept DEF Same

(* processBlock ends with nothing collected *)
LEMMA CleanTally ==
  ASSUME NEW slot, NEW given, NEW s, StateOK(s)
  PROVE  TallyOK(ProcessBlockCleanupEffect(s), slot, given)
<1> DEFINE t == ProcessBlockCleanupEffect(s)
<1>1. StateOK(t) /\ ~ HasPending(t)
  BY CopiesOK, CopiesKeep DEF ProcessBlockCleanupEffect
<1>2. t.pendingVotes = NoVotes /\ t.votesKeySet = {}
  BY DEF StateOK, ProcessBlockCleanupEffect, ProcessBlockCleanup, ClearState
<1> HIDE DEF t
<1> QED
  BY <1>1, <1>2, EmptyTally DEF t

(***************************************************************************)
(* Counted votes: those of a key counted before are left out, and the id   *)
(* is the one of the first votes counted.                                  *)
(***************************************************************************)
LEMMA CountedVotes ==
  ASSUME NEW slot \in Nat, NEW given, NEW s, StateOK(s), TallyOK(s, slot, given),
         NEW votes, VotesOK(votes), votes.signatures \subseteq given
  PROVE  TallyOK(AddPendingVotes(s, votes), slot, given)
<1> DEFINE b     == s.pendingBlock
           old   == s.pendingVotes.signatures
           fresh == FreshSignatures(s, votes)
           t     == AddPendingVotes(s, votes)
<1>1. CASE fresh = {}
  BY <1>1 DEF AddPendingVotes
<1>2. CASE fresh # {}
  <2>1. /\ b # Null /\ b.height = votes.height /\ BlockId(b) = votes.id
        /\ \A sig \in fresh : /\ sig \in votes.signatures /\ sig.publicKey \notin s.votesKeySet
                              /\ sig.height = votes.height /\ sig.id = votes.id
    BY <1>2 DEF FreshSignatures, VerifyVote
  <2>2. /\ t.pendingBlock = b
        /\ t.votesKeySet = s.votesKeySet \cup {sig.publicKey : sig \in fresh}
        /\ t.pendingVotes.signatures = old \cup fresh
        /\ t.pendingVotes.id = IF old = {} THEN votes.id ELSE s.pendingVotes.id
    <3>1. t = [s EXCEPT !.votesKeySet  = s.votesKeySet \cup {sig.publicKey : sig \in fresh},
                        !.pendingVotes =
                          [height |-> (IF old = {} THEN votes ELSE s.pendingVotes).height,
                           id |-> (IF old = {} THEN votes ELSE s.pendingVotes).id,
                           signatures |-> old \cup fresh]]
      BY <1>2 DEF AddPendingVotes
    <3> HIDE DEF fresh, t
    <3> QED
      BY <3>1 DEF StateOK
  <2>3. \A sig \in fresh : sig = Signature(sig.publicKey, b)
    BY <2>1 DEF VotesOK, Signature
  <2>4. SlotOfId(BlockId(b)) = b.slot
    BY DEF SlotOfId, BlockId
  <2> HIDE DEF b, old, fresh, t
  <2>5. KeysFit(t)
    <3>1. s.votesKeySet = {sig.publicKey : sig \in old}
          /\ \A x, y \in old : x.publicKey = y.publicKey => x = y
      BY DEF TallyOK, KeysFit, old
    <3>2. t.votesKeySet = {sig.publicKey : sig \in t.pendingVotes.signatures}
      BY <2>2, <3>1
    <3>3. ASSUME NEW x \in old \cup fresh, NEW y \in old \cup fresh, x.publicKey = y.publicKey
          PROVE  x = y
      <4>1. CASE x \in old /\ y \in old
        BY <3>1, <3>3, <4>1
      <4>2. CASE x \in fresh /\ y \in fresh
        BY <2>3, <3>3, <4>2
      <4>3. \A z \in old : z.publicKey \in s.votesKeySet
        BY <3>1
      <4>4. \A z \in fresh : z.publicKey \notin s.votesKeySet
        BY <2>1
      <4> QED
        BY <3>3, <4>1, <4>2, <4>3, <4>4
    <3> QED
      BY <2>2, <3>2, <3>3 DEF KeysFit
  <2>6. SlotsFit(t, slot)
    <3>1. b.slot \in Nat /\ b.slot <= slot
      BY <2>1 DEF TallyOK, SlotsFit, HasPending, b
    <3>2. SlotOfId(t.pendingVotes.id) \in Nat /\ SlotOfId(t.pendingVotes.id) <= b.slot
      <4>1. CASE old = {}
        BY <2>1, <2>2, <2>4, <3>1, <4>1
      <4>2. CASE old # {}
        BY <2>2, <4>2 DEF TallyOK, SlotsFit, b, old
      <4> QED
        BY <4>1, <4>2
    <3> QED
      BY <2>1, <2>2, <3>1, <3>2 DEF SlotsFit
  <2>7. TallyFits(t)
    <3>1. ASSUME t.pendingVotes.id = BlockId(b), NEW sig \in old
          PROVE  sig = Signature(sig.publicKey, b)
      BY <2>2, <3>1 DEF TallyOK, TallyFits, VotesFor, b, old
    <3> QED
      BY <2>2, <2>3, <3>1 DEF TallyFits, VotesFor
  <2>8. t.pendingVotes.signatures \subseteq given
    BY <2>1, <2>2 DEF TallyOK, old
  <2> QED
    BY <2>5, <2>6, <2>7, <2>8 DEF TallyOK, t
<1> QED
  BY <1>1, <1>2

(* A new pending block is of a later slot than the votes at hand *)
LEMMA PosedTally ==
  ASSUME NEW slot, NEW given, NEW s, StateOK(s), TallyOK(s, slot, given), NEW block, BlockOK(block),
         block.slot = slot, ~ HasPendingBlock(s, block.slot)
  PROVE  TallyOK(SetPendingBlock(s, block), slot, given)
<1> DEFINE t == SetPendingBlock(s, block)
           id == s.pendingVotes.id
<1>1. /\ t.pendingBlock = block /\ t.pendingVotes = s.pendingVotes
      /\ t.votesKeySet = s.votesKeySet
  BY CopiesKeep, CopiesKeepKeys
<1>2. block.slot \in Nat /\ slot \in Nat
  BY DEF BlockOK, SlotOf
<1> HIDE DEF t
<1>3. KeysFit(t) /\ t.pendingVotes.signatures \subseteq given
  BY <1>1 DEF TallyOK, KeysFit
<1>4. s.pendingVotes.signatures # {} => SlotOfId(id) \in Nat /\ SlotOfId(id) < block.slot
  <2>1. s.pendingVotes.signatures # {} =>
          /\ s.pendingBlock.slot \in Nat /\ s.pendingBlock.slot <= slot
          /\ SlotOfId(id) \in Nat /\ SlotOfId(id) <= s.pendingBlock.slot
          /\ s.pendingBlock = Null => SlotOfId(id) < s.pendingBlock.slot
    BY DEF TallyOK, SlotsFit, HasPending
  <2>2. s.pendingBlock # Null => s.pendingBlock.slot # slot
    BY DEF HasPendingBlock
  <2> QED
    BY <1>2, <2>1, <2>2
<1>5. SlotsFit(t, slot)
  BY <1>1, <1>2, <1>4 DEF SlotsFit
<1>6. TallyFits(t)
  <2>1. SlotOfId(BlockId(block)) = block.slot
    BY DEF SlotOfId, BlockId
  <2>2. s.pendingVotes.signatures # {} => id # BlockId(block)
    BY <1>2, <1>4, <2>1
  <2> QED
    BY <1>1, <2>2 DEF TallyFits, VotesFor
<1> QED
  BY <1>3, <1>5, <1>6 DEF TallyOK, t

LEMMA SlotsGrow ==
  ASSUME NEW t \in Nat, NEW u \in Nat, t <= u
  PROVE  SlotOf(t) <= SlotOf(u) /\ SlotOf(t) \in Nat /\ SlotOf(u) \in Nat
BY DEF SlotOf

(* A tally stays one while the clock goes on and signatures are added *)
LEMMA TallyStays ==
  ASSUME NEW slot \in Nat, NEW given, NEW s, TallyOK(s, slot, given),
         NEW later \in Nat, slot <= later, NEW more, given \subseteq more
  PROVE  TallyOK(s, later, more)
BY DEF TallyOK, SlotsFit

-----------------------------------------------------------------------------
(* Steps of one node *)

(* Signatures are only added, and the clock never goes back *)
Onwards == signed \subseteq signed' /\ now' \in Nat /\ now <= now'

LEMMA ClockOK ==
  ASSUME TypeOK, Onwards
  PROVE  SlotOf(now) \in Nat /\ SlotOf(now') \in Nat /\ SlotOf(now) <= SlotOf(now')
BY SlotsGrow DEF TypeOK, Onwards

(* A step that changes the state of one node at most *)
LEMMA OneTally ==
  ASSUME TypeOK, Tallies, Onwards, NEW n \in Node,
         NEW s, TallyOK(s, SlotOf(now'), signed'), state' = [state EXCEPT ![n] = s]
  PROVE  Tallies'
<1>1. state'[n] = s /\ \A m \in Node \ {n} : state'[m] = state[m]
  BY Updates
<1>2. \A m \in Node : TallyOK(state[m], SlotOf(now'), signed')
  BY ClockOK, TallyStays DEF Tallies, Onwards
<1>3. \A m \in Node : TallyOK(state'[m], SlotOf(now'), signed')
  BY <1>1, <1>2
<1> QED
  BY <1>3 DEF Tallies

LEMMA TalliesKept ==
  ASSUME TypeOK, Tallies, Onwards, UNCHANGED state
  PROVE  Tallies'
<1>1. \A m \in Node : TallyOK(state[m], SlotOf(now'), signed')
  BY ClockOK, TallyStays DEF Tallies, Onwards
<1> QED
  BY <1>1 DEF Tallies

LEMMA VotesKept ==
  ASSUME VotesSigned, Onwards, UNCHANGED voteMsgs
  PROVE  VotesSigned'
BY DEF VotesSigned, Onwards

LEMMA AnnouncedKept ==
  ASSUME AnnouncedCertified, Onwards, UNCHANGED newBlocks
  PROVE  AnnouncedCertified'
<1> SUFFICES ASSUME NEW m \in newBlocks, m.votes.id = BlockId(m.block)
             PROVE  Certified(m.block)'
  BY DEF AnnouncedCertified
<1>1. CertifiedBy(signed, m.block)
  BY CertifiedMeans DEF AnnouncedCertified
<1>2. CertifiedBy(signed', m.block)
  BY <1>1, CertifiedStays DEF Onwards
<1> QED
  BY <1>2, CertifiedMeans

(* A block is announced with some of the votes it was committed with *)
LEMMA ProcessBlockVotes ==
  ASSUME TypeOK, Tallies, AnnouncedCertified, Onwards, NEW n \in Node,
         NEW s, StateOK(s), NEW block, BlockOK(block), NEW votes, VotesOK(votes), NEW origin,
         origin = "local" /\ votes.id = BlockId(block) => CertifiedBy(signed', block),
         ProcessBlock(n, s, block, votes, origin)
  PROVE  Tallies' /\ AnnouncedCertified'
<1>1. Tallies'
  <2>1. StateOK(SetLastBlock(s, block))
    BY CopiesOK
  <2>2. /\ TallyOK(ProcessBlockCleanupEffect(s), SlotOf(now'), signed')
        /\ TallyOK(ProcessBlockCleanupEffect(SetLastBlock(s, block)), SlotOf(now'), signed')
    BY <2>1, CleanTally
  <2>3. \/ state' = [state EXCEPT ![n] = ProcessBlockCleanupEffect(s)]
        \/ state' = [state EXCEPT ![n] = ProcessBlockCleanupEffect(SetLastBlock(s, block))]
    BY DEF ProcessBlock
  <2> QED
    BY <2>2, <2>3, OneTally
<1>2. AnnouncedCertified'
  <2>1. CASE UNCHANGED newBlocks
    BY <2>1, AnnouncedKept
  <2>2. CASE /\ origin = "local"
             /\ \E first \in FirstSignatures(votes.signatures) :
                  newBlocks' = newBlocks \cup
                    {[from |-> n, block |-> block,
                      votes |-> [votes EXCEPT !.signatures = first]]}
    <3>1. PICK first :
            newBlocks' = newBlocks \cup
              {[from |-> n, block |-> block, votes |-> [votes EXCEPT !.signatures = first]]}
      BY <2>2
    <3>2. [votes EXCEPT !.signatures = first].id = votes.id
      BY DEF VotesOK
    <3>3. votes.id = BlockId(block) => Certified(block)'
      BY <2>2, CertifiedMeans
    <3>4. ASSUME NEW m \in newBlocks, m.votes.id = BlockId(m.block)
          PROVE  Certified(m.block)'
      <4>1. CertifiedBy(signed, m.block)
        BY <3>4, CertifiedMeans DEF AnnouncedCertified
      <4> QED
        BY <4>1, CertifiedStays, CertifiedMeans DEF Onwards
    <3>5. ASSUME NEW m \in newBlocks', m.votes.id = BlockId(m.block)
          PROVE  Certified(m.block)'
      <4> DEFINE announced == [from |-> n, block |-> block,
                               votes |-> [votes EXCEPT !.signatures = first]]
      <4>1. CASE m \in newBlocks
        BY <3>4, <3>5, <4>1
      <4>2. CASE m = announced
        <5>1. m.block = block /\ m.votes.id = votes.id
          BY <3>2, <4>2
        <5>2. Certified(block)'
          BY <3>3, <3>5, <5>1
        <5>3. CertifiedBy(signed', m.block)
          BY <5>1, <5>2, CertifiedMeans
        <5> QED
          BY <5>3, CertifiedMeans
      <4> QED
        BY <3>1, <4>1, <4>2
    <3> QED
      BY <3>5 DEF AnnouncedCertified
  <2> QED
    BY <2>1, <2>2 DEF ProcessBlock, Announce
<1> QED
  BY <1>1, <1>2

-----------------------------------------------------------------------------
(* The actions *)

LEMMA RunLoopTaskVotes ==
  ASSUME TypeOK, VotingInv, NEW n \in Node, NEW task, RunLoopTask(n, task)
  PROVE  VotingInv'
<1>1. /\ UNCHANGED <<now, voteMsgs>> /\ now \in Nat
      /\ Tallies /\ VotesSigned /\ AnnouncedCertified
  BY DEF RunLoopTask, VotingInv, TypeOK
<1>2. CASE UNCHANGED <<state, db, proposes, newBlocks, signed>>
  <2>1. Onwards
    BY <1>1, <1>2 DEF Onwards
  <2> QED
    BY <1>1, <1>2, <2>1, TalliesKept, VotesKept, AnnouncedKept DEF VotingInv
<1>3. CASE CanForge(n, task.slot)
  <2> DEFINE Block(payload) ==
               GenerateBlockShort(task.key, task.slot, state[n].lastBlock, payload)
             LocalVotes(b) == CreateVotes(GetActiveDelegateKeypairs(n, b.height),
                                          b.height, BlockId(b))
  <2>1. PICK payload \in Payload :
          /\ signed' = signed \cup LocalVotes(Block(payload)).signatures
          /\ IF HasEnoughVotes(LocalVotes(Block(payload)))
             THEN ForgeBlock(n, Block(payload), LocalVotes(Block(payload)))
             ELSE ProposeBlock(n, Block(payload), LocalVotes(Block(payload)))
    BY <1>3 DEF RunLoopTask
  <2> DEFINE block == Block(payload)
             localVotes == LocalVotes(block)
  <2>2. StateOK(state[n]) /\ BlockOK(block)
    <3>1. task.slot \in 0 .. SlotOf(MaxNow) /\ state[n].lastBlock.height < MaxHeight
      BY <1>3, SlotMonotone DEF CanForge, TypeOK
    <3>2. task.key \in Delegate
      <4>1. TaskOK(task)
        BY TasksTypes DEF RunLoopTask, TypeOK
      <4> QED
        BY <4>1 DEF RunLoopTask, TaskOK, StartSyncTask, SyncFromPeerTask
    <3>3. StateOK(state[n]) /\ BlockOK(state[n].lastBlock)
      BY DEF TypeOK, StatesOK, StateOK
    <3> QED
      BY <3>1, <3>2, <3>3, ForgedBlockOK
  <2>3. block.slot = SlotOf(now) /\ ~ HasPendingBlock(state[n], block.slot)
    BY <1>3 DEF CanForge, GenerateBlockShort
  <2> HIDE DEF block
  <2>4. /\ VotesOK(localVotes) /\ VotesFor(localVotes, block)
        /\ localVotes.id = BlockId(block)
    BY KeypairsOK, CreateVotesOK, LocalVotesFor
  <2>5. signed' = signed \cup localVotes.signatures
    BY <2>1 DEF block
  <2>6. IF HasEnoughVotes(localVotes) THEN ForgeBlock(n, block, localVotes)
                                      ELSE ProposeBlock(n, block, localVotes)
    BY <2>1 DEF block
  <2> HIDE DEF localVotes
  <2>7. Onwards
    BY <1>1, <2>5 DEF Onwards
  <2>8. CASE HasEnoughVotes(localVotes) /\ ForgeBlock(n, block, localVotes)
    <3>1. CASE ProcessBlock(n, state[n], block, localVotes, "local")
      <4>1. CertifiedBy(signed', block)
        BY <2>4, <2>5, <2>8, QuorumCertifies
      <4> QED
        BY <1>1, <2>2, <2>4, <2>7, <3>1, <4>1, ProcessBlockVotes, VotesKept DEF VotingInv
    <3>2. CASE UNCHANGED <<state, db, newBlocks>>
      BY <1>1, <2>7, <3>2, TalliesKept, VotesKept, AnnouncedKept DEF VotingInv
    <3> QED
      BY <2>8, <3>1, <3>2 DEF ForgeBlock
  <2>9. CASE ProposeBlock(n, block, localVotes)
    <3> DEFINE propose == ManageProposeCreation(n, block)
               posed   == SetPendingBlock(state[n], block)
               pending == AddPendingVotes(posed, localVotes)
               marked  == MarkProposeAsReceived(pending, propose)
               slot    == SlotOf(now)
    <3>1. TallyOK(state[n], slot, signed')
      BY <1>1, <2>7, ClockOK, TallyStays DEF Tallies, Onwards
    <3>2. StateOK(posed)
      BY <2>2, CopiesOK
    <3>3. TallyOK(posed, slot, signed')
      BY <2>2, <2>3, <3>1, PosedTally
    <3> HIDE DEF posed
    <3>4. StateOK(pending)
      BY <2>4, <3>2, AddPendingVotesOK
    <3>5. TallyOK(pending, slot, signed')
      <4>1. slot \in Nat
        BY <2>7, ClockOK
      <4> HIDE DEF slot
      <4> QED
        BY <2>4, <2>5, <3>2, <3>3, <4>1, CountedVotes
    <3> HIDE DEF pending
    <3>6. StateOK(marked) /\ TallyOK(marked, slot, signed')
      BY <3>4, <3>5, CopiesOK, CopiesTally
    <3> HIDE DEF marked
    <3>7. TallyOK(CollectingVotes(marked), SlotOf(now'), signed')
      BY <1>1, <3>6, CopiesTally
    <3>8. state' = [state EXCEPT ![n] = CollectingVotes(marked)] /\ UNCHANGED newBlocks
      BY <2>9 DEF ProposeBlock, marked, pending, posed
    <3> QED
      BY <1>1, <2>7, <3>7, <3>8, OneTally, VotesKept, AnnouncedKept DEF VotingInv
  <2> QED
    BY <2>6, <2>8, <2>9
<1> QED
  BY <1>2, <1>3 DEF RunLoopTask

LEMMA OnReceiveProposeVotes ==
  ASSUME TypeOK, VotingInv, NEW n \in Node, NEW p, OnReceivePropose(n, p)
  PROVE  VotingInv'
<1>1. /\ UNCHANGED <<now, newBlocks>> /\ now \in Nat
      /\ Tallies /\ VotesSigned /\ AnnouncedCertified
  BY DEF OnReceivePropose, VotingInv, TypeOK
<1>2. CASE VoteFor(n, p)
  <2> DEFINE s     == MarkProposeAsReceived(state[n], p)
             votes == CreateVotes(GetActiveDelegateKeypairs(n, p.height), p.height, p.id)
  <2>1. \/ state' = [state EXCEPT ![n] = s] /\ UNCHANGED <<voteMsgs, signed>>
        \/ /\ state' = [state EXCEPT ![n] = SetLastPropose(s, now, p)]
           /\ voteMsgs' = voteMsgs \cup {[to |-> p.address, votes |-> votes]}
           /\ signed' = signed \cup votes.signatures
    BY <1>2 DEF VoteFor
  <2>2. Onwards
    BY <1>1, <2>1 DEF Onwards
  <2>3. /\ StateOK(state[n])
        /\ TallyOK(state[n], SlotOf(now'), signed')
    BY <1>1, <2>2, ClockOK, TallyStays DEF TypeOK, StatesOK, Tallies, Onwards
  <2>4. StateOK(s) /\ TallyOK(s, SlotOf(now'), signed')
    BY <2>3, CopiesOK, CopiesTally
  <2> HIDE DEF s, votes
  <2>5. TallyOK(SetLastPropose(s, now, p), SlotOf(now'), signed')
    BY <2>4, CopiesTally
  <2>6. Tallies'
    BY <1>1, <2>1, <2>2, <2>4, <2>5, OneTally
  <2>7. VotesSigned'
    BY <1>1, <2>1 DEF VotesSigned
  <2> QED
    BY <1>1, <2>2, <2>6, <2>7, AnnouncedKept DEF VotingInv
<1>3. CASE UNCHANGED <<state, voteMsgs, signed>>
  <2>1. Onwards
    BY <1>1, <1>3 DEF Onwards
  <2> QED
    BY <1>1, <1>3, <2>1, TalliesKept, VotesKept, AnnouncedKept DEF VotingInv
<1> QED
  BY <1>2, <1>3 DEF OnReceivePropose

LEMMA OnReceiveVotesVotes ==
  ASSUME TypeOK, VotingInv, NEW n \in Node, NEW m, OnReceiveVotes(n, m)
  PROVE  VotingInv'
<1> DEFINE s == AddPendingVotes(state[n], m.votes)
<1>1. /\ UNCHANGED <<now, voteMsgs, signed>> /\ Onwards
      /\ Tallies /\ VotesSigned /\ AnnouncedCertified
  BY DEF OnReceiveVotes, VotingInv, TypeOK, Onwards
<1>2. /\ StateOK(state[n]) /\ VotesOK(m.votes)
      /\ m.votes.signatures \subseteq signed
      /\ TallyOK(state[n], SlotOf(now), signed)
  BY <1>1 DEF OnReceiveVotes, TypeOK, StatesOK, VoteMsgsOK, Tallies, VotesSigned
<1>3. StateOK(s) /\ TallyOK(s, SlotOf(now), signed)
  BY <1>1, <1>2, ClockOK, AddPendingVotesOK, CountedVotes
<1>4. CASE HasEnoughVotes(s.pendingVotes)
  <2>1. ProcessBlock(n, s, s.pendingBlock, s.pendingVotes, "local") /\ UNCHANGED voteMsgs
    BY <1>4 DEF OnReceiveVotes
  <2> HIDE DEF s
  <2>2. BlockOK(s.pendingBlock) /\ VotesOK(s.pendingVotes)
    BY <1>3, <1>4, EnoughVotes DEF StateOK
  <2>3. s.pendingVotes.id = BlockId(s.pendingBlock) => CertifiedBy(signed', s.pendingBlock)
    <3>1. s.pendingVotes.id = BlockId(s.pendingBlock) => VotesFor(s.pendingVotes, s.pendingBlock)
      BY <1>3 DEF TallyOK, TallyFits
    <3>2. s.pendingVotes.signatures \subseteq signed'
      BY <1>1, <1>3 DEF TallyOK
    <3> QED
      BY <1>4, <2>2, <3>1, <3>2, QuorumCertifies
  <2> QED
    BY <1>1, <1>3, <2>1, <2>2, <2>3, ProcessBlockVotes, VotesKept DEF VotingInv
<1>5. CASE ~ HasEnoughVotes(s.pendingVotes)
  <2>1. state' = [state EXCEPT ![n] = s] /\ UNCHANGED newBlocks
    BY <1>5 DEF OnReceiveVotes
  <2> HIDE DEF s
  <2> QED
    BY <1>1, <1>3, <2>1, OneTally, VotesKept, AnnouncedKept DEF VotingInv
<1> QED
  BY <1>4, <1>5

LEMMA OnReceiveBlockVotes ==
  ASSUME TypeOK, VotingInv, NEW n \in Node, NEW m, OnReceiveBlock(n, m)
  PROVE  VotingInv'
<1>1. /\ UNCHANGED <<now, voteMsgs, signed>> /\ Onwards
      /\ Tallies /\ VotesSigned /\ AnnouncedCertified
      /\ BlockOK(m.block) /\ VotesOK(m.votes) /\ StateOK(state[n])
  BY DEF OnReceiveBlock, VotingInv, TypeOK, Onwards, NewBlocksOK, StatesOK
<1> DEFINE s == MarkBlockAsReceived(state[n], m.block)
<1>2. StateOK(s) /\ TallyOK(s, SlotOf(now'), signed')
  <2>1. TallyOK(state[n], SlotOf(now'), signed')
    BY <1>1 DEF Tallies
  <2> QED
    BY <1>1, <2>1, CopiesOK, CopiesTally
<1> HIDE DEF s
<1>3. CASE ProcessBlock(n, s, m.block, m.votes, "broadcast")
  BY <1>1, <1>2, <1>3, ProcessBlockVotes, VotesKept DEF VotingInv
<1>4. CASE state' = [state EXCEPT ![n] = s] /\ UNCHANGED newBlocks
  BY <1>1, <1>2, <1>4, OneTally, VotesKept, AnnouncedKept DEF VotingInv
<1>5. CASE UNCHANGED <<state, db, newBlocks>>
  BY <1>1, <1>5, TalliesKept, VotesKept, AnnouncedKept DEF VotingInv
<1> QED
  BY <1>3, <1>4, <1>5 DEF OnReceiveBlock, s

LEMMA LoadBlockVotes ==
  ASSUME TypeOK, VotingInv, NEW n \in Node, LoadBlock(n)
  PROVE  VotingInv'
<1>1. /\ UNCHANGED <<now, voteMsgs, signed>> /\ Onwards
      /\ Tallies /\ VotesSigned /\ AnnouncedCertified /\ StateOK(state[n])
  BY DEF LoadBlock, VotingInv, TypeOK, Onwards, StatesOK
<1>2. PICK block \in sync[n].batch : ProcessBlock(n, state[n], block, NoVotes, "sync")
  BY DEF LoadBlock
<1>3. BlockOK(block)
  BY DEF LoadBlock, TypeOK, SyncsOK, SyncOK, Idle, CommonPhase
<1> QED
  BY <1>1, <1>2, <1>3, NoVotesOK, ProcessBlockVotes, VotesKept DEF VotingInv

(* A rollback keeps the pending block and its votes *)
LEMMA FindUpdateVotes ==
  ASSUME TypeOK, VotingInv, NEW n \in Node, FindUpdate(n)
  PROVE  VotingInv'
<1>1. /\ UNCHANGED <<now, voteMsgs, newBlocks, signed>> /\ Onwards
      /\ Tallies /\ VotesSigned /\ AnnouncedCertified /\ StateOK(state[n])
  BY DEF FindUpdate, VotingInv, TypeOK, Onwards, StatesOK
<1>2. CASE UNCHANGED state
  BY <1>1, <1>2, TalliesKept, VotesKept, AnnouncedKept DEF VotingInv
<1>3. CASE \E block : \/ state' = [state EXCEPT ![n] = SetLastBlock(@, block)]
                      \/ state' = [state EXCEPT ![n] = @]
  <2>1. PICK block : \/ state' = [state EXCEPT ![n] = SetLastBlock(state[n], block)]
                     \/ state' = [state EXCEPT ![n] = state[n]]
    BY <1>3
  <2>2. TallyOK(state[n], SlotOf(now'), signed')
    BY <1>1 DEF Tallies
  <2>3. TallyOK(SetLastBlock(state[n], block), SlotOf(now'), signed')
    BY <1>1, <2>2, CopiesKeep, CopiesKeepKeys, TallyKept
  <2> QED
    BY <1>1, <2>1, <2>2, <2>3, OneTally, VotesKept, AnnouncedKept DEF VotingInv
<1> QED
  BY <1>2, <1>3 DEF FindUpdate

LEMMA RestartVotes ==
  ASSUME TypeOK, VotingInv, NEW n \in Node, Restart(n)
  PROVE  VotingInv'
<1>1. PICK height \in DOMAIN chain[n] :
        state' = [state EXCEPT ![n] = InitialState(chain[n][height])]
  BY DEF Restart
<1> DEFINE s == InitialState(chain[n][height])
<1>2. /\ UNCHANGED <<now, voteMsgs, newBlocks, signed>> /\ Onwards
      /\ Tallies /\ VotesSigned /\ AnnouncedCertified
  BY DEF Restart, VotingInv, TypeOK, Onwards
<1>3. /\ StateOK(s) /\ s.pendingVotes = NoVotes /\ s.votesKeySet = {}
      /\ ~ HasPending(s)
  BY InitialStateOK, NoVotesEmpty DEF TypeOK, ChainsOK, RowsOK, InitialState, HasPending
<1>4. state' = [state EXCEPT ![n] = s]
  BY <1>1
<1> HIDE DEF s
<1>5. TallyOK(s, SlotOf(now'), signed')
  BY <1>3, EmptyTally
<1> QED
  BY <1>2, <1>4, <1>5, OneTally, VotesKept, AnnouncedKept DEF VotingInv

(* The other steps change no tally, no vote and no announced block *)
LEMMA OtherVotes ==
  ASSUME TypeOK, VotingInv, UNCHANGED <<state, messages, signed>>,
         now' \in Nat, now <= now'
  PROVE  VotingInv'
<1>1. Onwards
  BY DEF Onwards
<1> QED
  BY <1>1, TalliesKept, VotesKept, AnnouncedKept DEF VotingInv

-----------------------------------------------------------------------------
(* The theorems *)

LEMMA VotingInit == Init => VotingInv
<1> SUFFICES ASSUME Init PROVE VotingInv
  OBVIOUS
<1>1. VotesSigned /\ AnnouncedCertified
  BY DEF Init, VotesSigned, AnnouncedCertified
<1>2. Tallies
  <2> SUFFICES ASSUME NEW n \in Node PROVE TallyOK(state[n], SlotOf(now), signed)
    BY DEF Tallies
  <2> DEFINE s == InitialState(Genesis)
  <2>1. /\ StateOK(s) /\ s.pendingVotes = NoVotes /\ s.votesKeySet = {}
        /\ ~ HasPending(s)
    BY GenesisOK, InitialStateOK, NoVotesEmpty DEF InitialState, HasPending
  <2>2. state[n] = s
    BY DEF Init
  <2> HIDE DEF s
  <2> QED
    BY <2>1, <2>2, EmptyTally
<1> QED
  BY <1>1, <1>2 DEF VotingInv

LEMMA VotingStep == TypeOK /\ VotingInv /\ [Next]_vars => VotingInv'
<1> SUFFICES ASSUME TypeOK, VotingInv, [Next]_vars PROVE VotingInv'
  OBVIOUS
<1>1. now \in Nat
  BY DEF TypeOK
<1>2. CASE UNCHANGED <<now, state, messages, signed>>
  BY <1>1, <1>2, OtherVotes
<1>3. CASE Tick
  <2>1. now' \in Nat /\ now <= now' /\ UNCHANGED <<state, messages, signed>>
    BY <1>1, <1>3 DEF Tick
  <2> QED
    BY <2>1, OtherVotes
<1>4. CASE \E n \in Node : RunTask(n)
  <2>1. PICK n \in Node : RunTask(n)
    BY <1>4
  <2>2. CASE \E task \in tasks[n] : RunLoopTask(n, task)
    BY <2>2, RunLoopTaskVotes
  <2>3. CASE \E task \in tasks[n] : \/ \E peer \in Node : StartSync(n, task, peer)
                                   \/ SyncBlocksFromPeer(n, task)
                                   \/ GetHeightFails(n, task)
    BY <1>2, <2>3 DEF StartSync, SyncBlocksFromPeer, GetHeightFails
  <2> QED
    BY <2>1, <2>2, <2>3 DEF RunTask
<1>5. CASE \E n \in Node : Receive(n)
  BY <1>5, OnReceiveProposeVotes, OnReceiveVotesVotes, OnReceiveBlockVotes DEF Receive
<1>6. CASE \E n \in Node : SyncStep(n)
  <2>1. CASE \E n \in Node : FindUpdate(n)
    BY <2>1, FindUpdateVotes
  <2>2. CASE \E n \in Node : LoadBlock(n)
    BY <2>2, LoadBlockVotes
  <2>3. CASE \E n \in Node : RequestBlocks(n) \/ SyncFails(n)
    BY <1>2, <2>3 DEF RequestBlocks, SyncFails
  <2> QED
    BY <1>6, <2>1, <2>2, <2>3 DEF SyncStep
<1>7. CASE \E n \in Node : Restart(n)
  BY <1>7, RestartVotes
<1>8. CASE \E n \in Node : Loop(n) \/ NextSync(n)
  BY <1>2, <1>8 DEF Loop, NextSync
<1>9. CASE UNCHANGED vars
  BY <1>2, <1>9 DEF vars
<1> QED
  BY <1>3, <1>4, <1>5, <1>6, <1>7, <1>8, <1>9 DEF Next

(***************************************************************************)
(* What a node has counted, every vote that is under way and every block   *)
(* that was announced rests on signatures that were given: votes with the  *)
(* id of a block are votes for that block, also when the pending block was *)
(* replaced while they came in.                                            *)
(***************************************************************************)
THEOREM VotingCorrect == Spec => []VotingInv
BY TypeCorrect, VotingInit, VotingStep, PTL DEF Spec

(***************************************************************************)
(* addPendingVotes never counts a delegate twice: the signatures of a      *)
(* tally come from as many delegates, whichever votes arrive twice, late   *)
(* or for a block that was replaced, and whenever the tally is dropped.    *)
(***************************************************************************)
THEOREM DistinctSignersCorrect == Spec => []DistinctSigners
<1>1. VotingInv => DistinctSigners
  BY DEF VotingInv, Tallies, TallyOK, KeysFit, DistinctSigners
<1> QED
  BY <1>1, VotingCorrect, PTL

(***************************************************************************)
(* A block taken from a broadcast was signed by more than two thirds of    *)
(* the delegates, although its receiver sees six signatures only, nodes    *)
(* restart, and a proposer may count stale votes: then the id of the votes *)
(* is not the one of the block, and the receiver refuses it.               *)
(***************************************************************************)
THEOREM AcceptedCertifiedCorrect == Spec => AcceptedCertified
<1>1. TypeOK /\ VotingInv =>
        [\A n \in Node : \A m \in newBlocks :
           OnReceiveBlock(n, m) /\ chain'[n] # chain[n] => Certified(m.block)]_vars
  <2> SUFFICES ASSUME VotingInv, NEW n \in Node, NEW m \in newBlocks,
                      OnReceiveBlock(n, m), chain'[n] # chain[n]
               PROVE  Certified(m.block)
    OBVIOUS
  <2>1. BlockPasses(n, MarkBlockAsReceived(state[n], m.block), m.block, m.votes, "broadcast")
    BY DEF OnReceiveBlock, ProcessBlock
  <2>2. m.votes.id = BlockId(m.block)
    BY <2>1 DEF BlockPasses, VerifyBlock
  <2> QED
    BY <2>2 DEF VotingInv, AnnouncedCertified
<1> QED
  BY <1>1, TypeCorrect, VotingCorrect, PTL DEF AcceptedCertified

=============================================================================
