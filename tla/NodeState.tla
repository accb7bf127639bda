----------------------------- MODULE NodeState ------------------------------
(***************************************************************************)
(* The consensus state of one node: the record global.state (IState) and   *)
(* the functions of StateHelper, ConsensusHelper and BlocksHelper that     *)
(* return a changed copy of it.                                            *)
(***************************************************************************)
EXTENDS Blocks

InitialState(lastBlock) ==
  [votesKeySet           |-> {},
   pendingBlock          |-> Null,
   pendingVotes          |-> NoVotes,
   lastBlock             |-> lastBlock,
   blockCache            |-> {},
   proposeCache          |-> {},
   lastPropose           |-> Null,
   privIsCollectingVotes |-> FALSE,
   lastVoteTime          |-> Null]

-----------------------------------------------------------------------------
(* ConsensusHelper *)

(* Mutant: does not look whether a key was counted before *)
FreshSignaturesRecounted(s, votes) ==
  {sig \in votes.signatures :
     /\ s.pendingBlock # Null
     /\ s.pendingBlock.height = votes.height
     /\ BlockId(s.pendingBlock) = votes.id
     /\ VerifyVote(votes.height, votes.id, sig)}

(***************************************************************************)
(* The signatures of votes that addPendingVotes takes over: none unless    *)
(* the votes are for the pending block, and none of a key counted before.  *)
(***************************************************************************)
FreshSignatures(s, votes) ==
  {sig \in votes.signatures :
     /\ s.pendingBlock # Null
     /\ s.pendingBlock.height = votes.height
     /\ BlockId(s.pendingBlock) = votes.id
     /\ sig.publicKey \notin s.votesKeySet
     /\ VerifyVote(votes.height, votes.id, sig)}

AddPendingVotes(s, votes) ==
  LET fresh == FreshSignatures(s, votes)
      old   == IF s.pendingVotes.signatures = {} THEN votes ELSE s.pendingVotes
  IN  IF fresh = {}
      THEN s
      ELSE [s EXCEPT !.votesKeySet  = @ \cup {sig.publicKey : sig \in fresh},
                     !.pendingVotes = [height     |-> old.height,
                                       id         |-> old.id,
                                       signatures |-> s.pendingVotes.signatures \cup fresh]]

SetPendingBlock(s, block) == [s EXCEPT !.pendingBlock = block]

(* Mutant: a pending block of the slot is not noticed *)
HasPendingBlockNever(s, slot) == FALSE

HasPendingBlock(s, slot) == s.pendingBlock # Null /\ s.pendingBlock.slot = slot

ClearState(s) == [s EXCEPT !.votesKeySet  = {},
                           !.pendingBlock = Null,
                           !.pendingVotes = NoVotes]

CollectingVotes(s) == [s EXCEPT !.privIsCollectingVotes = TRUE]

-----------------------------------------------------------------------------
(* BlocksHelper *)

(* The hash of a propose is taken to be free of collisions as well *)
ProposeHash(p) == <<p.height, p.id, p.generatorPublicKey, p.slot, p.address>>

AlreadyReceivedPropose(s, p) == ProposeHash(p) \in s.proposeCache

MarkProposeAsReceived(s, p) == [s EXCEPT !.proposeCache = @ \cup {ProposeHash(p)}]

DoesNewBlockProposeMatchOldOne(s, p) ==
  /\ s.lastPropose # Null
  /\ s.lastPropose.height = p.height
  /\ s.lastPropose.generatorPublicKey = p.generatorPublicKey
  /\ s.lastPropose.id # p.id

SetLastPropose(s, time, p) == [s EXCEPT !.lastVoteTime = time, !.lastPropose = p]

AlreadyReceivedThisBlock(s, block) == BlockId(block) \in s.blockCache

MarkBlockAsReceived(s, block) == [s EXCEPT !.blockCache = @ \cup {BlockId(block)}]

FitsInLine(s, block) ==
  /\ block.height = s.lastBlock.height + 1
  /\ block.prevBlockId = BlockId(s.lastBlock)

IsLongForkAhead(s, block) == block.height > s.lastBlock.height + ForkLimit

SetLastBlock(s, block) == [s EXCEPT !.lastBlock = block]

ProcessBlockCleanup(s) == [s EXCEPT !.blockCache            = {},
                                    !.proposeCache          = {},
                                    !.lastVoteTime          = Null,
                                    !.privIsCollectingVotes = FALSE]

VerifyBlockSlot(s, time, block) ==
  /\ block.slot <= SlotOf(time) + 1
  /\ block.slot > s.lastBlock.slot

=============================================================================
