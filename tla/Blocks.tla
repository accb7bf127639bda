------------------------------- MODULE Blocks -------------------------------
(***************************************************************************)
(* Blocks, slots, rounds and votes of a gny node: the data every other     *)
(* module of the consensus model works on, and the pure functions of       *)
(* packages/base and packages/utils that compute on them.                  *)
(*                                                                         *)
(* A timestamp is kept as the number of its slot.  The wall clock of the   *)
(* nodes counts half slots of five seconds: the source tells apart the     *)
(* slot an instant lies in (Slots.getSlotNumber), whether the instant lies *)
(* in the first half of the slot (Delegates.isLoopReady) and whether two   *)
(* instants are less than five seconds apart (Blocks.onReceivePropose).    *)
(***************************************************************************)
EXTENDS Integers, Sequences, FiniteSets, Heights

CONSTANTS
  Node,           \* the running nodes
  Delegate,       \* public keys of the delegates
  KeysOf,         \* KeysOf[n]: the delegates whose secrets node n holds
  DELEGATES,      \* slots of a round, 101 in the network
  Schedule,       \* Schedule[r][i]: the delegate at place i of the list of round r
  RemoteQuorum,   \* signatures a block message carries, 6 in the network
  ForkLimit,      \* blocks a node looks back for a common block, 5 in the network
  Payload,        \* the possible contents (transactions) of a block
  MaxHeight,      \* bound: no block above this height is forged
  MaxNow,         \* bound: the clock stops here
  Null            \* undefined, null

CalculateRound(height) == (height + DELEGATES - 1) \div DELEGATES

ASSUME BlocksAssumption ==
  /\ DELEGATES \in Nat \ {0}
  /\ MaxHeight \in Nat
  /\ MaxNow \in Nat \ {0, 1}
  /\ RemoteQuorum \in Nat
  /\ ForkLimit \in Nat \ {0}
  /\ Radix \in Nat \ {0, 1}
  /\ IsFiniteSet(Delegate)
  /\ KeysOf \in [Node -> SUBSET Delegate]
  /\ Schedule \in [0 .. CalculateRound(MaxHeight) -> [0 .. DELEGATES - 1 -> Delegate]]

-----------------------------------------------------------------------------
(* Time *)

SlotOf(time) == time \div 2

EarlyInSlot(time) == time % 2 = 0

(***************************************************************************)
(* Less than five seconds passed between two instants: always so within a  *)
(* half slot, and possible, not certain, across one boundary.              *)
(***************************************************************************)
SurelyWithin5s(then, time) == time = then

-----------------------------------------------------------------------------
(* Blocks.  The id of a block is the hash of its bytes, and sha256 is taken *)
(* to be free of collisions: the id is the tuple of the hashed fields.      *)

BlockId(b) == <<b.height, b.prevBlockId, b.slot, b.delegate, b.payload>>

HeightOfId(id) == id[1]

SlotOfId(id) == id[3]

Genesis == [height |-> 0, prevBlockId |-> Null, slot |-> 0,
            delegate |-> Null, payload |-> Null]

GenerateBlockShort(key, slot, lastBlock, payload) ==
  [height      |-> lastBlock.height + 1,
   prevBlockId |-> BlockId(lastBlock),
   slot        |-> slot,
   delegate    |-> key,
   payload     |-> payload]

-----------------------------------------------------------------------------
(* The delegates of a height and the slots they own *)

GenerateDelegateList(height) == Schedule[CalculateRound(height)]

DelegatesAt(height) == {GenerateDelegateList(height)[i] : i \in 0 .. DELEGATES - 1}

OwnerOf(height, slot) == GenerateDelegateList(height)[slot % DELEGATES]

GetActiveDelegateKeypairs(n, height) == KeysOf[n] \cap DelegatesAt(height)

(* The first slot from slot on, within a round, that a key of n owns *)
OwnSlotsFrom(n, height, slot) ==
  {s \in slot .. slot + DELEGATES - 1 : OwnerOf(height, s) \in KeysOf[n]}

-----------------------------------------------------------------------------
(* Votes.  A signature records what its delegate has signed; none is forged. *)

CreateVotes(keys, height, id) ==
  [height     |-> height,
   id         |-> id,
   signatures |-> {[publicKey |-> k, height |-> height, id |-> id] : k \in keys}]

(* pendingVotes is undefined until the first signature is taken over *)
NoVotes == CreateVotes({}, 0, Null)

VerifyVote(height, id, signature) == signature.height = height /\ signature.id = id

(* Mutant: half of the delegates are enough *)
HasEnoughVotesHalf(votes) == 2 * Cardinality(votes.signatures) >= DELEGATES

HasEnoughVotes(votes) == 3 * Cardinality(votes.signatures) > 2 * DELEGATES

HasEnoughVotesRemote(votes) == Cardinality(votes.signatures) >= RemoteQuorum

(* signatures.slice(0, 6): the array is kept as a set, any six may come first *)
FirstSignatures(signatures) ==
  IF Cardinality(signatures) <= RemoteQuorum
  THEN {signatures}
  ELSE {first \in SUBSET signatures : Cardinality(first) = RemoteQuorum}

=============================================================================
