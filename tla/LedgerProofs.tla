---------------------------- MODULE LedgerProofs ----------------------------
(* What follows from Ledger alone: the Block table of a node is a chain.   *)
EXTENDS Ledger, SequenceTheorems, TLAPS

BlockSet(blocks) == {blocks[i] : i \in DOMAIN blocks}

IsTable(blocks) == blocks \in Seq(BlockSet(blocks)) /\ Len(blocks) > 0

Linked(blocks) ==
  /\ blocks[1] = Genesis
  /\ \A i \in 2 .. Len(blocks) :
       /\ blocks[i].height = i - 1
       /\ blocks[i].prevBlockId = BlockId(blocks[i - 1])
       /\ blocks[i].slot > blocks[i - 1].slot

(* The inductive invariant: besides ChainLinked, the tables are sequences *)
LedgerInv ==
  /\ chain = [n \in Node |-> chain[n]]
  /\ \A n \in Node : IsTable(chain[n]) /\ Linked(chain[n])

(* A table stays a table when a block is appended *)
LEMMA AppendTable ==
  ASSUME NEW blocks, IsTable(blocks), NEW b
  PROVE  /\ IsTable(Append(blocks, b))
         /\ Len(Append(blocks, b)) = Len(blocks) + 1
         /\ \A i \in 1 .. Len(blocks) : Append(blocks, b)[i] = blocks[i]
         /\ Append(blocks, b)[Len(blocks) + 1] = b
<1> DEFINE S == BlockSet(blocks) \cup {b}
           new == Append(blocks, b)
<1>1. blocks \in Seq(S)
  BY SeqMonotonic DEF IsTable
<1>2. /\ new \in Seq(S) /\ Len(new) = Len(blocks) + 1
      /\ \A i \in 1 .. Len(blocks) : new[i] = blocks[i]
      /\ new[Len(blocks) + 1] = b
  BY <1>1, AppendProperties
<1>3. new \in Seq(BlockSet(new))
  <2>1. DOMAIN new = 1 .. Len(new) /\ Len(new) \in Nat
    BY <1>2, LenProperties
  <2>2. new \in [1 .. Len(new) -> BlockSet(new)]
    BY <1>2, <2>1, LenProperties DEF BlockSet
  <2> QED
    BY <2>1, <2>2, SeqDef
<1>4. Len(new) > 0
  BY <1>1, <1>2, LenProperties
<1> QED
  BY <1>2, <1>3, <1>4 DEF IsTable

(* A table stays a table when blocks are dropped from its end *)
LEMMA PrefixTable ==
  ASSUME NEW blocks, IsTable(blocks), NEW len \in 1 .. Len(blocks)
  PROVE  /\ IsTable(SubSeq(blocks, 1, len))
         /\ Len(SubSeq(blocks, 1, len)) = len
         /\ \A i \in 1 .. len : SubSeq(blocks, 1, len)[i] = blocks[i]
<1> DEFINE new == SubSeq(blocks, 1, len)
<1>1. \A i \in 1 .. len : blocks[i] \in BlockSet(blocks)
  BY LenProperties DEF IsTable, BlockSet
<1>2. /\ new \in Seq(BlockSet(blocks)) /\ Len(new) = len
      /\ \A i \in 1 .. len : new[i] = blocks[i]
  BY <1>1, SubSeqProperties
<1>3. new \in Seq(BlockSet(new))
  <2>1. DOMAIN new = 1 .. Len(new) /\ Len(new) \in Nat
    BY <1>2, LenProperties
  <2>2. new \in [1 .. Len(new) -> BlockSet(new)]
    BY <1>2, <2>1, LenProperties DEF BlockSet
  <2> QED
    BY <2>1, <2>2, SeqDef
<1> QED
  BY <1>2, <1>3 DEF IsTable

LEMMA LedgerInit == Init => LedgerInv
<1> SUFFICES ASSUME Init PROVE LedgerInv
  OBVIOUS
<1>1. IsTable(<<Genesis>>) /\ Len(<<Genesis>>) = 1 /\ <<Genesis>>[1] = Genesis
  BY DEF IsTable, BlockSet
<1> QED
  BY <1>1 DEF Init, LedgerInv, Linked

LEMMA LedgerAppend ==
  ASSUME LedgerInv, NEW n \in Node, AppendBlock(n)
  PROVE  LedgerInv'
<1>1. PICK key \in Delegate, slot \in 0 .. SlotOf(MaxNow) + 1, payload \in Payload :
        /\ slot > LastOf(chain[n]).slot
        /\ chain' = [chain EXCEPT ![n] =
             Append(@, GenerateBlockShort(key, slot, LastOf(@), payload))]
  BY DEF AppendBlock
<1> DEFINE old == chain[n]
           b   == GenerateBlockShort(key, slot, LastOf(old), payload)
<1>2. IsTable(old) /\ Linked(old) /\ Len(old) \in Nat \ {0}
  BY LenProperties DEF LedgerInv, IsTable
<1>3. chain' = [chain EXCEPT ![n] = Append(old, b)]
  BY <1>1
<1>4. LastOf(old).height = Len(old) - 1
  BY <1>2 DEF Linked, LastOf, Genesis
<1>5. /\ b.height = Len(old) /\ b.prevBlockId = BlockId(old[Len(old)])
      /\ b.slot > old[Len(old)].slot
  BY <1>1, <1>2, <1>4 DEF GenerateBlockShort, LastOf
<1>6. IsTable(Append(old, b)) /\ Linked(Append(old, b))
  <2> HIDE DEF b
  <2>1. /\ IsTable(Append(old, b))
        /\ Len(Append(old, b)) = Len(old) + 1
        /\ \A i \in 1 .. Len(old) : Append(old, b)[i] = old[i]
        /\ Append(old, b)[Len(old) + 1] = b
    BY <1>2, AppendTable
  <2> QED
    BY <1>2, <1>5, <2>1 DEF Linked
<1> QED
  BY <1>3, <1>6 DEF LedgerInv

LEMMA LedgerRollback ==
  ASSUME LedgerInv, NEW n \in Node, Rollback(n)
  PROVE  LedgerInv'
<1>1. PICK height \in 0 .. Len(chain[n]) - 1 :
        chain' = [chain EXCEPT ![n] = UpTo(@, height)]
  BY DEF Rollback
<1> DEFINE old == chain[n]
           new == SubSeq(old, 1, height + 1)
<1>2. IsTable(old) /\ Linked(old) /\ Len(old) \in Nat \ {0}
  BY LenProperties DEF LedgerInv, IsTable
<1>3. height + 1 \in 1 .. Len(old)
  BY <1>1, <1>2
<1>4. /\ IsTable(new) /\ Len(new) = height + 1
      /\ \A i \in 1 .. height + 1 : new[i] = old[i]
  BY <1>2, <1>3, PrefixTable
<1>5. Linked(new)
  BY <1>2, <1>3, <1>4 DEF Linked
<1>6. chain' = [chain EXCEPT ![n] = new]
  BY <1>1 DEF UpTo
<1> QED
  BY <1>4, <1>5, <1>6 DEF LedgerInv

(***************************************************************************)
(* Appending blocks made for the last one and dropping blocks from the end *)
(* keeps every Block table a chain from genesis, with heights without gaps *)
(* and slots that grow.                                                    *)
(***************************************************************************)
THEOREM LedgerIsChain == Spec => []ChainLinked
<1>1. LedgerInv /\ [Next]_chain => LedgerInv'
  <2> SUFFICES ASSUME LedgerInv, [Next]_chain PROVE LedgerInv'
    OBVIOUS
  <2>1. CASE Next
    BY <2>1, LedgerAppend, LedgerRollback DEF Next
  <2>2. CASE UNCHANGED chain
    BY <2>2 DEF LedgerInv
  <2> QED
    BY <2>1, <2>2
<1>2. LedgerInv => ChainLinked
  BY DEF LedgerInv, Linked, ChainLinked
<1> QED
  BY LedgerInit, <1>1, <1>2, PTL DEF Spec

=============================================================================
