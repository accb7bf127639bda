------------------------------- MODULE Ledger -------------------------------
(***************************************************************************)
(* What the Block table of every node promises, whatever the node does to  *)
(* agree with the others: it grows by one block on top of its last one, or *)
(* loses fewer than ForkLimit blocks from its end, and never genesis.      *)
(***************************************************************************)
EXTENDS Blocks

VARIABLE chain    \* chain[n]: the Block table of node n, by height from 0

LastOf(blocks) == blocks[Len(blocks)]

UpTo(blocks, height) == SubSeq(blocks, 1, height + 1)

Init == chain = [n \in Node |-> <<Genesis>>]

(* A block of a later slot, made for the last block of the table *)
AppendBlock(n) ==
  \E key \in Delegate, slot \in 0 .. SlotOf(MaxNow) + 1, payload \in Payload :
    /\ slot > LastOf(chain[n]).slot
    /\ chain' = [chain EXCEPT ![n] =
                   Append(@, GenerateBlockShort(key, slot, LastOf(@), payload))]

Rollback(n) ==
  \E height \in 0 .. Len(chain[n]) - 1 :
    /\ Len(chain[n]) - 1 - height < ForkLimit
    /\ chain' = [chain EXCEPT ![n] = UpTo(@, height)]

Next == \E n \in Node : AppendBlock(n) \/ Rollback(n)

Spec == Init /\ [][Next]_chain

(***************************************************************************)
(* The Block table is a chain from genesis: heights without gaps, each     *)
(* block naming the id of the one before it, in a later slot.              *)
(***************************************************************************)
ChainLinked ==
  \A n \in Node :
    /\ chain[n][1] = Genesis
    /\ \A i \in 2 .. Len(chain[n]) :
         /\ chain[n][i].height = i - 1
         /\ chain[n][i].prevBlockId = BlockId(chain[n][i - 1])
         /\ chain[n][i].slot > chain[n][i - 1].slot

=============================================================================
