---------------------------- MODULE MCConsensus -----------------------------
(* Instances of Consensus small enough for TLC *)
EXTENDS Consensus, TLC

(***************************************************************************)
(* Four delegates in one round: n1 holds two of the secrets and the first  *)
(* two slots, n2 the third, d4 has no node.  Three votes are a quorum, so  *)
(* each needs the other, and n1 proposes twice at a height when the vote   *)
(* for its first block is late.                                            *)
(***************************************************************************)
VotingNodes == {"n1", "n2"}
VotingDelegates == {"d1", "d2", "d3", "d4"}
VotingKeys == [n1 |-> {"d1", "d2"}, n2 |-> {"d3"}]
VotingList == [i \in 0 .. 3 |-> CASE i = 0 -> "d4" [] i = 1 -> "d1"
                                  [] i = 2 -> "d2" [] i = 3 -> "d3"]
VotingSchedule == [r \in 0 .. CalculateRound(MaxHeight) |-> VotingList]

PayloadSymmetry == Permutations(Payload)

(***************************************************************************)
(* n1 holds three of four secrets and commits its blocks alone, as the     *)
(* node with 68 secrets of test/e2e/68-secrets.test.ts does; n2 needs the  *)
(* votes of n1, and has the second slot.                                   *)
(***************************************************************************)
MajorityNodes == {"n1", "n2"}
MajorityDelegates == {"d1", "d2", "d3", "d4"}
MajorityKeys == [n1 |-> {"d1", "d2", "d3"}, n2 |-> {"d4"}]
MajorityList == [i \in 0 .. 3 |-> CASE i = 0 -> "d3" [] i = 1 -> "d4"
                                     [] i = 2 -> "d1" [] i = 3 -> "d2"]
MajoritySchedule == [r \in 0 .. CalculateRound(MaxHeight) |-> MajorityList]

(***************************************************************************)
(* The same, but n1 commits blocks 1 and 2 alone before n2 has a slot:     *)
(* time for a fork at height 3 that n2 has to leave, where numerals of     *)
(* base 3 get longer.                                                      *)
(***************************************************************************)
ForkList == [i \in 0 .. 3 |-> CASE i = 0 -> "d3" [] i = 1 -> "d1"
                                 [] i = 2 -> "d2" [] i = 3 -> "d4"]
ForkSchedule == [r \in 0 .. CalculateRound(MaxHeight) |-> ForkList]

(***************************************************************************)
(* Five delegates, a quorum of four, one delegate without a node: n1 needs *)
(* the votes of both other nodes, and may collect them for two blocks.     *)
(***************************************************************************)
StaleNodes == {"n1", "n2", "n3"}
StaleDelegates == {"d1", "d2", "d3", "d4", "d5"}
StaleKeys == [n1 |-> {"d1", "d2"}, n2 |-> {"d3"}, n3 |-> {"d4"}]
StaleList == [i \in 0 .. 4 |-> CASE i = 0 -> "d3" [] i = 1 -> "d1" [] i = 2 -> "d2"
                                 [] i = 3 -> "d4" [] i = 4 -> "d5"]
StaleSchedule == [r \in 0 .. CalculateRound(MaxHeight) |-> StaleList]

=============================================================================
