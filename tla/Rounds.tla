------------------------------- MODULE Rounds -------------------------------
(***************************************************************************)
(* What committing a block does to the entities beyond its transactions:   *)
(* rounds, their fees and rewards, and the list of delegates of the next   *)
(* round; and the supply of coins as computed from a height.               *)
(***************************************************************************)
EXTENDS Contracts

CONSTANTS
  RoundLength,      \* 101, DELEGATES
  PublicKeyRank,    \* the order of the public keys, by the names of their owners
  Milestones,       \* REWARDS.MILESTONES
  RewardOffset,     \* REWARDS.OFFSET
  RewardDistance,   \* REWARDS.DISTANCE
  InitialAmount     \* INITIAL_AMOUNT

ASSUME RoundsAssumption ==
  /\ {RoundLength, RewardOffset, RewardDistance} \subseteq Nat \ {0}
  /\ InitialAmount \in Nat
  /\ Milestones \in Seq(Nat) /\ Milestones # <<>>
  /\ \A d, e \in DOMAIN PublicKeyRank :
       PublicKeyRank[d] \in Nat /\ (PublicKeyRank[d] = PublicKeyRank[e] => d = e)
  /\ \A id \in TrsIds :
       Content[id].type = "setUserName" => Content[id].username \in DOMAIN PublicKeyRank

-----------------------------------------------------------------------------
(* Rewards *)

(* A division of integers that truncates, and the absolute value of it *)
CalculateMilestone(height) ==
  LET location == IF height < RewardOffset
                  THEN (RewardOffset - height) \div RewardDistance
                  ELSE (height - RewardOffset) \div RewardDistance
  IN  IF height >= RewardOffset /\ location > Len(Milestones) - 1
      THEN Len(Milestones) - 1
      ELSE location

CalculateReward(height) ==
  IF height < RewardOffset THEN 0 ELSE Milestones[CalculateMilestone(height) + 1]

(***************************************************************************)
(* One milestone of the loop of calculateSupply: the blocks it counts, out *)
(* of those that are left.                                                 *)
(***************************************************************************)
SupplyStep(left, i) ==
  LET rest   == left.height - RewardDistance
      amount == IF rest < 0 THEN left.height % RewardDistance
                ELSE IF i = Len(Milestones) THEN RewardDistance + rest
                ELSE RewardDistance
  IN  [height |-> IF rest < 0 THEN left.height ELSE rest,
       supply |-> left.supply + amount * Milestones[i]]

(* Mutant: the first block with a reward is forgotten *)
CalculateSupplyFromOffset(height) ==
  IF height < RewardOffset
  THEN InitialAmount
  ELSE FoldLeft(SupplyStep, [height |-> height - RewardOffset, supply |-> InitialAmount],
                [i \in 1 .. CalculateMilestone(height) + 1 |-> i]).supply

CalculateSupply(height) ==
  IF height < RewardOffset
  THEN InitialAmount
  ELSE FoldLeft(SupplyStep, [height |-> height - RewardOffset + 1, supply |-> InitialAmount],
                [i \in 1 .. CalculateMilestone(height) + 1 |-> i]).supply

-----------------------------------------------------------------------------
(* Delegates of a round *)

RoundOf(height) == (height + RoundLength - 1) \div RoundLength

EndsRound(height) == height % RoundLength = 0

(* compare: more votes first, then the greater public key *)
Precedes(delegate, d, e) ==
  IF delegate[d].votes # delegate[e].votes
  THEN delegate[d].votes > delegate[e].votes
  ELSE PublicKeyRank[d] > PublicKeyRank[e]

(* The place of a delegate: after all that precede it *)
Place(delegate, d) == Cardinality({e \in DOMAIN delegate : Precedes(delegate, e, d)}) + 1

SortedDelegates(view) ==
  [i \in 1 .. Cardinality(DOMAIN view.delegate) |->
     CHOOSE d \in DOMAIN view.delegate : Place(view.delegate, d) = i]

GetTopDelegates(view) ==
  LET sorted == SortedDelegates(view)
  IN  SubSeq(sorted, 1, Min({RoundLength, Len(sorted)}))

UpdateBookkeeper(view) == [view EXCEPT !.bookkeeper = GetTopDelegates(view)]

-----------------------------------------------------------------------------
(* applyRound *)

GetFeesOfAll(trs) == SumFunction([id \in ToSet(trs) |-> Content[id].fee])

RoundData(view, number) ==
  IF number \in DOMAIN view.round THEN view.round[number] ELSE [fee |-> 0, reward |-> 0]

IncreaseRoundData(view, number, fee, reward) ==
  LET data == RoundData(view, number)
  IN  [view EXCEPT !.round =
         With(@, number, [fee |-> data.fee + fee, reward |-> data.reward + reward])]

UpdateDelegate(view, d, fee, reward) ==
  LET earned == Increase(Increase(view.delegate, {d}, "fees", fee), {d}, "rewards", reward)
  IN  [view EXCEPT !.delegate = earned,
                   !.account = Increase(@, {view.delegate[d].address}, "gny", fee + reward)]

MissBlocks(view, names) == [view EXCEPT !.delegate = Increase(@, names, "missedBlocks", 1)]

(* Mutant: the block that ends the round, which is not in the table yet, is missed *)
ForgedDelegatesOfTable(chain, height, delegate) ==
  [i \in 1 .. RoundLength |-> chain[IF i = RoundLength THEN height - 1 ELSE height - RoundLength + i].delegate]

(* The delegates of the blocks of a round: those of the table, and that of the block *)
ForgedDelegates(chain, height, delegate) ==
  [i \in 1 .. RoundLength |->
     IF i = RoundLength THEN delegate ELSE chain[height - RoundLength + i].delegate]

(* Mutant: a delegate that forged twice in a round is paid once *)
PayForgersOnce(view, forged, fee, reward) ==
  FoldLeft(LAMBDA v, d : UpdateDelegate(v, d, fee, reward), view, SetToSeq(ToSet(forged)))

PayForgers(view, forged, fee, reward) ==
  FoldLeft(LAMBDA v, d : UpdateDelegate(v, d, fee, reward), view, forged)

(* Mutant: the remainder stays where it is *)
PayRoundAverage(view, forged, delegate, data) ==
  LET n == Len(view.bookkeeper)
  IN  PayForgers(view, forged, data.fee \div n, data.reward \div n)

(***************************************************************************)
(* Every forger gets the average of the round, and the last one the        *)
(* remainder, which is the average times the delegates minus the total: it *)
(* is never positive.                                                      *)
(***************************************************************************)
PayRound(view, forged, delegate, data) ==
  LET n       == Len(view.bookkeeper)
      fee     == data.fee \div n
      reward  == data.reward \div n
      paid    == PayForgers(view, forged, fee, reward)
  IN  UpdateDelegate(paid, delegate, fee * n - data.fee, reward * n - data.reward)

ApplyRound(view, chain, height, delegate, trs) ==
  LET produced == [view EXCEPT !.delegate = Increase(@, {delegate}, "producedBlocks", 1)]
      counted  == IncreaseRoundData(produced, RoundOf(height), GetFeesOfAll(trs), CalculateReward(height))
      forged   == ForgedDelegates(chain, height, delegate)
      missed   == MissBlocks(counted, ToSet(counted.bookkeeper) \ ToSet(forged))
      paid     == PayRound(missed, forged, delegate, RoundData(missed, RoundOf(height)))
  IN  CASE height = 0          -> UpdateBookkeeper(view)
        [] ~ EndsRound(height) -> counted
        [] OTHER               -> UpdateBookkeeper(paid)

=============================================================================
