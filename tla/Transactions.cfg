SPECIFICATION Spec
CONSTANTS
  Null = Null
  NoName = NoName
  Refused = Refused
  Radix = 10
  TrsIds <- AllIds
  Content <- AllContent
  MinFee <- Fees
  MinLockHeight = 1
  LockReserve = 5
  MaxVoteItems = 2
  MaxVotes = 2
  MaxExact = 25
  Inexact <- Rounded
  RoundLength = 2
  PublicKeyRank <- KeyRank
  Milestones <- TwoMilestones
  RewardOffset = 1
  RewardDistance = 1
  InitialAmount = 200
  GenesisTrs <- InGenesis
  Senders <- SavingIds
  MaxHeight = 3
  MaxPool = 2
  MaxBlockTrs = 1
  FailedLimit = 1
  ForkLimit = 1
  SyncWhenBusy = FALSE
INVARIANTS StateIsReplay OverlayIsPool ExecutedOnce Conservation VoteWeights MissedRounds SupplyIsRewards
