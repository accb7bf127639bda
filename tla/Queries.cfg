SPECIFICATION HttpSpec
CONSTANTS
  Null = Null
  NoName = NoName
  Refused = Refused
  Radix = 10
  TrsIds <- AllIds
  Content <- AllContent
  MinFee <- Fees
  MinLockHeight = 1
  LockReserve = 5
  MaxVoteItems = 2
  MaxVotes = 2
  MaxExact = 25
  Inexact <- Rounded
  RoundLength = 2
  PublicKeyRank <- KeyRank
  Milestones <- TwoMilestones
  RewardOffset = 1
  RewardDistance = 1
  InitialAmount = 200
  GenesisTrs <- ApiGenesis
  Senders <- ApiIds
  MaxHeight = 3
  MaxPool = 2
  MaxBlockTrs = 0
  FailedLimit = 1
  ForkLimit = 1
  SyncWhenBusy = FALSE
  Missing = Missing
  Requests <- ApiRequests
  Batches <- ApiBatches
  Secrets <- ConfigSecrets
INVARIANTS HttpTypeOK BlocksComplete CountsCovered TransfersResolved IssuedQuantity Conservation
PROPERTY KeysOfDelegates
