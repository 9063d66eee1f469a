SPECIFICATION Spec
CONSTANTS
  InitialSubsidy = 4
  EpochBlocks = 2
  FinalEpoch = 3
  CycleBlocks = 6
  DiffchangeBlocks = 3
  Letters = 3
  MaxBlocks = 3
  MaxSpends = 2
  MaxTxs = 5
  MaxInstructions = 3
  Deepest = 2
  MaxLeaves = 4
  Radix = 4
  TargetDigits = 6
  targetTimespan = 4
  PowLimitExponent = 5
  PowLimitMantissa = 15
  LongestPeriod = 18
  TxidBytes = 2
  IndexBytes = 2
  ByteValues = 2
  MaxDepth = 4
  Entries <- MCEntries
  TxidLists <- MCTxidLists
  MaxEntries = 2
  Words = {"custody", "sat", "proof", "verify", "parse", "id", "id#body",
           "id/content#delegated", "id/metadata", "3", "L1", ""}
  Names = {"json", "help", "bundle", "bundel", "max-steps", "verify", "out", "expect-id"}
  MaxTokens = 4
  Header <- MCHeader
  Outside <- MCOutside
  Base <- MCBase
  Parent <- MCParent
  Bits <- MCBits
  Time <- MCTime
  MeetsTarget <- MCMeetsTarget
  Checkpoint <- MCCheckpoint
  CumWork <- MCCumWork
  BaseHeight = 2
  RetargetInterval = 2
  NoRetarget = FALSE
  MtpWindow = 3
  FutureDrift = 5
  WorkFromBits <- MCWorkFromBits
  NextBits <- MCNextBits
  HasFile = TRUE
  InitialFiles <- MCInitialFiles
  Faults <- MCFaults
  FirstClock = 1
  LastClock = 4
  MaxBatch = 2
INVARIANT NonItemsAreSkipped
\* All but the file of headers is complete in the end.
CHECK_DEADLOCK FALSE
