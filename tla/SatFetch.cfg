SPECIFICATION Spec
CONSTANTS
  InitialSubsidy = 4
  EpochBlocks = 2
  FinalEpoch = 3
  CycleBlocks = 6
  DiffchangeBlocks = 3
  Letters = 3
  Servers <- MCServers
  Endpoints <- MCEndpoints
  ServerOf <- MCServerOf
  Anchors <- MCAnchors
  Members <- MCMembers
  Ledgers <- MCLedgers
  MinAgreement = 2
  MinConfirmations = 1
  CheckpointHeights = {2}
  MaxHeight = 4
  MaxSteps = 1
  Boundary = 3
  AlwaysSection = FALSE
  MaxLiars = 3
  MaxDown = 1
INVARIANTS
  SatIsTrue
  BuildImpliesVerify
  OneLiveMemberSuffices
  UnanimousRefusalIsTrue
CHECK_DEADLOCK FALSE
