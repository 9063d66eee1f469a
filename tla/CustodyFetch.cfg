SPECIFICATION Spec
CONSTANTS
  Servers <- MCServers
  Endpoints <- MCEndpoints
  ServerOf <- MCServerOf
  Anchors <- MCAnchors
  Backends <- MCBackends
  Paths <- MCPaths
  MinAgreement = 2
  MinConfirmations = 2
  CheckpointHeights = {2}
  MaxHeight = 3
  MaxHops = 1
  MaxLiars = 3
  MaxDown = 1
  AlwaysSection = FALSE
INVARIANTS
  CustodyIsTrue
  DepthIsReal
  BuildImpliesVerify
  OneHonestBackendSuffices
  UnanimousRefusalIsTrue
CHECK_DEADLOCK FALSE
