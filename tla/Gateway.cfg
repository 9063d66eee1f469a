SPECIFICATION Server
CONSTANTS
  Servers <- MCServers
  Endpoints <- MCServers
  ServerOf <- MCServerOf
  Anchors <- MCAnchors
  Backends <- MCBackends
  Ids = {"i", "j"}
  Contents <- MCContents
  Chain <- MCChain
  MinAgreement = 1
  MinConfirmations = 1
  CheckpointHeights = {1}
  MaxHeight = 2
  CacheMaxBytes = 3
  CacheMaxEntry = 2
  Slots = {s1, s2}
  Requests <- MCRequests
  Workloads <- MCWorkloads
  Configs <- MCConfigs
  MaxFaulty = 1
  MaxVersion = 1
  Keys = {k1, k2, k3}
  Client = k1
  Cost = 2
  Capacity = 4
  MaxTracked = 2
  SweepEvery = 2
  IdleFor = 1
  Second = 2
  LastClock = 5
SYMMETRY Alike
INVARIANTS
  CacheAccounted
  CacheHonest
  VerifiedIsTrue
  AnswersFitRequests
  NoFalseAbsence
  RateHolds
  RetryAfterSuffices
CHECK_DEADLOCK FALSE
