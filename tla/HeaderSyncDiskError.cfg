SPECIFICATION Spec
CONSTANTS
  Header <- MCHeader
  Outside <- MCOutside
  Base <- MCBase
  Parent <- MCParent
  Bits <- MCBits
  Time <- MCTime
  MeetsTarget <- MCMeetsTarget
  Checkpoint <- MCCheckpoint
  CumWork <- MCCumWork
  BaseHeight = 2
  RetargetInterval = 2
  NoRetarget = FALSE
  MtpWindow = 3
  FutureDrift = 5
  WorkFromBits <- MCWorkFromBits
  NextBits <- MCNextBits
  HasFile = TRUE
  InitialFiles <- MCInitialFiles
  Faults <- MCDiskFaults
  FirstClock = 1
  LastClock = 4
  MaxBatch = 2
  Syncers = {s1}
  BatchSize = 2
  MaxReorg = 2
  Pinned <- MCPinned
  MaxServerTip = 7
INVARIANT DirtyTracksFile
