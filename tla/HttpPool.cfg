SPECIFICATION PoolSpec
CONSTANTS
  Calls = {"tx", "proof"}
  MemberCount = 3
  MaxAttempts = 2
  MaxBytes = 2
  MaxChunk = 2
INVARIANTS
  ExhaustedMeansAll
  ServersAreRecorded
PROPERTY
  Settles
\* Every request has settled.
CHECK_DEADLOCK FALSE
