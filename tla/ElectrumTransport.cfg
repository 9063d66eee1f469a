SPECIFICATION FairSpec
CONSTANTS
  Requests = {r1, r2, r3}
  Notice = notice
  MaxSockets = 3
  MaxBuffer = 1
INVARIANTS
  EveryWaiterIsTimed
  NeverWedged
PROPERTY
  RequestsSettle
CHECK_DEADLOCK FALSE
