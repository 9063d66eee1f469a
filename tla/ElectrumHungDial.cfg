SPECIFICATION LoopSpec
CONSTANTS
  Requests = {r1, r2}
  Notice = notice
  MaxSockets = 2
  MaxBuffer = 1
PROPERTY HungDialRejects
CHECK_DEADLOCK FALSE
