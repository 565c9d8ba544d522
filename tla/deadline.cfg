SPECIFICATION Spec
CONSTANTS
  NsPerMs = 2
  MsPerSec = 3
  IntMax = 7
  LastStart = 10
  MaxNow = 25
INVARIANTS TypeOK NeverEarly NotLate HandlerOfThisCall
PROPERTIES RunawayEnds
CHECK_DEADLOCK FALSE
