SPECIFICATION RingFairSpec
CONSTANTS
  shmblocks = 3
  MAX_PACKET = 7
CHECK_DEADLOCK FALSE
INVARIANT CountedOnce
PROPERTY NeverBack
PROPERTY ReportsInTime
