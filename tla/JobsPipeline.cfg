SPECIFICATION JobsFairSpec
CONSTANTS
  MaxLines = 2
  MaxStages = 3
  Slots = 4
  Room = 1
CHECK_DEADLOCK FALSE
INVARIANTS OnlyItsEnds
PROPERTIES EndReaches InterruptNotLost
