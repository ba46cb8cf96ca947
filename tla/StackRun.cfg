SPECIFICATION StackFairSpec
CONSTANTS
  Proc = {parent, child}
  STACK_SIZE = 3
  NUL = NUL
INVARIANTS StackTypeOK Exclusion NothingLost NeverSleepsInside
PROPERTY Finishes
