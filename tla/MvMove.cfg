SPECIFICATION MvSpec
CONSTANTS
  Run = {r1, r2}
  Word = {w1, w2}
  Size = 2
CHECK_DEADLOCK FALSE
INVARIANT NeverLost
PROPERTY AskedFirst
