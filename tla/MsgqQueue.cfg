SPECIFICATION FairSpec
CONSTANTS
  Client = {c1, c2, c3}
  Pid = {p1, p2}
  ReqBytes = 136
  RepBytes = 488
  QBytes = 624
  MaxAsk = 3
  Word = {1, 2}
  Listed = {1}
  XXXX = XXXX
  Junk = Junk
  Source <- MCSource
CHECK_DEADLOCK FALSE
INVARIANTS TypeOK OnePlace
PROPERTIES ImplementsService Answered
