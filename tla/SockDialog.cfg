SPECIFICATION FairSpec
CONSTANTS
  Client = {c1, c2}
  Backlog = 1
  MaxAsk = 2
  Word = {1, 2}
  Listed = {1}
  XXXX = XXXX
  Junk = Junk
  Source <- MCSource
INVARIANT InStep
PROPERTY ImplementsService
PROPERTY KidEnds
PROPERTY CallsReturn
