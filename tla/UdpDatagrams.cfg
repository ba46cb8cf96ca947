SPECIFICATION FairSpec
CONSTANTS
  c1 = c1
  c2 = c2
  Client = {c1, c2}
  h_length = 2
  Home <- MCHome
  Asked <- MCAsked
  Answering <- MCAnswering
  MaxAsk = 2
  MaxCopies = 3
  Word = {1, 2, 3}
  Listed = {1, 3}
  XXXX = XXXX
  Junk = Junk
  Source <- MCSource
CHECK_DEADLOCK FALSE
INVARIANT OneOnItsWay
PROPERTY ImplementsService
