SPECIFICATION Spec
CONSTANTS
  Client = {c1, c2}
  Server = server
  SEMVMX = 15
  MaxAsk = 1
  Word = {apple, zebra}
  Listed = {apple}
  XXXX = XXXX
  Junk = Junk
INVARIANT ResultCorrect
