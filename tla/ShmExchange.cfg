SPECIFICATION FairCrashSpec
CONSTANTS
  Client = {c1, c2}
  Server = server
  SEMVMX = 5
  MaxAsk = 2
  Word = {apple, zebra}
  Listed = {apple}
  XXXX = XXXX
  Junk = Junk
CHECK_DEADLOCK FALSE
INVARIANTS TypeOK Exclusion MutexAvailable AnswerReady OnlyOnRequest
PROPERTY Answered
