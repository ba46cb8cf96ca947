SPECIFICATION FairSpec
CONSTANTS
  Client = {c1, c2}
  MaxAsk = 2
  Word = {1, 2, 3, 4}
  Listed = {1, 2, 3}
  XXXX = XXXX
  Junk = Junk
  Source <- MCSource
CHECK_DEADLOCK FALSE
INVARIANTS FirstAnswerCorrect ServerSurvives
PROPERTIES AnswersInOrder FirstAnswered
