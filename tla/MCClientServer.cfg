\* Calls share nothing but counters, and those are checked with Client: one
\* call is enough.
SPECIFICATION SystemSpec
CONSTANTS
  c1 = c1
  Calls = {c1}
  Sources = {"right", "wrong", "skip"}
  Paths = {"/upload", "/other"}
  Answers <- NoAnswers
  MaxInt32 = 2
  MaxInt64 = 5
  Moments <- MCMoments
  Second <- MCSecond
CHECK_DEADLOCK FALSE
INVARIANTS
  ResultTellsTruth
  WholeAnswersAreUnderstood
PROPERTY EveryUploadFileReturns
