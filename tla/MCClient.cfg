\* Two calls at a time, each with any source and any answer.
SPECIFICATION Spec
CONSTANTS
  c1 = c1
  c2 = c2
  Calls = {c1, c2}
  Sources <- AllSources
  Answers <- MCAnswers
  MaxInt32 = 2
  MaxInt64 = 5
  Moments <- MCMoments
  Second <- MCSecond
SYMMETRY Symmetry
CHECK_DEADLOCK FALSE
INVARIANTS
  TypeOK
  ReturnsAreCleanedUp
  ResultIsWholeAnswer
