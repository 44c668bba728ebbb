\* Two requests at once, every pair of kinds.
SPECIFICATION Spec
CONSTANTS
  r1 = r1
  r2 = r2
  Requests = {r1, r2}
  HttpRequests <- MCHttpRequests
SYMMETRY Symmetry
CHECK_DEADLOCK FALSE
INVARIANTS
  TypeOK
  AnswerTellsTruth
  NothingKeptBeforeAuthentication
  FormFilesRemovedOrReported
  TelemetryMatchesAnswer
  CountersAddUp
