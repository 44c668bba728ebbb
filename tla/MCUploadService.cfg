\* One request, every way it can end; two signals.
SPECIFICATION ServiceSpec
CONSTANTS
  r1 = r1
  Requests = {r1}
  AllowedTokens <- MCAllowed
  Names <- MCNames
  Files <- MCFiles
  MaxAttempts = 2
  MaxUploadSize = 1
  HttpRequests <- MCHttpRequests
  MaxSignals = 2
CHECK_DEADLOCK FALSE
INVARIANTS
  AnswerMatchesBucket
  CleanExit
PROPERTIES
  PartsBehave
  EveryRequestEnds
