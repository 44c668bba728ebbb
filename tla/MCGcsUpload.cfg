\* Two calls at a time, every combination of names and files; no symmetry,
\* since the run checks temporal properties.
SPECIFICATION Spec
CONSTANTS
  r1 = r1
  r2 = r2
  Requests = {r1, r2}
  AllowedTokens <- MCAllowed
  Names <- MCNames
  Files <- MCFiles
  MaxAttempts = 2
  MaxUploadSize = 2
CHECK_DEADLOCK FALSE
INVARIANTS
  TypeOK
  OnlyCompleteValidObjects
  SuccessMeansStored
  AcknowledgedWriteIsNeverLate
  OneVersionPerObject
PROPERTIES
  ImplementsStore
  EveryCallReturns
