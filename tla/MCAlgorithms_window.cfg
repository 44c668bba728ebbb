\* The csv sniff only; the property is expected to fail.
SPECIFICATION Spec
CONSTANTS
  Subjects = {"csv"}
  AllowedTokens <- MCAllowed
  Fragments <- MCFragments
  Characters <- MCCharacters
  Members <- MCMembers
  MaxName = 4
  MaxSize = 2
  Half = 2048
  Kilo = 4
  Window = 4
  MaxPayload = 7
  MaxInt32 = 2
  MaxInt64 = 5
  Moments <- MCMoments
  Second <- MCSecond
  MaxMembers = 6
CHECK_DEADLOCK FALSE
INVARIANT CsvIsAccepted
