\* Names of four fragments; words of 12 bits, where 1 "megabyte" is 16 bytes
\* and the products wrap from 128 on; a window of four characters and three
\* beyond it; all five fields of an UploadResponse and a repeated one.
SPECIFICATION Spec
CONSTANTS
  Subjects = {"validation", "limit", "csv", "json"}
  AllowedTokens <- MCAllowed
  Fragments <- MCFragments
  Characters <- MCCharacters
  Members <- MCMembers
  MaxName = 4
  MaxSize = 2
  Half = 2048
  Kilo = 4
  Window = 4
  MaxPayload = 7
  MaxInt32 = 2
  MaxInt64 = 5
  Moments <- MCMoments
  Second <- MCSecond
  MaxMembers = 6
CHECK_DEADLOCK FALSE
INVARIANTS
  SanitizedIsSafe
  ExtensionKeptUnlessDoubled
  AcceptedIffWholeAndTyped
  LimitIsUsable
  LimitIsHonoured
  SniffFollowsGrammar
  OnlyTheWindowMisjudges
  DecodeMeetsSchema
  EncodeIsFaithful
