\* Three requests and three signals: one that is received, one that stays in
\* the channel and one that is dropped or comes after Stop.
SPECIFICATION Spec
CONSTANTS
  r1 = r1
  r2 = r2
  r3 = r3
  Requests = {r1, r2, r3}
  MaxSignals = 3
CHECK_DEADLOCK FALSE
INVARIANTS
  TypeOK
  ExitZeroMeansDrained
  NoUseAfterClose
  NothingLeaks
  SignalKillsNoRequest
PROPERTY SignalLeadsToExit
