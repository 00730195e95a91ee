\* Two calls on one session, two data messages per command.
CONSTANTS
  c1 = c1
  s0 = s0
  s1 = s1
  NoStatus = NoStatus
  Chunks <- MCChunks
  ExitCodes <- MCExitCodes
  NoCode = NoStatus
  MaxData = 2
  MaxCalls = 2
SPECIFICATION Spec
CHECK_DEADLOCK FALSE
INVARIANT
  NeverPanics
