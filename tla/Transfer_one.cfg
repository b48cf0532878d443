SPECIFICATION FairSpec
CONSTANTS
  a1 = a1
  a2 = a2
  None = None
  Attempts = {a1}
  NBackups = 1
  MaxFaults = 2
  Cancels = TRUE
INVARIANTS TypeOK AcceptedIsHeld FailureFreesSource
PROPERTIES EndsOrSticks HandlerEnds
\* every attempt has ended and nobody asks for another
CHECK_DEADLOCK FALSE
