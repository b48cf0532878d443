SPECIFICATION Spec
CONSTANTS
  u1 = u1
  u2 = u2
  k1 = k1
  d1 = d1
  i1 = i1
  h1 = h1
  h2 = h2
  Users = {u1}
  Crashers = {}
  Stoppers = {}
  Installers = {i1}
  Handlers = {}
  MaxReaders = 2
  MaxBusy = 3
  Actions = {"restart", "command"}
  StopTypes = {"native", "command"}
  Faults = TRUE
  SelfExit = TRUE
  DetectClean = FALSE
  CrashDetect = TRUE
INVARIANTS TypeOK LockInv
\* a nil dereference ends the daemon (SentWhenAttached)
CHECK_DEADLOCK FALSE
