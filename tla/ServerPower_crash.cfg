SPECIFICATION Spec
CONSTANTS
  u1 = u1
  u2 = u2
  k1 = k1
  d1 = d1
  i1 = i1
  h1 = h1
  h2 = h2
  Users = {u1}
  Crashers = {k1}
  Stoppers = {}
  Installers = {}
  Handlers = {h1}
  MaxReaders = 1
  MaxBusy = 3
  Actions = {"start", "stop", "restart", "kill"}
  StopTypes = {"signal"}
  Faults = TRUE
  SelfExit = TRUE
  DetectClean = FALSE
  CrashDetect = TRUE
INVARIANTS LockOwned BootExclusive NoLaunchOverRunning
PROPERTIES ImplementsOneBoot
