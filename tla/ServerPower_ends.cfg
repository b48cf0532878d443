SPECIFICATION KillSpec
CONSTANTS
  u1 = u1
  u2 = u2
  k1 = k1
  d1 = d1
  i1 = i1
  h1 = h1
  h2 = h2
  Users = {u1, u2}
  Crashers = {}
  Stoppers = {d1}
  Installers = {}
  Handlers = {}
  MaxReaders = 1
  MaxBusy = 2
  Actions = {"restart", "kill"}
  StopTypes = {"signal"}
  Faults = FALSE
  SelfExit = FALSE
  DetectClean = FALSE
  CrashDetect = TRUE
PROPERTIES ActionsEnd KillEndsProcess
