SPECIFICATION Spec
CONSTANTS
  s1 = s1
  j1 = j1
  j2 = j2
  Servers = {s1}
  Jobs = {j1, j2}
  MaxBoots = 2
  Requests = {"create", "install", "reinstall", "start", "delete"}
  Faults = TRUE
SYMMETRY MCSymmetry
INVARIANTS TypeOK DeletedNeverRuns Recovered NoCutInstallReported
CHECK_DEADLOCK FALSE
