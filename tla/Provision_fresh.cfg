SPECIFICATION Spec
CONSTANTS
  r1 = r1
  m1 = m1
  m2 = m2
  Names = {"a", "b"}
  Rows <- MCRows
  Startups <- MCStartups
  Images = {"i1", "i2"}
  Builds <- MCBuilds
  AllocationAt <- MCAllocationAt
  MountAt <- MCMountAt
  MiB = 4
  Multipliers <- MCMultipliers
  DefaultMultiplier = 105
  MaxPort = 8
  InstallerMemory = 12
  InstallerCpu = 1
  ISPN = FALSE
  BlockBaseDirMount = TRUE
  Requests = {r1}
  MaxEdits = 1
INVARIANTS TypeOK Fresh LimitsOrdered
CHECK_DEADLOCK FALSE
