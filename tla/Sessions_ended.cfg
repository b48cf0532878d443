CONSTANTS
  Users = {u1}
  Grants = {{"connect", "control"}}
  Conns = {c1}
  Workers = {w1}
  Channels = {h1}
  Syncers = {x1}
  Restorers = {r1}
  Cap = 1
  Life = 0
  MaxTime = 1
  None = None
SPECIFICATION FairSpec
INVARIANTS
  TypeOK
  SuspendedSettled
  DeletedSettled
PROPERTIES
  NoneRevoked
  DeletedEnds
CHECK_DEADLOCK FALSE
