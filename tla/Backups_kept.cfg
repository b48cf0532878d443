SPECIFICATION Spec
CONSTANTS
  u1 = u1
  u2 = u2
  u3 = u3
  f1 = f1
  r1 = r1
  r2 = r2
  Uuids = {u1, u2, u3}
  Adapters <- MCAdapters
  Files = {f1}
  Restorers = {r1, r2}
  Casts <- MCCasts
  PartCounts = {0, 2}
  MaxAttempts = 1
  MaxWrites = 2
  Faults = TRUE
SYMMETRY MCSymmetry
INVARIANTS TypeOK RecordedMatches KeptUntilDeleted FlagsSettle RestoredFaithfully
CHECK_DEADLOCK FALSE
