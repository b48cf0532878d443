CONSTANTS
  Files = {f1, f2}
  MaxSize = 2
  Limits <- MCLimits
  Workers = {w1, w2}
  Lookers = {l1}
  Kinds = {"write", "copy", "compress", "inflate", "remove", "unlinkat", "rename", "truncate", "sftp", "process"}
  MaxOps = 2
  None = None
SPECIFICATION QuotaSpec
SYMMETRY MCSymmetry
INVARIANTS
  QuotaTypeOK
  Accounted
  BoundedOverrun
CHECK_DEADLOCK FALSE
