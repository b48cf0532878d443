SPECIFICATION FairSpec
CONSTANTS
  a1 = a1
  a2 = a2
  s1 = s1
  s2 = s2
  s3 = s3
  s4 = s4
  Rows = {a1, a2, s1, s2, s3, s4}
  Sftp = {s1, s2, s3, s4}
  Valid = {a1, s1, s2, s3}
  EventOf <- MCEventOf
  KeyOf <- MCKeyOf
  Runs <- MCRuns
  Max = 2
  Chunk = 1
  MaxFaults = 1
INVARIANTS TypeOK NothingLost ReportedOnce
PROPERTY Emptied
