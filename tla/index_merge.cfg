SPECIFICATION Spec
CONSTANTS
  Uuid = "u1"
  Chapters = {1, 2, 3, 4}
  Attempts = 1
  MaxChanges = 1
  MaxFaults = 1
  MaxJobs = 2
  Libraries = {{}, {3}, {3, 4}, {1, 3}}
  MaxSeqNum = 63
  Unsigned = 127
  IntSpan = 64
  Version = "1.0"
  NoUuid = ""
INVARIANTS TypeOK InOrder Complete MergeIsDefined
PROPERTIES LiveRowsStay
CHECK_DEADLOCK FALSE
