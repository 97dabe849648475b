SPECIFICATION Spec
CONSTANTS
  Uuid = "u1"
  Attempts = 2
  MaxSections = 3
  MaxEdits = 1
  Edited = {1}
  MaxJobs = 3
  IntSpan = 64
  Version = "1.0"
  NoUuid = ""
INVARIANTS TypeOK Numbered NothingForgotten
PROPERTIES RowsStay WalkEnds
CHECK_DEADLOCK FALSE
