CONSTANTS
  u1 = u1
  u2 = u2
  Work = {u1}
  MaxSections = 2
  MaxFailures = 2
  MaxErrors = 1
  MaxCrashes = 1
SPECIFICATION Spec
INVARIANTS
  TypeOK
  NoUpdateLost
  StoredIsCounted
