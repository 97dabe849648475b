CONSTANTS
  u1 = u1
  u2 = u2
  Work = {u1}
  MaxSections = 1
  MaxFailures = 1
  MaxErrors = 0
  MaxCrashes = 0
SPECIFICATION Spec
PROPERTIES
  OffOnlyWhenIdle
