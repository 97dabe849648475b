CONSTANTS
  u1 = u1
  u2 = u2
  Work = {u1}
  MaxSections = 2
  MaxFailures = 1
  MaxErrors = 0
  MaxCrashes = 0
SPECIFICATION FairSpec
PROPERTIES
  EverySectionIsStored
