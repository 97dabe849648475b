CONSTANTS
  u1 = u1
  u2 = u2
  Work = {u1}
  MaxSections = 1
  MaxFailures = 1
  MaxErrors = 1
  MaxCrashes = 1
SPECIFICATION FairSpec
PROPERTIES
  EverySectionIsStored
  ErrorEntryLeaves
