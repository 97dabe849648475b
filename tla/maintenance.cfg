SPECIFICATION Spec
CONSTANTS
  u1 = "u1" u2 = "u2" u3 = "u3"
  Uuid = {"u1", "u2", "u3"}
  Source <- MCSource
  Url <- MCUrl
  Catalogs <- MCCatalogs
  OldStyle = {"b"}
  SeqOfUrl <- MCSeqOfUrl
  LeadingNumber <- MCLeadingNumber
  Text <- MCText
  Exported = {{"u1", "u2", "u3"}, {"u1", "u2"}}
  NoFile = NoFile
  LastUrl = "last"
  Sizes = {2}
  SizeSpan = 64
  IntSpan = 32
  Version = "1.0"
  NoUuid = ""
  MaxCommands = 2
INVARIANTS TypeOK SquashLosesNoRow ReorderSorts ImportRestores
CHECK_DEADLOCK FALSE
