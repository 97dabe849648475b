SPECIFICATION Spec
CONSTANTS
  app = app cli = cli main = main pool = pool shell = shell
  u1 = u1 u2 = u2 url1 = url1
  IntSpan = 16
  Version = "1.0"
  NoUuid = ""
  Process = {app, cli}
  Thread = {main, pool, shell}
  Home <- MCHome
  NoThread = NoThread
  NoCall = NoCall
  Calls <- MCCalls
  Writes <- MCWrites
  Locked <- MCLocked
  Effect <- MCEffect
  Script <- MCScript
  MaxCalls = 2
  MaxStarts = 2
INVARIANTS TypeOK ReadyImpliesComplete IdleIsClosed SetupAloneWorks
PROPERTIES AloneIsNeverBusy CallsAreAtomic
CHECK_DEADLOCK FALSE
