CONSTANTS
  None = None
  Broken = Broken
  Remote = Remote
  web = web
  db = db
  debug = debug
  i1 = i1
  i2 = i2
  v1 = v1
  v2 = v2
  shop = shop
  here = here
  Dir = here
  Files <- SomeFiles
  Engines = {e1, e2}
  Commands <- OrphanCommands
  Containers <- Orphans
  Second = 2
  MaxAge = 3
  MaxSpan = 3
  MaxClock = 4
  MaxChanges = 1
  MaxEvents = 3
SPECIFICATION Spec
INVARIANTS ConfirmedActsTheSame
CHECK_DEADLOCK FALSE
