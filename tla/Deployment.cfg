CONSTANTS
  None = None
  a1 = a1
  a2 = a2
  b1 = b1
  web = web
  worker = worker
  gone = gone
  mine = mine
  theirs = theirs
  here = here
  elsewhere = elsewhere
  fresh = fresh
  stale = stale
  Addr4 = {a1, a2}
  Addr6 = {b1}
  Families <- Everything
  Divergences = {}
  Newcomers <- SomeNewcomers
SPECIFICATION Spec
INVARIANTS TypeOK BlockerIsReal ClearIsReal UnreadIsNeverFine RedeployIsClean ActionIsWhatUpDoes
CHECK_DEADLOCK FALSE
