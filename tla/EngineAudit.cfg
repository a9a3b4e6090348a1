CONSTANTS
  None = None
  web = web
  worker = worker
  gone = gone
  mine = mine
  theirs = theirs
  here = here
  elsewhere = elsewhere
  fresh = fresh
  stale = stale
  fixed = fixed
  data = data
  front = front
  img = img
  img2 = img2
  id1 = id1
  id2 = id2
  MaxNetworkInspect = 1
  MaxImageInspect = 1
  Situations <- Everything
  Newcomers <- SomeNewcomers
SPECIFICATION Spec
INVARIANTS TypeOK BlockerIsReal ClearIsReal ForeignIsTold RowsAreWhatUpDoes
CHECK_DEADLOCK FALSE
