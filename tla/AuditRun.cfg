CONSTANTS
  None = None
  Configs <- SomeConfigs
  Programs <- SomePrograms
  NetworkPrograms = {"debsecan"}
  Tables <- SomeTables
  MaxRuns = 2
  MaxContacts = 1
SPECIFICATION SpecDescendantsEnd
INVARIANTS TypeOK ExitIsTrue OnlyRedactedLeaves NetworkIsTold JournalIsWhole
PROPERTY RunEnds
CHECK_DEADLOCK FALSE
