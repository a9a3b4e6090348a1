CONSTANTS
  None = None
  Configs <- OneConfig
  Programs <- SomePrograms
  NetworkPrograms = {"debsecan"}
  Tables <- SomeTables
  MaxRuns = 1
  MaxContacts = 1
SPECIFICATION Spec
PROPERTY DeadlineEndsCommand
CHECK_DEADLOCK FALSE
