SPECIFICATION Spec
CONSTANTS
  Setups <- AllSetups
  Texts <- AllTexts
  Hosts <- SmallHosts
  Orders <- AllOrders
  Repo <- SmallRepo
  Names <- Packages3
  Tracker <- SmallTracker
  Dataset <- SmallDataset
  Published <- SmallPublished
  BatchLimit = 2
INVARIANTS TypeOK FlawIsTold RowWasTrue GradeStands VersionsAreOrdered
CHECK_DEADLOCK FALSE
