SPECIFICATION Spec
CONSTANTS
  Setups <- OnlineSetup
  Texts <- AllTexts
  Hosts <- SmallHosts
  Orders <- AllOrders
  Repo <- SmallRepo
  Names <- Packages3
  Tracker <- None
  Dataset <- None
  Published <- Branches
  BatchLimit = 2
INVARIANT FixIsNewer
CHECK_DEADLOCK FALSE
