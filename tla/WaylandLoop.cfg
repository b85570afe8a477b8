SPECIFICATION FairSpec
CONSTANTS
  Toplevels <- Toplevels_
  Popups <- Popups_
  ParentOf <- ParentOf_
  CreateIn <- CreateIn_
  MayFail = TRUE
  MaxOps = 2
  MaxCreates = 2
INVARIANTS Sound
PROPERTIES Lifecycle Served
CHECK_DEADLOCK FALSE
