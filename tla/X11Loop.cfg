SPECIFICATION FairSpec
CONSTANTS
  Windows = {w1, w2}
  None = None
  Touches = 3
  CreateIn = {"can_create_surfaces"}
  Environments <- Environments_
INVARIANTS FocusAgrees PrimaryCameFirst
PROPERTIES Lifecycle Served
CHECK_DEADLOCK FALSE
