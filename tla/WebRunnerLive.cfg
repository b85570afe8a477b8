SPECIFICATION FairSpec
CONSTANTS
  AppActs <- AppWithoutFocus
  Closures = {"redraw"}
  ControlFlows = {"Wait"}
  Early = TRUE
  Unloads = FALSE
  VisibilityActs = {}
  MaxInputs = 2
PROPERTY Served
CHECK_DEADLOCK FALSE
