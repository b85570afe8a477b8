SPECIFICATION Spec
CONSTANTS
  AppActs <- AnyApp
  Closures = {"redraw"}
  ControlFlows = {"Wait", "Poll", "WaitUntil"}
  Early = FALSE
  Unloads = TRUE
  VisibilityActs = {}
  MaxInputs = 3
INVARIANTS RunnerFree Undisturbed
PROPERTY Lifecycle
CHECK_DEADLOCK FALSE
