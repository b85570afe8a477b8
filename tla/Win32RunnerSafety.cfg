CONSTANTS
  Apis = {"run", "pump"}
  AppActs <- AnyApp
  ControlFlows = {"Wait"}
  MaxPosts = 2
  MaxBuffer = 2
  MaxStack = 5
SPECIFICATION Spec
INVARIANTS HandlerDiscipline NothingLeftBehind
PROPERTY Lifecycle
CHECK_DEADLOCK FALSE
