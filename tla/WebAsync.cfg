SPECIFICATION AsyncFairSpec
CONSTANTS
  Workers = {w1, w2}
  Windows = {"main", w1}
  Proxies = {"main", w2}
  WithRunner = TRUE
  MaxSends = 2
  MaxWakes = 1
INVARIANTS ValueWhileHeld TasksAwake Accounted
PROPERTIES Progress
CHECK_DEADLOCK FALSE
