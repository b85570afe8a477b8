SPECIFICATION CursorFairSpec
CONSTANTS
  c1 = c1  c2 = c2  a1 = a1
  Icons = {default, pointer}
  Default = default
  Images <- TwoImages
  Animations <- OneAnimation
  FramesOf <- FramesOfOne
  Async = {c2}
  Shared = {c1}
  EarlyDrops = FALSE
  None = none
  MaxCalls = 3
INVARIANTS HandlerSound
PROPERTIES CustomShown TasksEnd
CHECK_DEADLOCK FALSE
