CONSTANTS
  Apis = {"run"}
  AppActs <- PaintingApp
  ControlFlows = {"Wait", "Poll"}
  MaxPosts = 2
  MaxBuffer = 1
  MaxStack = 5
SPECIFICATION FairSpec
PROPERTIES Delivered PollingExitStops
CHECK_DEADLOCK FALSE
