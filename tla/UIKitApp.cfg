SPECIFICATION Spec
CONSTANTS
  Windows = {"w"}
  NestIn = {"can_create_surfaces", "new_events", "event", "scale", "about_to_wait"}
  InitialFlows = {"poll", "wait"}
  EarlyProxy = FALSE
  MaxOps = 4
INVARIANTS Prepared
PROPERTIES Contract Delivered
CHECK_DEADLOCK FALSE
