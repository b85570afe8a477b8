SPECIFICATION AppKitSpec
CONSTANTS
  Windows = {"w"}
  QueueIn = {"can_create_surfaces", "new_events", "event", "proxy"}
  ModalProxy = FALSE
  EarlyProxy = FALSE
  MaxOps = 4
  MaxRuns = 2
  None = None
  Displays = {"left", "right"}
  Environments <- Regular
  Typists <- Typed
INVARIANTS Intact FullscreenAgrees TypingAgrees
PROPERTIES Order Serves
CHECK_DEADLOCK FALSE
