SPECIFICATION InputSpec
CONSTANTS
  Windows = {w1, w2}
  None = None
  Offers = {{"copy"}, {"move", "copy"}}
  Drags = 2
  Moves = 3
  Calls = 3
  Environments <- Orderly
  Kinds <- SixKeys
  Strokes = 4
  KeyEnvironments <- Patient
  Count = 3
  Screens <- TwoScreens
  Positioners <- Helpers
  Sizes = {2, 5}
  Places <- Points
  Border = 1
  Acts <- Regular
  MaxActs = 2
INVARIANTS DropsSettled TransfersLive KeysTold PopupsFollow
PROPERTIES DragsHeard
CHECK_DEADLOCK FALSE
