SPECIFICATION InputSpec
CONSTANTS
  Types = {text, uris}
  None = None
  Drags = 2
  Moves = 1
  Fetches = 3
  Windows = {w1, w2}
  Environments <- Dragging
  ImeEnvironments <- Regular
INVARIANTS AnswerMatches ImeSound
PROPERTIES Contract Served
CHECK_DEADLOCK FALSE
