\* fifty_move_clock_ against the comment on struct Board.
SPECIFICATION Spec
CONSTANTS
  Starts <- Games
  MaxPly = 4
PROPERTY
  FiftyMoveClockIsTracked
CHECK_DEADLOCK FALSE
