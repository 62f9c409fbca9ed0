\* attack_squares against its comment in board.h.
SPECIFICATION Spec
CONSTANTS
  Starts <- Games
  MaxPly = 4
INVARIANT
  AttackSquaresAreAttacked
CHECK_DEADLOCK FALSE
