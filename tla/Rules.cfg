\* The moves and their effect against the rules of chess.
SPECIFICATION Spec
CONSTANTS
  Starts <- GamesAndFamilies
  MaxPly = 4
INVARIANTS
  GeneratesTheLegalMoves
  MoverIsNotInCheck
PROPERTY
  PlaysChess
CHECK_DEADLOCK FALSE
