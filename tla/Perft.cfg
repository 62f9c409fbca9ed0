\* Small games, and the table of perft.cc to depth 2, one board to depth 3.
SPECIFICATION Spec
CONSTANTS
  LegalMoves <- MCLegalMoves
  DoMove <- MCDoMove
  Queries <- MCQueries
INVARIANTS
  EveryMoveIsTakenBack
  CountsTheLines
  AgreesWithTheTable
\* The program ends.
CHECK_DEADLOCK FALSE
