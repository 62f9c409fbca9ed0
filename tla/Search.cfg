\* All scores on three kinds of small games.
SPECIFICATION Spec
CONSTANTS
  Boards <- MCBoards
  LegalMoves <- MCLegalMoves
  LegalCaptureMoves <- MCLegalCaptureMoves
  DoMove <- MCDoMove
  StaticEvaluation <- MCStaticEvaluation
  WhiteToMove <- MCWhiteToMove
  Queries <- MCQueries
  Infinity = 3
INVARIANTS
  WindowsNest
  EveryCallIsClamped
PROPERTIES
  ReturnsTheMinimaxValue
  Terminates
\* The program ends.
CHECK_DEADLOCK FALSE
