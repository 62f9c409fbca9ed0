\* Shallow searches of endgames.
SPECIFICATION Spec
CONSTANTS
  Boards <- ChessBoards
  LegalMoves <- ChessLegalMoves
  LegalCaptureMoves <- ChessLegalCaptureMoves
  DoMove <- do_move
  StaticEvaluation <- static_evaluation
  WhiteToMove <- is_whites_move_
  Queries <- MCQueries
  Infinity = 1000000
INVARIANT
  AnswerIsColourBlind
PROPERTY
  ReturnsTheMinimaxValue
CHECK_DEADLOCK FALSE
