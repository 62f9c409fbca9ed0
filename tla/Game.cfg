\* Two or three half-moves from each of five positions.
SPECIFICATION Spec
CONSTANTS
  Starts <- Games
  MaxPly = 5
INVARIANTS
  TypeOK
  NoTwoPiecesOnASquare
  BothKingsStand
  NoPawnOnABackRank
  RightsMeanKingAndRookAtHome
  EnPassantSquareIsFresh
  MoverIsNotInCheck
  NeverAborts
PROPERTY
  MenLeaveOnlyByCapture
\* Games end: by mate, by stalemate, or at the bound.
CHECK_DEADLOCK FALSE
