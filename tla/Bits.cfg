\* All words of a 3x3 board.
SPECIFICATION Spec
CONSTANT
  board_size = 3
INVARIANTS
  LoopsAgreeWithSets
  StepsLeadToNeighbours
PROPERTY
  LoopsEnd
\* The functions return.
CHECK_DEADLOCK FALSE
