\* The constructor on the FENs of some 560 boards.
SPECIFICATION Spec
CONSTANT Boards <- MCBoards
INVARIANTS
  ReadsBack
  ShiftsAreDefined
  NamesTellMovesApart
CHECK_DEADLOCK FALSE
