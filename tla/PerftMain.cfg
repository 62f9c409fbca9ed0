\* The whole table of perft.cc.
SPECIFICATION Spec
CONSTANT
  Counts <- MCCounts
INVARIANT
  NoEntryIsSkipped
\* The program ends.
CHECK_DEADLOCK FALSE
