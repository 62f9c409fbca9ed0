\* An int of 8 bits.
SPECIFICATION Spec
CONSTANTS
  Texts <- MCTexts
  vmin <- MCvmin
  vmax = 127
INVARIANTS
  NeverOverflows
  AcceptsExactlyTheInts
\* The function returns.
CHECK_DEADLOCK FALSE
