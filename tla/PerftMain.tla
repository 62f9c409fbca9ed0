----------------------------- MODULE PerftMain -----------------------------
(***************************************************************************)
(* main() of perft.cc: for each depth and each board it counts the lines   *)
(* and compares with the table.  Both numbers are 64 bit wide and are      *)
(* stored in an int, so the comparison sees their low 32 bits only.        *)
(***************************************************************************)
EXTENDS PerftTable

CONSTANT
  Counts(_, _)   \* the int64_t that number_of_moves may return for a board and a depth

num_boards == 7
max_depth  == 8

VARIABLES
  depth, board_idx,    \* the loop variables, from 0 as in the code
  correct_res,         \* {} outside the loop's body, else the int that was read
  outcome,             \* "counting", "incorrect" after "Incorrect results!", or "done"
  compared             \* history: the <<board_idx, depth>> found to agree with the table

vars == <<depth, board_idx, correct_res, outcome, compared>>

\* const int ... = an int64_t: the low half, of which the top bit is the sign.
int(n) == <<n[2], n[3]>>

entry == num_nodes[board_idx + 1][depth + 1]

-----------------------------------------------------------------------------
Init ==
  /\ depth = 0 /\ board_idx = 0
  /\ correct_res = {}
  /\ outcome = "counting"
  /\ compared = {}

\* ++board_idx; after the last board ++depth.
Advance ==
  IF board_idx + 1 < num_boards
  THEN board_idx' = board_idx + 1 /\ UNCHANGED <<depth, outcome>>
  ELSE /\ board_idx' = 0
       /\ depth' = depth + 1
       /\ outcome' = IF depth + 1 < max_depth THEN outcome ELSE "done"

\* Faulty variant: any negative int stands for "No info."
no_info_negative(i) == i[1] >= 32768

\* correct_res == -1
no_info(i) == i = int(minus_one)

ReadEntry ==
  /\ outcome = "counting" /\ correct_res = {}
  /\ UNCHANGED compared
  /\ IF no_info(int(entry))
     THEN Advance /\ UNCHANGED correct_res
     ELSE correct_res' = {int(entry)} /\ UNCHANGED <<depth, board_idx, outcome>>

CountAndCompare ==
  /\ outcome = "counting" /\ correct_res # {}
  /\ correct_res' = {}
  /\ \E n \in Counts(board_idx, depth) :
       IF correct_res = {int(n)}
       THEN compared' = compared \cup {<<board_idx, depth>>} /\ Advance
       ELSE outcome' = "incorrect" /\ UNCHANGED <<depth, board_idx, compared>>

Next == ReadEntry \/ CountAndCompare

Spec == Init /\ [][Next]_vars

-----------------------------------------------------------------------------
(* Properties. *)

\* The program goes past an entry only after it has compared it, unless the
\* entry is -1.  Entries above 2^31 are negative as an int (3195901860 becomes
\* -1099065436), and one with the right low half would pass for a -1.
NoEntryIsSkipped ==
  \A i \in 0..(num_boards - 1), d \in 0..(max_depth - 1) :
    /\ d < depth \/ (d = depth /\ i < board_idx)
    /\ num_nodes[i + 1][d + 1] # minus_one
    => <<i, d>> \in compared
=============================================================================
