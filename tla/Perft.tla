------------------------------- MODULE Perft -------------------------------
(***************************************************************************)
(* number_of_moves(): the number of lines of a given length.               *)
(*                                                                         *)
(* Unlike the search, which works on a copy per move, each call plays all  *)
(* its moves on its own board and takes them back with undo_move.  What    *)
(* undo_move restores is not computed from the move: it is board_state_,   *)
(* the copy of the board that the move got when legal_moves() made it.     *)
(* As in Search, the calls are a stack of frames, the running one first.   *)
(***************************************************************************)
EXTENDS Integers, SequencesExt

CONSTANTS
  LegalMoves(_),    \* board.legal_moves(), a sequence
  DoMove(_, _),     \* the board after do_move(move)
  Queries           \* the <<board, half_move_depth>> to be counted

VARIABLES
  query,    \* what is counted
  stack,    \* the calls in progress, the innermost first
  result    \* what the last return handed back

vars == <<query, stack, result>>

\* With a negative depth the recursion would end only where games end.
ASSUME QueriesAssumption == \A q \in Queries : q[2] \in Nat

-----------------------------------------------------------------------------
call(board, depth) ==
  [ phase |-> "called", board |-> board, half_move_depth |-> depth,
    moves |-> <<>>, trying |-> <<>>, res |-> 0 ]

top == Head(stack)
At(phase) == stack # <<>> /\ top.phase = phase

Continue(f) == stack' = <<f>> \o Tail(stack) /\ UNCHANGED <<query, result>>
Return(n)   == stack' = Tail(stack) /\ result' = n /\ UNCHANGED query

\* Every generator passes *this as p_board_state.
with_board_state(moves, board) ==
  [i \in DOMAIN moves |-> [move |-> moves[i], board_state_ |-> board]]

\* Faulty variant: the move is taken back on no board at all.
undo_move_forgotten(board, m) == board

undo_move(board, m) == m.board_state_

-----------------------------------------------------------------------------
Init ==
  /\ query \in Queries
  /\ stack = << call(query[1], query[2]) >>
  /\ result = 0

ReturnOne ==
  /\ At("called") /\ top.half_move_depth = 0
  /\ Return(1)

Generate ==
  /\ At("called") /\ top.half_move_depth # 0
  /\ Continue([top EXCEPT !.phase = "looping",
                          !.moves = with_board_state(LegalMoves(top.board), top.board)])

\* board.do_move(move), then the recursive call with a copy of the board.
DoAndCount ==
  /\ At("looping") /\ top.moves # <<>>
  /\ LET m     == Head(top.moves)
         moved == DoMove(top.board, m.move)
     IN  stack' = << call(moved, top.half_move_depth - 1),
                     [top EXCEPT !.phase = "waiting", !.board = moved,
                                 !.trying = <<m>>, !.moves = Tail(@)] >> \o Tail(stack)
  /\ UNCHANGED <<query, result>>

\* Faulty variant: the sum starts again with every move.
AddAndUndoOverwriting ==
  /\ At("waiting")
  /\ Continue([top EXCEPT !.phase = "looping", !.trying = <<>>,
                          !.res = result,
                          !.board = undo_move(@, Head(top.trying))])

\* res += ..., then board.undo_move(move).
AddAndUndo ==
  /\ At("waiting")
  /\ Continue([top EXCEPT !.phase = "looping", !.trying = <<>>,
                          !.res = @ + result,
                          !.board = undo_move(@, Head(top.trying))])

ReturnSum ==
  /\ At("looping") /\ top.moves = <<>>
  /\ Return(top.res)

Next ==
  \/ ReturnOne
  \/ Generate
  \/ DoAndCount
  \/ AddAndUndo
  \/ ReturnSum

Spec == Init /\ [][Next]_vars

-----------------------------------------------------------------------------
(* Properties. *)

\* The board that call number i was given: its caller's, which has the move
\* done on it.
Given(i) == IF i = Len(stack) THEN query[1] ELSE stack[i + 1].board

\* On all levels at once, the board of a call is the one it was given, with the
\* move in progress played on it and nothing else: whatever deeper calls have
\* done and undone, the next move is done on the board it was generated for.
EveryMoveIsTakenBack ==
  \A i \in DOMAIN stack :
    stack[i].board = IF stack[i].phase = "waiting"
                     THEN DoMove(Given(i), Head(stack[i].trying).move)
                     ELSE Given(i)

\* The boards that a line passes through, from 0 (before its first move) on.  A
\* line is given by the places of its moves in the lists.
Path(board, line) ==
  LET path[i \in 0..Len(line)] ==
        IF i = 0 THEN board ELSE DoMove(path[i - 1], LegalMoves(path[i - 1])[line[i]])
  IN  path

\* All lines of the given length, the shorter ones first.
Lines(board, depth) ==
  LET lines[n \in 0..depth] ==
        IF n = 0 THEN {<<>>}
        ELSE UNION { {Append(line, i) : i \in DOMAIN LegalMoves(Path(board, line)[n - 1])} :
                       line \in lines[n - 1] }
  IN  lines[depth]

\* Every call returns the number of lines of its length from its board: none
\* is left out and none counted twice.
CountsTheLines ==
  /\ stack = <<>> => result = Cardinality(Lines(query[1], query[2]))
  /\ At("waiting") => result = Cardinality(Lines(top.board, top.half_move_depth - 1))
=============================================================================
