------------------------------- MODULE Search -------------------------------
(***************************************************************************)
(* evaluation(), alpha_beta() and quiescence_search() as eval.cc calls     *)
(* them: one search of one position.                                       *)
(*                                                                         *)
(* The recursion is an explicit stack of frames, the running call first.   *)
(* A frame holds the parameters and the locals of its call: board, depth,  *)
(* alpha, beta, the rest of the vector `moves`, the move whose child is    *)
(* being searched (`trying`, a sequence of at most one move) and the       *)
(* vector behind the pointer pv.  A callee's pv is the caller's local      *)
(* `line`; it comes back together with the score, in `result`.             *)
(*                                                                         *)
(* What the search asks of a Board is a parameter of this module, so that  *)
(* it can be searched in small games as well as in chess.                  *)
(***************************************************************************)
EXTENDS Integers, Sequences

CONSTANTS
  LegalMoves(_),         \* board.legal_moves(), a sequence
  LegalCaptureMoves(_),  \* board.legal_capture_moves(), a sequence
  DoMove(_, _),          \* the board after child_board.do_move(move)
  StaticEvaluation(_),   \* board.static_evaluation(), from white's side
  WhiteToMove(_),        \* board.is_whites_move_
  Queries,               \* the <<board, depth>> that eval.cc may be started with
  Infinity               \* 1000000: the window of the first call

VARIABLES
  query,    \* main(): the board and the depth asked for
  stack,    \* the calls in progress, the innermost first
  result    \* what the last return handed back: the score and the line

vars == <<query, stack, result>>

\* `alpha_beta` never meets depth == 0 when it is called with a negative depth.
ASSUME QueriesAssumption == \A q \in Queries : q[2] \in Nat
ASSUME InfinityAssumption == Infinity \in Nat \ {0}

-----------------------------------------------------------------------------
call(fn, board, depth, alpha, beta) ==
  [ fn |-> fn, phase |-> "called", board |-> board, depth |-> depth,
    alpha |-> alpha, beta |-> beta, moves |-> <<>>, trying |-> <<>>, pv |-> <<>> ]

top == Head(stack)

At(phase) == stack # <<>> /\ top.phase = phase

\* The running frame becomes f.
Continue(f) == stack' = <<f>> \o Tail(stack) /\ UNCHANGED <<query, result>>

\* return score;
Return(score) ==
  /\ stack' = Tail(stack)
  /\ result' = [score |-> score, line |-> top.pv]
  /\ UNCHANGED query

\* The score of the side to move.
own_score(board) == StaticEvaluation(board) * (IF WhiteToMove(board) THEN 1 ELSE -1)

-----------------------------------------------------------------------------
\* evaluation(board, depth, &pv) with an empty pv
Init ==
  /\ query \in Queries
  /\ stack = << call("alpha_beta", query[1], query[2], -Infinity, Infinity) >>
  /\ result = [score |-> 0, line |-> <<>>]

\* alpha_beta up to its loop.  At the horizon and at the end of the game it
\* returns what quiescence_search returns for the same window and pv: the
\* frame is handed over.
EnterAlphaBeta ==
  /\ At("called") /\ top.fn = "alpha_beta"
  /\ top.pv = <<>>                          \* ABSL_RAW_CHECK: "pv not empty"
  /\ LET moves == LegalMoves(top.board)
     IN  Continue(IF top.depth = 0 \/ moves = <<>>
                  THEN [top EXCEPT !.fn = "quiescence_search"]
                  ELSE [top EXCEPT !.phase = "looping", !.moves = moves])

\* quiescence_search up to its loop: standing pat.
EnterQuiescence ==
  /\ At("called") /\ top.fn = "quiescence_search"
  /\ LET score == own_score(top.board)
     IN  IF score >= top.beta
         THEN Return(top.beta)
         ELSE Continue([top EXCEPT !.phase = "looping",
                                   !.alpha = IF score > @ THEN score ELSE @,
                                   !.moves = LegalCaptureMoves(top.board)])

\* Faulty variant: the window is negated but not swapped.
SearchChildWindowNotSwapped ==
  /\ At("looping") /\ top.moves # <<>>
  /\ LET move == Head(top.moves)
     IN  stack' = << call(top.fn, DoMove(top.board, move), top.depth - 1,
                          -top.alpha, -top.beta),
                     [top EXCEPT !.phase = "waiting", !.trying = <<move>>,
                                 !.moves = Tail(@)] >> \o Tail(stack)
  /\ UNCHANGED <<query, result>>

\* Faulty variant: the move stays in the list.
SearchChildAgain ==
  /\ At("looping") /\ top.moves # <<>>
  /\ LET move == Head(top.moves)
     IN  stack' = << call(top.fn, DoMove(top.board, move), top.depth - 1,
                          -top.beta, -top.alpha),
                     [top EXCEPT !.phase = "waiting", !.trying = <<move>>,
                                 !.moves = @] >> \o Tail(stack)
  /\ UNCHANGED <<query, result>>

\* The head of either loop: do the move on a copy, and search that with the
\* window as the enemy sees it.  (quiescence_search has no depth and ignores it.)
SearchChild ==
  /\ At("looping") /\ top.moves # <<>>
  /\ LET move == Head(top.moves)
     IN  stack' = << call(top.fn, DoMove(top.board, move), top.depth - 1,
                          -top.beta, -top.alpha),
                     [top EXCEPT !.phase = "waiting", !.trying = <<move>>,
                                 !.moves = Tail(@)] >> \o Tail(stack)
  /\ UNCHANGED <<query, result>>

\* The rest of the loop's body, on the child's score: too good to be allowed,
\* better than what was found before, or neither.
child_score == -result.score

CutOff ==
  /\ At("waiting") /\ child_score >= top.beta
  /\ Return(top.beta)

\* Faulty variant: an equal score replaces the line, too.
ImproveOnEqual ==
  /\ At("waiting") /\ child_score < top.beta /\ child_score >= top.alpha
  /\ Continue([top EXCEPT !.phase = "looping", !.trying = <<>>,
                          !.alpha = child_score,
                          !.pv = top.trying \o result.line])

\* Faulty variant: a score above beta raises alpha, too.
ImproveAboveBeta ==
  /\ At("waiting") /\ child_score > top.alpha
  /\ Continue([top EXCEPT !.phase = "looping", !.trying = <<>>,
                          !.alpha = child_score,
                          !.pv = top.trying \o result.line])

Improve ==
  /\ At("waiting") /\ child_score < top.beta /\ child_score > top.alpha
  /\ Continue([top EXCEPT !.phase = "looping", !.trying = <<>>,
                          !.alpha = child_score,
                          !.pv = top.trying \o result.line])

Reject ==
  /\ At("waiting") /\ child_score < top.beta /\ child_score <= top.alpha
  /\ Continue([top EXCEPT !.phase = "looping", !.trying = <<>>])

\* return alpha;
ReturnAlpha ==
  /\ At("looping") /\ top.moves = <<>>
  /\ Return(top.alpha)

Next ==
  \/ EnterAlphaBeta
  \/ EnterQuiescence
  \/ SearchChild
  \/ CutOff
  \/ Improve
  \/ Reject
  \/ ReturnAlpha

\* The program is sequential and waits for nothing: it goes on while it can.
Spec == Init /\ [][Next]_vars /\ WF_vars(Next)

-----------------------------------------------------------------------------
(* Properties. *)

\* Every window is inside the first one and leaves room for a score.
Window(f) == -Infinity <= f.alpha /\ f.alpha < f.beta /\ f.beta <= Infinity

\* On all levels at once, the window of a call is inside that of its caller as
\* the enemy sees it: both bounds were negated and swapped, the caller's alpha
\* has not moved while it waits, and its own may only rise.  No call is made
\* with an empty window, for which its answer would mean nothing.
WindowsNest ==
  \A i \in DOMAIN stack :
    /\ Window(stack[i])
    /\ i > 1 => /\ stack[i].phase = "waiting"
               /\ stack[i - 1].beta = -stack[i].alpha
               /\ stack[i - 1].alpha >= -stack[i].beta
=============================================================================
