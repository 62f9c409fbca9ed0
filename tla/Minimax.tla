------------------------------ MODULE Minimax ------------------------------
(***************************************************************************)
(* What evaluation() promises, without windows, cutoffs or a stack: the    *)
(* minimax value of the game tree to the given depth, with the captures    *)
(* played out below it, and a line of moves that leads to that value.      *)
(* White makes scores large and black makes them small; the answer is      *)
(* given from the side of the player to move.                              *)
(***************************************************************************)
EXTENDS Integers, SequencesExt, FiniteSetsExt

CONSTANTS Boards,    \* the boards of the game
          LegalMoves(_), LegalCaptureMoves(_), DoMove(_, _),
          StaticEvaluation(_), WhiteToMove(_)

VARIABLES query, answered, score, line

\* The best of a set of scores for the player to move.
Best(board, scores) == IF WhiteToMove(board) THEN Max(scores) ELSE Min(scores)

\* The value of a board to a depth.  At depth 0, and at the end of the game, the
\* player may leave it at the static score or capture.
Value[q \in Boards \X Nat] ==
  LET board == q[1]
      depth == q[2]
  IN  Best(board,
           IF depth = 0 \/ LegalMoves(board) = <<>>
           THEN {StaticEvaluation(board)} \cup
                {Value[<<DoMove(board, m), 0>>] : m \in Range(LegalCaptureMoves(board))}
           ELSE {Value[<<DoMove(board, m), depth - 1>>] : m \in Range(LegalMoves(board))})

Sign(board) == IF WhiteToMove(board) THEN 1 ELSE -1

\* The boards that a line passes through, from 0 (before its first move) on.
Path(board, moves) ==
  LET path[i \in 0..Len(moves)] == IF i = 0 THEN board ELSE DoMove(path[i - 1], moves[i])
  IN  path

\* Only legal moves, only captures below the depth, no shorter than the depth
\* unless the game is over, and the static score at its end is v.
LineTo(board, depth, moves, v) ==
  LET path == Path(board, moves)
      end  == path[Len(moves)]
  IN  /\ \A i \in 1..Len(moves) :
           moves[i] \in Range(IF i <= depth THEN LegalMoves(path[i - 1])
                                            ELSE LegalCaptureMoves(path[i - 1]))
      /\ Len(moves) < depth => LegalMoves(end) = <<>>
      /\ StaticEvaluation(end) = v

-----------------------------------------------------------------------------
\* For any board and depth asked for.
Init ==
  /\ answered = FALSE
  /\ score = 0
  /\ line = <<>>

Answer ==
  /\ ~answered
  /\ answered' = TRUE
  /\ UNCHANGED query
  /\ LET v == Value[query]
     IN  /\ score' = v * Sign(query[1])
         /\ LineTo(query[1], query[2], line', v)

Spec == Init /\ [][Answer]_<<query, answered, score, line>>
=============================================================================
