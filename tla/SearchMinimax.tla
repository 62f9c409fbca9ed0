--------------------------- MODULE SearchMinimax ---------------------------
(***************************************************************************)
(* Search computes the minimax value.                                      *)
(***************************************************************************)
EXTENDS Search

CONSTANT Boards    \* the boards of the game

Promise == INSTANCE Minimax WITH
  answered <- stack = <<>>,
  score    <- IF stack = <<>> THEN result.score ELSE 0,
  line     <- IF stack = <<>> THEN result.line ELSE <<>>

\* What the search takes for granted of a game: vectors of moves, captures among
\* the moves, boards on which it is the other player's turn, integer scores.
IsGame ==
  /\ Queries \subseteq Boards \X Nat
  /\ \A b \in Boards :
       /\ LegalMoves(b) \in Seq(Promise!Range(LegalMoves(b)))
       /\ LegalCaptureMoves(b) \in Seq(Promise!Range(LegalCaptureMoves(b)))
       /\ Promise!Range(LegalCaptureMoves(b)) \subseteq Promise!Range(LegalMoves(b))
       /\ WhiteToMove(b) \in BOOLEAN
       /\ StaticEvaluation(b) \in Int
       /\ \A m \in Promise!Range(LegalMoves(b)) :
            /\ DoMove(b, m) \in Boards
            /\ WhiteToMove(DoMove(b, m)) = ~WhiteToMove(b)

\* No static score is as large as the 1000000 that the first window ends at.
ScoresInside == \A b \in Boards : -Infinity < StaticEvaluation(b) /\ StaticEvaluation(b) < Infinity

\* evaluation() answers once, with the minimax value and a line that leads to
\* it: the cutoffs of alpha_beta and quiescence_search lose nothing, although
\* the windows they are based on were passed down, negated and swapped through
\* calls of both functions.
ReturnsTheMinimaxValue == Promise!Spec

Clamp(v, low, high) == IF v <= low THEN low ELSE IF v >= high THEN high ELSE v

\* Every call, not only the first, returns the minimax value of its board
\* clamped to its window, and when the value is inside the window also a line
\* to it.  This is all a caller may rely on: after a cutoff (or when no move
\* reaches alpha) the score is a bound and pv is what happened to be there.
EveryCallIsClamped ==
  At("waiting") =>
    LET board == DoMove(top.board, Head(top.trying))
        depth == IF top.fn = "alpha_beta" THEN top.depth - 1 ELSE 0
        v     == Promise!Value[<<board, depth>>]
        own   == v * Promise!Sign(board)
    IN  /\ result.score = Clamp(own, -top.beta, -top.alpha)
        /\ own > -top.beta /\ own < -top.alpha
             => Promise!LineTo(board, depth, result.line, v)

\* The search comes to an end, also in games that go round in circles: the
\* depth bounds the first part of a line and captures run out in the second.
Terminates == <>(stack = <<>>)
=============================================================================
