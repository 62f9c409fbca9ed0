----------------------------- MODULE Evaluation -----------------------------
(***************************************************************************)
(* Board::static_evaluation, and the answers of a Board in the form in     *)
(* which Search and Perft ask for them.                                    *)
(***************************************************************************)
EXTENDS MoveGen, FiniteSets

piece_value ==
  [pawn |-> 1, rook |-> 5, knight |-> 3, bishop |-> 3, queen |-> 9]

material(b, side) ==
  LET worth(p) == piece_value[p] * Cardinality(pieces(b, side, p))
  IN  worth("pawn") + worth("rook") + worth("knight") + worth("bishop") + worth("queen")

\* Faulty variant: a position without moves is lost for white.
static_evaluation_lost_for_white(b) ==
  IF legal_moves(b) = {} THEN -1000 ELSE material(b, "white") - material(b, "black")

\* From white's side, for either player to move.
static_evaluation(b) ==
  IF legal_moves(b) = {}
  THEN IF b.side_to_move = "white" THEN -1000 ELSE 1000
  ELSE material(b, "white") - material(b, "black")
-----------------------------------------------------------------------------
\* Some vector of the moves.  The model generates sets; their order decides which
\* of several equally good lines is found, and nothing else.
vector(moves) ==
  LET size == Cardinality(moves)
      pushed[n \in 0..size] ==
        IF n = 0 THEN <<>>
        ELSE LET v == pushed[n - 1]
             IN  Append(v, CHOOSE m \in moves : \A i \in 1..(n - 1) : v[i] # m)
  IN  pushed[size]

ChessLegalMoves(b)        == vector(legal_moves(b))
ChessLegalCaptureMoves(b) == vector(legal_capture_moves(b))
is_whites_move_(b)        == b.side_to_move = "white"
=============================================================================
