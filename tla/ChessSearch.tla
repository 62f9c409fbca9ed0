---------------------------- MODULE ChessSearch ----------------------------
(***************************************************************************)
(* The search on Boards: Search with the constants that eval.cc gives it.  *)
(***************************************************************************)
EXTENDS SearchMinimax, Evaluation, Position

\* The boards of chess.
ChessBoards == {b \in BoardType : WellFormed(b)}

-----------------------------------------------------------------------------
\* The board with the colours exchanged, seen from the other side.
MirrorSquare(sq) == coordinates_to_square(file_idx(sq), 7 - rank_idx(sq))
MirrorRight(r)   == CASE r = "K" -> "k" [] r = "k" -> "K" [] r = "Q" -> "q" [] r = "q" -> "Q"
Mirror(b) ==
  [ b EXCEPT
      !.bb = [cp \in Color \X Piece |->
                {MirrorSquare(sq) : sq \in b.bb[<<flip_color(cp[1]), cp[2]>>]}],
      !.side_to_move = flip_color(@),
      !.castling = {MirrorRight(r) : r \in @},
      !.en_passant_square_ = {MirrorSquare(sq) : sq \in @} ]

\* Exchanging the colours does not change what the player to move is told.
\* The code has a branch per colour in every generator, in do_move's turn and
\* castling bookkeeping, and in the score of a lost game.
AnswerIsColourBlind ==
  stack = <<>> =>
    LET b == Mirror(query[1])
    IN  result.score = Promise!Value[<<b, query[2]>>] * Promise!Sign(b)
=============================================================================
