------------------------------ MODULE Position ------------------------------
(***************************************************************************)
(* The boards that the engine works on, and what one move may change.      *)
(***************************************************************************)
EXTENDS MoveGen, FiniteSets

-----------------------------------------------------------------------------
(* What a board must satisfy for the engine to work on it.  Nothing in the  *)
(* code states or checks it; FENs have to satisfy it and do_move has to     *)
(* preserve it.                                                             *)

\* No square holds two pieces.
PiecesDisjoint(b) == Disjoint(b.bb)

\* Each side has exactly one king.
OneKingEach(b) == \A side \in Color : is_square(pieces(b, side, "king"))

\* No pawn is on the first or the eighth rank.
PawnsOffBackRanks(b) ==
  \A side \in Color : \A sq \in pawns(b, side) : rank_idx(sq) \in 1..6

\* A castling right is held only while king and rook are on their squares.
CastlingRightsSound(b) ==
  \A r \in b.castling :
    /\ king_home(r) \in pieces(b, right_side(r), "king")
    /\ rook_home(r) \in pieces(b, right_side(r), "rook")

\* The e.p. square is the empty square that an enemy pawn has just jumped.
EnPassantSound(b) ==
  LET jumper == flip_color(b.side_to_move)
  IN  \/ b.en_passant_square_ = {}
      \/ \E sq \in rank_mask(IF jumper = "white" THEN 2 ELSE 5) :
           /\ b.en_passant_square_ = {sq}
           /\ sq \notin all_pieces(b)
           /\ forward(jumper, sq) \subseteq pawns(b, jumper)

\* The side that has moved is not in check: the king cannot be captured.
KingNotLeftInCheck(b) == ~is_king_attacked(b, flip_color(b.side_to_move))

WellFormed(b) ==
  /\ b \in BoardType
  /\ PiecesDisjoint(b)
  /\ OneKingEach(b)
  /\ PawnsOffBackRanks(b)
  /\ CastlingRightsSound(b)
  /\ EnPassantSound(b)
  /\ KingNotLeftInCheck(b)

-----------------------------------------------------------------------------
\* What one do_move may change.  The mover's men change squares but not in
\* number; the other side gains nothing and loses at most one man, and that
\* from the square the mover has arrived on, or, when that is the e.p. square,
\* the pawn beyond it.
MoveAccounting(b, b2) ==
  LET side   == b.side_to_move
      enemy  == flip_color(side)
      gained == friends(b2, side) \ friends(b, side)
      lost   == enemies(b, side) \ enemies(b2, side)
      enPassant == gained = b.en_passant_square_ /\ gained \subseteq pawns(b2, side)
  IN  /\ Cardinality(friends(b2, side)) = Cardinality(friends(b, side))
      /\ \A p \in Piece : pieces(b2, enemy, p) = pieces(b, enemy, p) \ lost
      /\ IF enPassant
         THEN /\ lost = UNION {forward(enemy, sq) : sq \in gained}
              /\ lost \subseteq pawns(b, enemy)
         ELSE lost = gained \cap enemies(b, side)
=============================================================================
