------------------------------- MODULE Board -------------------------------
(***************************************************************************)
(* struct Board and struct Move: the state of a game and what do_move does *)
(* to it.                                                                  *)
(*                                                                         *)
(* A board is a record                                                     *)
(*   bb                  the twelve Bitboards, by colour and piece         *)
(*   side_to_move        is_whites_move_ as a colour                       *)
(*   en_passant_square_  {} for nullopt, {sq} otherwise                    *)
(*   castling            the *_has_right_to_castle_* flags that are true,  *)
(*                       under their FEN letters                           *)
(*   fifty_move_clock_, num_moves_                                         *)
(***************************************************************************)
EXTENDS Bitboards, Sequences

Piece == {"pawn", "rook", "knight", "bishop", "queen", "king"}

promotion_move_types ==
  { "promotion_to_rook", "promotion_to_bishop",
    "promotion_to_knight", "promotion_to_queen" }

MoveType ==
  { "simple", "en_passant", "castle_kingside", "castle_queenside",
    "capture", "two_step_pawn" } \cup promotion_move_types

Right == {"K", "Q", "k", "q"}

\* The flag of `side` for a wing, and the squares its king and its rook
\* stand on when castling is possible: e1/e8, and a1, h1, a8 or h8.
kingside(side)  == IF side = "white" THEN "K" ELSE "k"
queenside(side) == IF side = "white" THEN "Q" ELSE "q"
right_side(r) == IF r \in {"K", "Q"} THEN "white" ELSE "black"
king_home(r)  == home_square(right_side(r), 4)
rook_home(r)  == home_square(right_side(r), IF r \in {"K", "k"} THEN 7 ELSE 0)

BitboardArray == [Color \X Piece -> Bitboard]

BoardType ==
  [ bb                 : BitboardArray,
    side_to_move       : Color,
    en_passant_square_ : Bitboard,
    castling           : SUBSET Right,
    fifty_move_clock_  : Int,
    num_moves_         : Int ]

\* board_state_, the copy of the board that undo_move restores, is left out: it
\* is the same for all moves of a list.
Move(src, dst, piece, type) ==
  [ src_square_ |-> src, dst_square_ |-> dst,
    piece_moving_ |-> piece, move_type_ |-> type ]

MoveSet ==
  [ src_square_ : Square, dst_square_ : Square,
    piece_moving_ : Piece, move_type_ : MoveType ]

-----------------------------------------------------------------------------
(* Masks. *)

pieces(b, side, piece) == b.bb[<<side, piece>>]

\* white_pieces() or black_pieces()
friends(b, side) == UNION {pieces(b, side, p) : p \in Piece}
enemies(b, side) == friends(b, flip_color(side))
all_pieces(b)    == friends(b, "white") \cup friends(b, "black")

-----------------------------------------------------------------------------
(* Moving pieces.  Both loops of the code visit the Bitboards in the order  *)
(* of all_bitboards() and stop at the first one that has the square.        *)

all_bitboards ==
  << <<"white", "pawn">>,   <<"white", "rook">>,   <<"white", "bishop">>,
     <<"white", "knight">>, <<"white", "queen">>,  <<"white", "king">>,
     <<"black", "pawn">>,   <<"black", "rook">>,   <<"black", "bishop">>,
     <<"black", "knight">>, <<"black", "queen">>,  <<"black", "king">> >>

first_bitboard(bb, sq) ==
  all_bitboards[CHOOSE i \in 1..12 :
    /\ sq \in bb[all_bitboards[i]]
    /\ \A j \in 1..(i - 1) : sq \notin bb[all_bitboards[j]]]

\* No square is in two of the twelve Bitboards.
Disjoint(bb) == \A x, y \in Color \X Piece : \A sq \in bb[x] \cap bb[y] : x = y

occupied(bb, sq) == \E cp \in Color \X Piece : sq \in bb[cp]

remove_piece_on(bb, sq) ==
  IF occupied(bb, sq)
  THEN [bb EXCEPT ![first_bitboard(bb, sq)] = @ \ {sq}]
  ELSE bb

\* The code aborts (ABSL_RAW_CHECK) when no Bitboard has `from`.
move_piece(bb, from, to) ==
  [bb EXCEPT ![first_bitboard(bb, from)] = (@ \ {from}) \cup {to}]

-----------------------------------------------------------------------------
(* Castling rights end when the king or the rook leaves its square, and     *)
(* when anything arrives on the rook's.                                     *)

\* Faulty variant: a rook captured on its corner leaves the right standing.
adjust_castling_rights_mover_only(castling, m) ==
  { r \in castling :
      /\ ~(m.piece_moving_ = "king" /\ m.src_square_ = king_home(r))
      /\ ~(m.piece_moving_ = "rook" /\ m.src_square_ = rook_home(r)) }

adjust_castling_rights(castling, m) ==
  { r \in castling :
      /\ m.dst_square_ # rook_home(r)
      /\ ~(m.piece_moving_ = "king" /\ m.src_square_ = king_home(r))
      /\ ~(m.piece_moving_ = "rook" /\ m.src_square_ = rook_home(r)) }

\* Faulty variant: the e.p. square outlives the turn.
do_simple_move_keeping_ep(b, m) ==
  [b EXCEPT !.bb = move_piece(@, m.src_square_, m.dst_square_),
            !.castling = adjust_castling_rights(@, m)]

do_simple_move(b, m) ==
  [b EXCEPT !.bb = move_piece(@, m.src_square_, m.dst_square_),
            !.en_passant_square_ = {},
            !.castling = adjust_castling_rights(@, m)]

\* Faulty variant: the destination is not cleared first.
do_capture_move_without_removal(b, m) == do_simple_move(b, m)

do_capture_move(b, m) ==
  [b EXCEPT !.bb = move_piece(remove_piece_on(@, m.dst_square_),
                              m.src_square_, m.dst_square_),
            !.en_passant_square_ = {},
            !.castling = adjust_castling_rights(@, m)]

do_two_step_pawn_move(b, m) ==
  [b EXCEPT !.bb = move_piece(@, m.src_square_, m.dst_square_),
            !.en_passant_square_ = IF m.src_square_ \in second_rank_mask
                                   THEN north_of(m.src_square_)
                                   ELSE south_of(m.src_square_)]

\* Faulty variant: north and south are swapped.
enemy_pawn_square_swapped(dst) ==
  IF dst \in third_rank_mask THEN south_of(dst) ELSE north_of(dst)

\* The pawn that do_en_passant_move captures stands behind the e.p. square;
\* the e.p. square's rank alone decides on which side of it that is.
enemy_pawn_square(dst) ==
  IF dst \in third_rank_mask THEN north_of(dst) ELSE south_of(dst)

\* Faulty variant: the captured pawn stays on the board.
do_en_passant_move_without_removal(b, m) ==
  [b EXCEPT !.bb = move_piece(@, m.src_square_, m.dst_square_),
            !.en_passant_square_ = {}]

do_en_passant_move(b, m) ==
  LET pawn_sq == CHOOSE sq \in enemy_pawn_square(m.dst_square_) : TRUE
  IN  [b EXCEPT !.bb = move_piece(remove_piece_on(@, pawn_sq),
                                  m.src_square_, m.dst_square_),
                !.en_passant_square_ = {}]

\* After the king, the rook: from its corner to the square the king crossed.
do_castle_move(b, m) ==
  LET side   == b.side_to_move
      corner == home_square(side, IF m.move_type_ = "castle_kingside" THEN 7 ELSE 0)
      beside == home_square(side, IF m.move_type_ = "castle_kingside" THEN 5 ELSE 3)
  IN  [b EXCEPT !.bb = move_piece(move_piece(@, m.src_square_, m.dst_square_),
                                  corner, beside),
                !.en_passant_square_ = {},
                !.castling = adjust_castling_rights(@, m)]

\* Faulty variant: one case adds to the Bitboard of the king.
promoted_piece_wrong(type) ==
  IF type = "promotion_to_queen" THEN "king" ELSE "rook"

promoted_piece(type) ==
  CASE type = "promotion_to_rook"   -> "rook"
    [] type = "promotion_to_bishop" -> "bishop"
    [] type = "promotion_to_knight" -> "knight"
    [] type = "promotion_to_queen"  -> "queen"

do_promotion_move(b, m) ==
  LET cleared == remove_piece_on(remove_piece_on(b.bb, m.src_square_), m.dst_square_)
      queened == <<b.side_to_move, promoted_piece(m.move_type_)>>
  IN  [b EXCEPT !.bb = [cleared EXCEPT ![queened] = @ \cup {m.dst_square_}],
                !.en_passant_square_ = {},
                !.castling = adjust_castling_rights(@, m)]

\* The end of do_move, common to all moves.  fifty_move_clock_ is not touched.
end_turn(b) ==
  [b EXCEPT !.side_to_move = flip_color(@),
            !.num_moves_ = @ + (IF b.side_to_move = "black" THEN 1 ELSE 0)]

do_move(b, m) ==
  end_turn(
    CASE m.move_type_ = "simple"        -> do_simple_move(b, m)
      [] m.move_type_ = "two_step_pawn" -> do_two_step_pawn_move(b, m)
      [] m.move_type_ = "capture"       -> do_capture_move(b, m)
      [] m.move_type_ = "en_passant"    -> do_en_passant_move(b, m)
      [] m.move_type_ \in {"castle_kingside", "castle_queenside"}
                                        -> do_castle_move(b, m)
      [] m.move_type_ \in promotion_move_types
                                        -> do_promotion_move(b, m))
=============================================================================
