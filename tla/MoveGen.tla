------------------------------ MODULE MoveGen ------------------------------
(***************************************************************************)
(* Move generation.  The append_* functions of Board push moves on a       *)
(* vector; here each returns the set of moves it pushes (no two of them    *)
(* push the same move).  pseudolegal_moves also answers, through           *)
(* attack_squares, whether a king is attacked, and so decides which moves  *)
(* legal_moves keeps.                                                      *)
(***************************************************************************)
EXTENDS Board

pawns(b, side) == pieces(b, side, "pawn")

\* A piece that may stand on dst captures there when the enemy does.
simple_or_capture(b, side, src, dst, piece) ==
  Move(src, dst, piece, IF dst \in enemies(b, side) THEN "capture" ELSE "simple")

-----------------------------------------------------------------------------
(* Bishops, rooks and queens. *)

\* The squares the loop reaches: it goes on while the square is empty, and
\* takes the first occupied one if it is an enemy's.
slide(b, side, src, dir) ==
  LET all_pieces_mask == all_pieces(b)
      clear(n) == \A i \in 1..(n - 1) : walk(dir, src, i) \cap all_pieces_mask = {}
  IN  (UNION {walk(dir, src, n) : n \in {k \in 1..7 : clear(k)}}) \ friends(b, side)

append_pseudolegal_sliding_moves(b, side, directions, piece) ==
  UNION { { simple_or_capture(b, side, src, dst, piece) :
              dst \in UNION {slide(b, side, src, dir) : dir \in directions} }
          : src \in pieces(b, side, piece) }

append_pseudolegal_bishop_moves(b, side) ==
  append_pseudolegal_sliding_moves(b, side, bishop_move_directions, "bishop")

append_pseudolegal_rook_moves(b, side) ==
  append_pseudolegal_sliding_moves(b, side, rook_move_directions, "rook")

append_pseudolegal_queen_moves(b, side) ==
  append_pseudolegal_sliding_moves(b, side, all_directions, "queen")

-----------------------------------------------------------------------------
(* Pawns. *)

\* Faulty variant: pawns on their last rank but one are not left out.
append_pseudolegal_simple_pawn_moves_unmasked(b, side) ==
  UNION { { Move(p, dst, "pawn", "simple") : dst \in forward(side, p) \ all_pieces(b) }
          : p \in pawns(b, side) }

append_pseudolegal_simple_pawn_moves(b, side) ==
  UNION { { Move(p, dst, "pawn", "simple") : dst \in forward(side, p) \ all_pieces(b) }
          : p \in pawns(b, side) \ promotion_mask(side) }

append_pseudolegal_two_step_pawn_moves(b, side) ==
  UNION { { Move(p, dst, "pawn", "two_step_pawn") :
              dst \in (UNION { forward(side, mid) : mid \in forward(side, p) \ all_pieces(b) })
                        \ all_pieces(b) }
          : p \in pawns(b, side) \cap two_step_mask(side) }

\* Faulty variant: the same for captures.
append_pseudolegal_pawn_captures_unmasked(b, side) ==
  UNION { { Move(p, dst, "pawn", "capture") :
              dst \in diagonals(side, p) \cap enemies(b, side) }
          : p \in pawns(b, side) }

append_pseudolegal_pawn_captures(b, side) ==
  UNION { { Move(p, dst, "pawn", "capture") :
              dst \in diagonals(side, p) \cap enemies(b, side) }
          : p \in pawns(b, side) \ promotion_mask(side) }

\* The capturing pawns stand where an enemy pawn on the e.p. square would attack.
append_pseudolegal_en_passant_moves(b, side) ==
  UNION { { Move(p, ep, "pawn", "en_passant") :
              p \in diagonals(flip_color(side), ep) \cap pawns(b, side) }
          : ep \in b.en_passant_square_ }

append_pseudolegal_promotions(b, side) ==
  UNION { { Move(p, dst, "pawn", type) :
              dst \in (forward(side, p) \ all_pieces(b))
                        \cup (diagonals(side, p) \cap enemies(b, side)),
              type \in promotion_move_types }
          : p \in pawns(b, side) \cap promotion_mask(side) }

append_pseudolegal_pawn_moves(b, side) ==
  UNION { append_pseudolegal_simple_pawn_moves(b, side),
          append_pseudolegal_two_step_pawn_moves(b, side),
          append_pseudolegal_pawn_captures(b, side),
          append_pseudolegal_en_passant_moves(b, side),
          append_pseudolegal_promotions(b, side) }

-----------------------------------------------------------------------------
(* Kings and knights. *)

append_pseudolegal_king_moves(b, side) ==
  UNION { { simple_or_capture(b, side, src, dst, "king") :
              dst \in (UNION {direction_to_function(dir, src) : dir \in all_directions})
                        \ friends(b, side) }
          : src \in pieces(b, side, "king") }

knight_squares(sq) ==
  UNION { UNION { direction_to_function(dir[2], first_step) :
                    first_step \in direction_to_function(dir[1], sq) }
          : dir \in knight_move_directions }

append_pseudolegal_knight_moves(b, side) ==
  UNION { { simple_or_capture(b, side, src, dst, "knight") :
              dst \in knight_squares(src) \ friends(b, side) }
          : src \in pieces(b, side, "knight") }

pseudolegal_moves(b, side) ==
  UNION { append_pseudolegal_bishop_moves(b, side),
          append_pseudolegal_rook_moves(b, side),
          append_pseudolegal_queen_moves(b, side),
          append_pseudolegal_pawn_moves(b, side),
          append_pseudolegal_king_moves(b, side),
          append_pseudolegal_knight_moves(b, side) }

-----------------------------------------------------------------------------
(* Attacks.  A square counts as attacked when some pseudolegal move ends on *)
(* it, pawn pushes included, or when a pawn stands diagonally below it.     *)

pawn_attack_squares(b, side) == UNION {diagonals(side, p) : p \in pawns(b, side)}

attack_squares(b, side) ==
  {m.dst_square_ : m \in pseudolegal_moves(b, side)} \cup pawn_attack_squares(b, side)

is_king_attacked(b, side) ==
  pieces(b, side, "king") \cap attack_squares(b, flip_color(side)) # {}

-----------------------------------------------------------------------------
(* Castling. *)

has_right_to_castle(b, right) ==
  right \in b.castling /\ ~is_king_attacked(b, b.side_to_move)

\* Faulty variant: only the square the king crosses is looked at.
is_castle_kingside_legal_crossing_only(b) ==
  LET side           == b.side_to_move
      castle_squares == {home_square(side, 5), home_square(side, 6)}
  IN  /\ has_right_to_castle(b, kingside(side))
      /\ castle_squares \cap all_pieces(b) = {}
      /\ home_square(side, 5) \notin attack_squares(b, flip_color(side))

is_castle_kingside_legal(b) ==
  LET side           == b.side_to_move
      castle_squares == {home_square(side, 5), home_square(side, 6)}
  IN  /\ has_right_to_castle(b, kingside(side))
      /\ castle_squares \cap all_pieces(b) = {}
      /\ castle_squares \cap attack_squares(b, flip_color(side)) = {}

\* Faulty variant: an attack on the b file prevents castling.
is_castle_queenside_legal_strict(b) ==
  LET side           == b.side_to_move
      castle_squares == {home_square(side, file) : file \in 1..3}
  IN  /\ has_right_to_castle(b, queenside(side))
      /\ castle_squares \cap all_pieces(b) = {}
      /\ castle_squares \cap attack_squares(b, flip_color(side)) = {}

\* "the square on the b file can be attacked but must not be occupied"
is_castle_queenside_legal(b) ==
  LET side           == b.side_to_move
      castle_squares == {home_square(side, 3), home_square(side, 2)}
  IN  /\ has_right_to_castle(b, queenside(side))
      /\ (castle_squares \cup {home_square(side, 1)}) \cap all_pieces(b) = {}
      /\ castle_squares \cap attack_squares(b, flip_color(side)) = {}

\* Faulty variant: the king is taken to stand on the d file.
castle_kingside_move_from_d(side) ==
  Move(home_square(side, 3), home_square(side, 6), "king", "castle_kingside")

castle_kingside_move(side) ==
  Move(home_square(side, 4), home_square(side, 6), "king", "castle_kingside")

castle_queenside_move(side) ==
  Move(home_square(side, 4), home_square(side, 2), "king", "castle_queenside")

append_castling_moves(b) ==
  (IF is_castle_kingside_legal(b)  THEN {castle_kingside_move(b.side_to_move)}  ELSE {})
  \cup
  (IF is_castle_queenside_legal(b) THEN {castle_queenside_move(b.side_to_move)} ELSE {})

-----------------------------------------------------------------------------
(* Legal moves.  Castling moves are appended after the filter. *)

\* Faulty variant: the king is looked for after the turn has passed, on the wrong side.
is_pseudolegal_move_legal_wrong_side(b, m) ==
  LET this_copy == do_move(b, m)
  IN  ~is_king_attacked(this_copy, this_copy.side_to_move)

is_pseudolegal_move_legal(b, m) == ~is_king_attacked(do_move(b, m), b.side_to_move)

\* The moves on the vector; its order, and how often a move is on it, are left out.
legal_moves(b) ==
  {m \in pseudolegal_moves(b, b.side_to_move) : is_pseudolegal_move_legal(b, m)}
  \cup append_castling_moves(b)

-----------------------------------------------------------------------------
(* The ABSL_RAW_CHECKs on the way; the program aborts where one is false.   *)

\* pseudolegal_moves(side): the step functions check their argument with
\* is_square.  The squares of bitboard_split always pass; the king's Bitboard
\* and the e.p. square are handed over as they are.
generation_checks(b, side) ==
  /\ is_square(pieces(b, side, "king"))
  /\ b.en_passant_square_ # {} => is_square(b.en_passant_square_)

\* do_move: something stands on the source square ("Move not valid."), on the
\* rook's corner too, and the e.p. square is set for an e.p. move.
do_move_checks(b, m) ==
  /\ occupied(b.bb, m.src_square_)
  /\ m.move_type_ = "en_passant" => b.en_passant_square_ = {m.dst_square_}
  /\ m.move_type_ = "castle_kingside" => occupied(b.bb, home_square(b.side_to_move, 7))
  /\ m.move_type_ = "castle_queenside" => occupied(b.bb, home_square(b.side_to_move, 0))

\* legal_moves: the moves of both sides are generated on the board itself, and
\* the enemy's once more after each pseudolegal move.  A pawn of the side to
\* move with no square ahead would get a move to 0, which do_move refuses
\* ("Not a valid move."); such moves are not in the sets above.
legal_moves_checks(b) ==
  LET side == b.side_to_move
  IN  /\ \A c \in Color : generation_checks(b, c)
      /\ \A p \in pawns(b, side) : is_square(forward(side, p))
      /\ \A m \in pseudolegal_moves(b, side) :
           /\ do_move_checks(b, m)
           /\ generation_checks(do_move(b, m), flip_color(side))

-----------------------------------------------------------------------------
\* An en passant move ends on an empty square and is not a capture here.
is_capture_move(b, m) == m.dst_square_ \in enemies(b, b.side_to_move)

legal_capture_moves(b) == {m \in legal_moves(b) : is_capture_move(b, m)}
=============================================================================
