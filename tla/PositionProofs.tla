--------------------------- MODULE PositionProofs ---------------------------
(***************************************************************************)
(* First, what the operators of Bitboards and Board compute and what the   *)
(* generators of MoveGen push, for every board.                            *)
(*                                                                         *)
(* Then, what a legal move does to a well-formed board: the board it leads *)
(* to is well formed, no ABSL_RAW_CHECK fails on the way, and the men are  *)
(* accounted for.                                                          *)
(*                                                                         *)
(* None of the parts of WellFormed is kept by itself.  The kings stay      *)
(* because the side that has moved is not in check, so that no pseudolegal *)
(* move ends on its king; that it is not in check after castling needs the *)
(* castling rights to be sound; the rights stay sound because no two       *)
(* pieces share a square; and an e.p. capture finds its victim because the *)
(* e.p. square is fresh.                                                   *)
(***************************************************************************)
EXTENDS Position, FiniteSetTheorems, TLAPS

-----------------------------------------------------------------------------
(* The loops over all_bitboards(). *)

\* all_bitboards() lists each of the twelve Bitboards once.
LEMMA AllBitboards ==
  /\ \A i \in 1..12 : all_bitboards[i] \in Color \X Piece
  /\ \A cp \in Color \X Piece : \E i \in 1..12 : all_bitboards[i] = cp
  /\ \A i, j \in 1..12 : all_bitboards[i] = all_bitboards[j] => i = j
<1>1. \A i \in 1..12 : all_bitboards[i] \in Color \X Piece
  BY DEF all_bitboards, Color, Piece
<1>2. \A cp \in Color \X Piece : \E i \in 1..12 : all_bitboards[i] = cp
  BY DEF all_bitboards, Color, Piece
<1>3. \A i, j \in 1..12 : all_bitboards[i] = all_bitboards[j] => i = j
  BY DEF all_bitboards, Color, Piece
<1> QED BY <1>1, <1>2, <1>3

\* On a board without shared squares the loops of move_piece and
\* remove_piece_on stop at the one Bitboard that has the square.
LEMMA FirstBitboard ==
  ASSUME NEW bb \in BitboardArray, Disjoint(bb),
         NEW cp \in Color \X Piece, NEW sq \in bb[cp]
  PROVE  first_bitboard(bb, sq) = cp
<1> DEFINE P(i) == /\ sq \in bb[all_bitboards[i]]
                   /\ \A j \in 1..(i - 1) : sq \notin bb[all_bitboards[j]]
<1>1. PICK k \in 1..12 : all_bitboards[k] = cp
  BY AllBitboards
<1>2. \A j \in 1..12 : sq \in bb[all_bitboards[j]] => all_bitboards[j] = cp
  BY AllBitboards DEF Disjoint
<1>3. \A j \in 1..(k - 1) : sq \notin bb[all_bitboards[j]]
  <2> SUFFICES ASSUME NEW j \in 1..(k - 1), sq \in bb[all_bitboards[j]]
               PROVE  FALSE
    OBVIOUS
  <2>1. j \in 1..12 /\ j # k
    OBVIOUS
  <2> QED BY <1>1, <1>2, <2>1, AllBitboards
<1>4. P(k)
  BY <1>1, <1>3
<1>5. P(CHOOSE i \in 1..12 : P(i)) /\ (CHOOSE i \in 1..12 : P(i)) \in 1..12
  BY <1>4
<1> QED BY <1>2, <1>5 DEF first_bitboard

\* move_piece to an empty square changes the one piece's Bitboard and no other.
LEMMA MovePiece ==
  ASSUME NEW bb \in BitboardArray, Disjoint(bb),
         NEW cp \in Color \X Piece, NEW from \in bb[cp], NEW to \in Square,
         ~occupied(bb, to)
  PROVE  LET bb2 == move_piece(bb, from, to)
         IN  /\ bb2 \in BitboardArray
             /\ Disjoint(bb2)
             /\ \A x \in Color \X Piece :
                  bb2[x] = (bb[x] \ {from, to}) \cup (IF x = cp THEN {to} ELSE {})
<1> DEFINE bb2 == [bb EXCEPT ![cp] = (bb[cp] \ {from}) \cup {to}]
<1>1. move_piece(bb, from, to) = bb2
  BY FirstBitboard DEF move_piece
<1>2. \A x \in Color \X Piece : bb2[x] = IF x = cp THEN (bb[x] \ {from}) \cup {to} ELSE bb[x]
  BY DEF BitboardArray
<1>3. bb2 \in BitboardArray
  BY DEF BitboardArray, Bitboard
<1> HIDE DEF bb2
<1>4. \A x \in Color \X Piece : to \notin bb[x] /\ (x # cp => from \notin bb[x])
  BY DEF occupied, Disjoint
<1>5. \A x \in Color \X Piece : bb2[x] = (bb[x] \ {from, to}) \cup (IF x = cp THEN {to} ELSE {})
  BY <1>2, <1>4
<1>6. Disjoint(bb2)
  <2> SUFFICES ASSUME NEW x \in Color \X Piece, NEW y \in Color \X Piece,
                      NEW sq \in bb2[x] \cap bb2[y]
               PROVE  x = y
    BY DEF Disjoint
  <2>1. CASE sq = to
    BY <1>5, <2>1
  <2>2. CASE sq # to
    <3>1. sq \in bb[x] \cap bb[y]
      BY <1>5, <2>2
    <3> QED BY <3>1 DEF Disjoint
  <2> QED BY <2>1, <2>2
<1> QED BY <1>1, <1>3, <1>5, <1>6

\* remove_piece_on clears the square in every Bitboard.
LEMMA RemovePiece ==
  ASSUME NEW bb \in BitboardArray, Disjoint(bb), NEW sq
  PROVE  LET bb2 == remove_piece_on(bb, sq)
         IN  /\ bb2 \in BitboardArray
             /\ Disjoint(bb2)
             /\ \A x \in Color \X Piece : bb2[x] = bb[x] \ {sq}
<1>1. CASE occupied(bb, sq)
  <2>1. PICK cp \in Color \X Piece : sq \in bb[cp]
    BY <1>1 DEF occupied
  <2> DEFINE bb2 == [bb EXCEPT ![cp] = bb[cp] \ {sq}]
  <2>2. remove_piece_on(bb, sq) = bb2
    BY <1>1, <2>1, FirstBitboard DEF remove_piece_on
  <2>3. \A x \in Color \X Piece : bb2[x] = IF x = cp THEN bb[x] \ {sq} ELSE bb[x]
    BY DEF BitboardArray
  <2>4. bb2 \in BitboardArray
    BY DEF BitboardArray, Bitboard
  <2> HIDE DEF bb2
  <2>5. \A x \in Color \X Piece : bb2[x] = bb[x] \ {sq}
    <3>1. SUFFICES ASSUME NEW x \in Color \X Piece, x # cp
                   PROVE  sq \notin bb[x]
      BY <2>3
    <3> QED BY <2>1, <3>1 DEF Disjoint
  <2>6. Disjoint(bb2)
    BY <2>5 DEF Disjoint
  <2> QED BY <2>2, <2>4, <2>5, <2>6
<1>2. CASE ~occupied(bb, sq)
  <2>1. remove_piece_on(bb, sq) = bb
    BY <1>2 DEF remove_piece_on
  <2>2. \A x \in Color \X Piece : bb[x] = bb[x] \ {sq}
    BY <1>2 DEF occupied
  <2> QED BY <2>1, <2>2
<1> QED BY <1>1, <1>2

-----------------------------------------------------------------------------
(* Squares and steps. *)

\* The squares of the first rank of a side, a file first.
LEMMA Home ==
  ASSUME NEW side \in Color, NEW file \in 0..7
  PROVE  /\ home_square(side, file) \in Square
         /\ home_square(side, file) = (IF side = "white" THEN 7 ELSE 63) - file
BY DEF home_square, coordinates_to_square, Square, board_size, Color

\* flip_color is the other of the two colours.
LEMMA FlipColor ==
  ASSUME NEW side \in Color
  PROVE  /\ flip_color(side) \in Color
         /\ flip_color(side) # side
         /\ flip_color(flip_color(side)) = side
         /\ \A c \in Color : c = side \/ c = flip_color(side)
BY DEF flip_color, Color

\* The step functions stay on the board.
LEMMA Steps ==
  ASSUME NEW sq \in Square
  PROVE  /\ north_of(sq) \in Bitboard
         /\ south_of(sq) \in Bitboard
         /\ east_of(sq) \in Bitboard
         /\ west_of(sq) \in Bitboard
         /\ northeast_of(sq) \in Bitboard
         /\ northwest_of(sq) \in Bitboard
         /\ southeast_of(sq) \in Bitboard
         /\ southwest_of(sq) \in Bitboard
<1>1. \A s \in Square : east_of(s) \in Bitboard /\ west_of(s) \in Bitboard
  BY DEF east_of, west_of, on_h_file, on_a_file, file_idx, Square, board_size, Bitboard
<1>2. north_of(sq) \in Bitboard /\ south_of(sq) \in Bitboard
  BY DEF north_of, south_of, Bitboard
<1>3. northeast_of(sq) \in Bitboard /\ northwest_of(sq) \in Bitboard
  BY <1>1, <1>2 DEF northeast_of, northwest_of, Bitboard
<1>4. southeast_of(sq) \in Bitboard /\ southwest_of(sq) \in Bitboard
  BY <1>1, <1>2 DEF southeast_of, southwest_of, Bitboard
<1> QED BY <1>1, <1>2, <1>3, <1>4

\* So does direction_fn, whichever of them it is.
LEMMA DirectionType ==
  ASSUME NEW sq \in Square, NEW dir \in all_directions
  PROVE  direction_to_function(dir, sq) \in Bitboard
BY Steps DEF direction_to_function, all_directions, rook_move_directions, bishop_move_directions

\* And so does a walk.
LEMMA WalkType ==
  ASSUME NEW sq \in Square, NEW dir \in all_directions, NEW n \in Nat
  PROVE  walk(dir, sq, n) \in Bitboard
<1>1. \A file \in 0..7, rank \in 0..7 : coordinates_to_square(file, rank) \in Square
  BY DEF coordinates_to_square, Square, board_size
<1> QED BY <1>1 DEF walk, Bitboard

-----------------------------------------------------------------------------
(* Steps and walks in coordinates. *)

\* The square with the given file and rank, {} off the board.
at(file, rank) ==
  IF file \in 0..7 /\ rank \in 0..7 THEN {coordinates_to_square(file, rank)} ELSE {}

\* A square and its coordinates determine each other.
LEMMA Coordinates ==
  /\ \A sq \in Square : /\ file_idx(sq) \in 0..7 /\ rank_idx(sq) \in 0..7
                        /\ coordinates_to_square(file_idx(sq), rank_idx(sq)) = sq
  /\ \A file, rank \in 0..7 : LET sq == coordinates_to_square(file, rank)
                              IN  sq \in Square /\ file_idx(sq) = file /\ rank_idx(sq) = rank
<1> USE DEF file_idx, rank_idx, coordinates_to_square, Square, board_size
<1>1. \A sq \in Square : /\ file_idx(sq) \in 0..7 /\ rank_idx(sq) \in 0..7
                         /\ coordinates_to_square(file_idx(sq), rank_idx(sq)) = sq
  OBVIOUS
<1>2. \A file, rank \in 0..7 : LET sq == coordinates_to_square(file, rank)
                               IN  sq \in Square /\ file_idx(sq) = file /\ rank_idx(sq) = rank
  OBVIOUS
<1> QED BY <1>1, <1>2

\* The shifts and their masks, in coordinates.
LEMMA StraightSteps ==
  ASSUME NEW file \in 0..7, NEW rank \in 0..7
  PROVE  LET sq == coordinates_to_square(file, rank)
         IN  /\ north_of(sq) = at(file, rank + 1) /\ south_of(sq) = at(file, rank - 1)
             /\ east_of(sq) = at(file + 1, rank)  /\ west_of(sq) = at(file - 1, rank)
<1> DEFINE sq == coordinates_to_square(file, rank)
<1>1. sq \in Square /\ file_idx(sq) = file
  BY Coordinates
<1>2. north_of(sq) = at(file, rank + 1) /\ south_of(sq) = at(file, rank - 1)
  <2>1. /\ sq + 8 = coordinates_to_square(file, rank + 1)
        /\ sq - 8 = coordinates_to_square(file, rank - 1)
    BY DEF coordinates_to_square, board_size
  <2>2. /\ sq + 8 \in Square <=> rank + 1 \in 0..7
        /\ sq - 8 \in Square <=> rank - 1 \in 0..7
    BY DEF coordinates_to_square, Square, board_size
  <2> HIDE DEF sq
  <2> QED BY <2>1, <2>2 DEF north_of, south_of, at, board_size
<1>3. east_of(sq) = at(file + 1, rank) /\ west_of(sq) = at(file - 1, rank)
  BY <1>1 DEF east_of, west_of, on_h_file, on_a_file, at, coordinates_to_square, board_size
<1> QED BY <1>2, <1>3

\* And the diagonal steps, made of two.
LEMMA DiagonalSteps ==
  ASSUME NEW file \in 0..7, NEW rank \in 0..7
  PROVE  LET sq == coordinates_to_square(file, rank)
         IN  /\ northeast_of(sq) = at(file + 1, rank + 1)
             /\ northwest_of(sq) = at(file - 1, rank + 1)
             /\ southeast_of(sq) = at(file + 1, rank - 1)
             /\ southwest_of(sq) = at(file - 1, rank - 1)
<1> DEFINE sq == coordinates_to_square(file, rank)
<1>1. ASSUME NEW r \in Int
      PROVE  /\ UNION {east_of(s) : s \in at(file, r)} = at(file + 1, r)
             /\ UNION {west_of(s) : s \in at(file, r)} = at(file - 1, r)
  <2>1. CASE r \in 0..7
    <3>1. at(file, r) = {coordinates_to_square(file, r)}
      BY <2>1 DEF at
    <3> QED BY <2>1, <3>1, StraightSteps
  <2>2. CASE r \notin 0..7
    BY <2>2 DEF at
  <2> QED BY <2>1, <2>2
<1>2. north_of(sq) = at(file, rank + 1) /\ south_of(sq) = at(file, rank - 1)
  BY StraightSteps
<1> QED BY <1>1, <1>2 DEF northeast_of, northwest_of, southeast_of, southwest_of

\* One call of direction_fn adds its steps to the coordinates.
LEMMA StepCoordinates ==
  ASSUME NEW dir \in all_directions, NEW file \in 0..7, NEW rank \in 0..7
  PROVE  direction_to_function(dir, coordinates_to_square(file, rank))
           = at(file + file_step(dir), rank + rank_step(dir))
<1>1. /\ file + 0 = file /\ rank + 0 = rank
      /\ file + (-1) = file - 1 /\ rank + (-1) = rank - 1
  OBVIOUS
<1> QED BY <1>1, StraightSteps, DiagonalSteps
        DEF direction_to_function, file_step, rank_step,
            all_directions, rook_move_directions, bishop_move_directions

\* walk(dir, sq, n) is what n calls of direction_fn lead to: the sliding loop
\* stands there before it has met a piece.
LEMMA WalkIsIteratedStep ==
  ASSUME NEW dir \in all_directions, NEW sq \in Square, NEW n \in Nat
  PROVE  /\ walk(dir, sq, 0) = {sq}
         /\ walk(dir, sq, n + 1) = UNION {direction_to_function(dir, s) : s \in walk(dir, sq, n)}
<1> DEFINE f(k) == file_idx(sq) + k * file_step(dir)
           r(k) == rank_idx(sq) + k * rank_step(dir)
<1>1. \A k : walk(dir, sq, k) = at(f(k), r(k))
  BY DEF walk, at
<1>2. /\ file_idx(sq) \in 0..7 /\ rank_idx(sq) \in 0..7
      /\ file_step(dir) \in {-1, 0, 1} /\ rank_step(dir) \in {-1, 0, 1}
      /\ coordinates_to_square(file_idx(sq), rank_idx(sq)) = sq
  BY Coordinates DEF file_step, rank_step
<1>3. f(0) = file_idx(sq) /\ r(0) = rank_idx(sq)
  BY <1>2
<1>4. walk(dir, sq, 0) = {sq}
  BY <1>1, <1>2, <1>3 DEF at
<1>5. /\ f(n) \in Int /\ r(n) \in Int
      /\ f(n + 1) = f(n) + file_step(dir) /\ r(n + 1) = r(n) + rank_step(dir)
      /\ f(n) \notin 0..7 => f(n + 1) \notin 0..7
      /\ r(n) \notin 0..7 => r(n + 1) \notin 0..7
  BY <1>2
<1> HIDE DEF f, r
<1>6. CASE f(n) \in 0..7 /\ r(n) \in 0..7
  <2>1. walk(dir, sq, n) = {coordinates_to_square(f(n), r(n))}
    BY <1>1, <1>6 DEF at
  <2> QED BY <1>1, <1>4, <1>5, <1>6, <2>1, StepCoordinates
<1>7. CASE ~(f(n) \in 0..7 /\ r(n) \in 0..7)
  BY <1>1, <1>4, <1>5, <1>7 DEF at
<1> QED BY <1>6, <1>7
-----------------------------------------------------------------------------
(* Who stands on a square. *)

\* friends(side), a union of six Bitboards, element by element.
LEMMA Friends ==
  ASSUME NEW b, NEW side, NEW sq
  PROVE  sq \in friends(b, side) <=> \E p \in Piece : sq \in b.bb[<<side, p>>]
BY DEF friends, pieces

\* all_pieces() has exactly the squares that some Bitboard has.
LEMMA AllPieces ==
  ASSUME NEW b, NEW sq
  PROVE  sq \in all_pieces(b) <=> occupied(b.bb, sq)
<1>1. \A c \in Color : sq \in friends(b, c) <=> \E p \in Piece : sq \in b.bb[<<c, p>>]
  BY Friends
<1>2. sq \in all_pieces(b) <=> \E c \in Color : sq \in friends(b, c)
  BY DEF all_pieces, Color
<1>3. occupied(b.bb, sq) <=> \E c \in Color, p \in Piece : sq \in b.bb[<<c, p>>]
  <2>1. \A cp \in Color \X Piece : cp = <<cp[1], cp[2]>> /\ cp[1] \in Color /\ cp[2] \in Piece
    OBVIOUS
  <2>2. \A c \in Color, p \in Piece : <<c, p>> \in Color \X Piece
    OBVIOUS
  <2> QED BY <2>1, <2>2 DEF occupied
<1> QED BY <1>1, <1>2, <1>3

-----------------------------------------------------------------------------
(* do_move. *)

castle_types == {"castle_kingside", "castle_queenside"}

\* What stands on the destination after a move, and the squares an e.p.
\* capture empties besides the source.
Placed(m) ==
  IF m.move_type_ \in promotion_move_types THEN promoted_piece(m.move_type_)
                                           ELSE m.piece_moving_
Taken(m) ==
  IF m.move_type_ = "en_passant" THEN enemy_pawn_square(m.dst_square_) ELSE {}

\* The Bitboards after a move that is not castling, all move types in one:
\* the source, the destination and an e.p. victim's square are cleared, then
\* the piece is set down.
BitboardsAfter(b, m, bb2) ==
  \A x \in Color \X Piece :
    bb2[x] = (b.bb[x] \ ({m.src_square_, m.dst_square_} \cup Taken(m)))
               \cup (IF x = <<b.side_to_move, Placed(m)>> THEN {m.dst_square_} ELSE {})

\* What do_move relies on: the named piece is on the source, no friend is on
\* the destination, and no enemy either unless the move captures.
Movable(b, m) ==
  /\ m \in MoveSet
  /\ m.move_type_ \notin castle_types
  /\ m.src_square_ \in pieces(b, b.side_to_move, m.piece_moving_)
  /\ m.dst_square_ \notin friends(b, b.side_to_move)
  /\ m.move_type_ \in {"simple", "two_step_pawn", "en_passant"}
       => m.dst_square_ \notin all_pieces(b)
  /\ m.move_type_ = "en_passant"
       => \E sq \in Square : /\ enemy_pawn_square(m.dst_square_) = {sq}
                             /\ sq \notin friends(b, b.side_to_move)

\* The piece set down by a promotion is none of the other two kinds.
LEMMA PromotedPiece ==
  ASSUME NEW type \in promotion_move_types
  PROVE  promoted_piece(type) \in Piece \ {"pawn", "king"}
BY DEF promoted_piece, promotion_move_types, Piece

\* Each move type goes to its own do_*_move.
LEMMA DoMoveCases ==
  ASSUME NEW b, NEW m
  PROVE  /\ m.move_type_ = "simple" => do_move(b, m) = end_turn(do_simple_move(b, m))
         /\ m.move_type_ = "two_step_pawn" => do_move(b, m) = end_turn(do_two_step_pawn_move(b, m))
         /\ m.move_type_ = "capture" => do_move(b, m) = end_turn(do_capture_move(b, m))
         /\ m.move_type_ = "en_passant" => do_move(b, m) = end_turn(do_en_passant_move(b, m))
         /\ m.move_type_ \in castle_types => do_move(b, m) = end_turn(do_castle_move(b, m))
         /\ m.move_type_ \in promotion_move_types => do_move(b, m) = end_turn(do_promotion_move(b, m))
<1>1. m.move_type_ = "simple" => do_move(b, m) = end_turn(do_simple_move(b, m))
  BY DEF do_move, promotion_move_types
<1>2. m.move_type_ = "two_step_pawn" => do_move(b, m) = end_turn(do_two_step_pawn_move(b, m))
  BY DEF do_move, promotion_move_types
<1>3. m.move_type_ = "capture" => do_move(b, m) = end_turn(do_capture_move(b, m))
  BY DEF do_move, promotion_move_types
<1>4. m.move_type_ = "en_passant" => do_move(b, m) = end_turn(do_en_passant_move(b, m))
  BY DEF do_move, promotion_move_types
<1>5. m.move_type_ \in castle_types => do_move(b, m) = end_turn(do_castle_move(b, m))
  BY DEF do_move, promotion_move_types, castle_types
<1>6. m.move_type_ \in promotion_move_types => do_move(b, m) = end_turn(do_promotion_move(b, m))
  BY DEF do_move, promotion_move_types
<1> QED BY <1>1, <1>2, <1>3, <1>4, <1>5, <1>6

\* The fields do_move sets besides the Bitboards.
NextEnPassant(m) ==
  IF m.move_type_ = "two_step_pawn"
  THEN IF m.src_square_ \in second_rank_mask THEN north_of(m.src_square_)
                                             ELSE south_of(m.src_square_)
  ELSE {}
NextCastling(b, m) ==
  IF m.move_type_ \in {"two_step_pawn", "en_passant"} THEN b.castling
  ELSE adjust_castling_rights(b.castling, m)

\* b2 is b with new Bitboards, e.p. square and castling rights, and the turn
\* passed.
Turned(b, b2, bb2, ep, rights) ==
  /\ b2.bb = bb2
  /\ b2.side_to_move = flip_color(b.side_to_move)
  /\ b2.en_passant_square_ = ep
  /\ b2.castling = rights
  /\ b2.fifty_move_clock_ = b.fifty_move_clock_
  /\ b2.num_moves_ = b.num_moves_ + (IF b.side_to_move = "black" THEN 1 ELSE 0)

\* The square of the pawn an en passant move takes.
Victim(m) == CHOOSE sq \in enemy_pawn_square(m.dst_square_) : TRUE

\* The Bitboards do_move leaves, by move type, before the geometry is looked at.
MovedBitboards(b, m) ==
  LET src     == m.src_square_
      dst     == m.dst_square_
      corner  == home_square(b.side_to_move, IF m.move_type_ = "castle_kingside" THEN 7 ELSE 0)
      beside  == home_square(b.side_to_move, IF m.move_type_ = "castle_kingside" THEN 5 ELSE 3)
      cleared == remove_piece_on(remove_piece_on(b.bb, src), dst)
      queened == <<b.side_to_move, promoted_piece(m.move_type_)>>
  IN  IF m.move_type_ \in {"simple", "two_step_pawn"} THEN move_piece(b.bb, src, dst)
      ELSE IF m.move_type_ = "capture" THEN move_piece(remove_piece_on(b.bb, dst), src, dst)
      ELSE IF m.move_type_ = "en_passant" THEN move_piece(remove_piece_on(b.bb, Victim(m)), src, dst)
      ELSE IF m.move_type_ \in castle_types
           THEN move_piece(move_piece(b.bb, src, dst), corner, beside)
      ELSE [cleared EXCEPT ![queened] = @ \cup {dst}]

\* Each do_*_move followed by end_turn, field by field.
LEMMA DoMoveParts ==
  ASSUME NEW b \in BoardType, NEW m
  PROVE  LET src == m.src_square_
             dst == m.dst_square_
             corner  == home_square(b.side_to_move, IF m.move_type_ = "castle_kingside" THEN 7 ELSE 0)
             beside  == home_square(b.side_to_move, IF m.move_type_ = "castle_kingside" THEN 5 ELSE 3)
             cleared == remove_piece_on(remove_piece_on(b.bb, src), dst)
             queened == <<b.side_to_move, promoted_piece(m.move_type_)>>
             rights  == adjust_castling_rights(b.castling, m)
         IN  /\ Turned(b, end_turn(do_simple_move(b, m)), move_piece(b.bb, src, dst), {}, rights)
             /\ Turned(b, end_turn(do_two_step_pawn_move(b, m)), move_piece(b.bb, src, dst),
                       IF src \in second_rank_mask THEN north_of(src) ELSE south_of(src), b.castling)
             /\ Turned(b, end_turn(do_capture_move(b, m)),
                       move_piece(remove_piece_on(b.bb, dst), src, dst), {}, rights)
             /\ Turned(b, end_turn(do_en_passant_move(b, m)),
                       move_piece(remove_piece_on(b.bb, Victim(m)), src, dst), {}, b.castling)
             /\ Turned(b, end_turn(do_castle_move(b, m)),
                       move_piece(move_piece(b.bb, src, dst), corner, beside), {}, rights)
             /\ Turned(b, end_turn(do_promotion_move(b, m)),
                       [cleared EXCEPT ![queened] = @ \cup {dst}], {}, rights)
<1> DEFINE src == m.src_square_
           dst == m.dst_square_
           corner  == home_square(b.side_to_move, IF m.move_type_ = "castle_kingside" THEN 7 ELSE 0)
           beside  == home_square(b.side_to_move, IF m.move_type_ = "castle_kingside" THEN 5 ELSE 3)
           cleared == remove_piece_on(remove_piece_on(b.bb, src), dst)
           queened == <<b.side_to_move, promoted_piece(m.move_type_)>>
           rights  == adjust_castling_rights(b.castling, m)
<1> USE DEF Turned, BoardType, end_turn
<1>1. Turned(b, end_turn(do_simple_move(b, m)), move_piece(b.bb, src, dst), {}, rights)
  BY DEF do_simple_move
<1>2. Turned(b, end_turn(do_two_step_pawn_move(b, m)), move_piece(b.bb, src, dst),
             IF src \in second_rank_mask THEN north_of(src) ELSE south_of(src), b.castling)
  BY DEF do_two_step_pawn_move
<1>3. Turned(b, end_turn(do_capture_move(b, m)),
             move_piece(remove_piece_on(b.bb, dst), src, dst), {}, rights)
  BY DEF do_capture_move
<1>4. Turned(b, end_turn(do_en_passant_move(b, m)),
             move_piece(remove_piece_on(b.bb, Victim(m)), src, dst), {}, b.castling)
  BY DEF do_en_passant_move, Victim
<1>5. Turned(b, end_turn(do_castle_move(b, m)),
             move_piece(move_piece(b.bb, src, dst), corner, beside), {}, rights)
  BY DEF do_castle_move
<1>6. Turned(b, end_turn(do_promotion_move(b, m)),
             [cleared EXCEPT ![queened] = @ \cup {dst}], {}, rights)
  BY DEF do_promotion_move
<1> QED BY <1>1, <1>2, <1>3, <1>4, <1>5, <1>6

\* The board after do_move: one statement for all move types.
LEMMA DoMoveBoard ==
  ASSUME NEW b \in BoardType, NEW m \in MoveSet
  PROVE  Turned(b, do_move(b, m), MovedBitboards(b, m), NextEnPassant(m), NextCastling(b, m))
<1> USE DEF MovedBitboards, NextEnPassant, NextCastling
<1>1. CASE m.move_type_ = "simple"
  BY <1>1, DoMoveCases, DoMoveParts
<1>2. CASE m.move_type_ = "two_step_pawn"
  BY <1>2, DoMoveCases, DoMoveParts
<1>3. CASE m.move_type_ = "capture"
  BY <1>3, DoMoveCases, DoMoveParts
<1>4. CASE m.move_type_ = "en_passant"
  BY <1>4, DoMoveCases, DoMoveParts
<1>5. CASE m.move_type_ \in castle_types
  BY <1>5, DoMoveCases, DoMoveParts DEF castle_types
<1>6. CASE m.move_type_ \in promotion_move_types
  BY <1>6, DoMoveCases, DoMoveParts DEF castle_types, promotion_move_types
<1> QED BY <1>1, <1>2, <1>3, <1>4, <1>5, <1>6 DEF MoveSet, MoveType, castle_types

\* A movable piece, moved: the twelve Bitboards stay disjoint and differ from
\* the old ones exactly as BitboardsAfter says.  This is where do_capture_move
\* and do_promotion_move have to clear the destination before they fill it.
LEMMA MoveEffect ==
  ASSUME NEW b \in BoardType, Disjoint(b.bb), NEW m, Movable(b, m)
  PROVE  LET bb2 == MovedBitboards(b, m)
         IN  /\ bb2 \in BitboardArray
             /\ Disjoint(bb2)
             /\ BitboardsAfter(b, m, bb2)
<1> DEFINE src == m.src_square_
           dst == m.dst_square_
           side == b.side_to_move
           cp  == <<side, m.piece_moving_>>
           bb2 == MovedBitboards(b, m)
           filled(x, y) == IF x = y THEN {dst} ELSE {}
<1>1. /\ src \in Square /\ dst \in Square
      /\ side \in Color /\ m.piece_moving_ \in Piece
      /\ cp \in Color \X Piece
      /\ b.bb \in BitboardArray
      /\ src \in b.bb[cp]
  BY DEF Movable, MoveSet, BoardType, pieces
<1>2. \A p \in Piece : dst \notin b.bb[<<side, p>>]
  BY Friends DEF Movable
<1>3. src # dst
  BY <1>1, <1>2
<1>4. m.move_type_ \in {"simple", "two_step_pawn", "en_passant"} => ~occupied(b.bb, dst)
  BY AllPieces DEF Movable
<1>5. CASE m.move_type_ \in {"simple", "two_step_pawn"}
  <2>1. bb2 = move_piece(b.bb, src, dst)
    BY <1>5 DEF MovedBitboards
  <2>2. Taken(m) = {} /\ <<side, Placed(m)>> = cp
    BY <1>5 DEF Taken, Placed, promotion_move_types
  <2> HIDE DEF bb2, cp, src, dst, side
  <2>3. /\ bb2 \in BitboardArray
        /\ Disjoint(bb2)
        /\ \A x \in Color \X Piece : bb2[x] = (b.bb[x] \ {src, dst}) \cup filled(x, cp)
    BY <1>1, <1>4, <1>5, <2>1, MovePiece
  <2>4. BitboardsAfter(b, m, bb2)
    BY <2>2, <2>3 DEF BitboardsAfter, src, dst, side
  <2> QED BY <2>3, <2>4 DEF bb2
<1>6. CASE m.move_type_ = "capture"
  <2> DEFINE bb1 == remove_piece_on(b.bb, dst)
  <2>1. bb2 = move_piece(bb1, src, dst)
    BY <1>6 DEF MovedBitboards
  <2>2. Taken(m) = {} /\ <<side, Placed(m)>> = cp
    BY <1>6 DEF Taken, Placed, promotion_move_types
  <2> HIDE DEF bb2, cp, src, dst, side
  <2>3. /\ bb1 \in BitboardArray
        /\ Disjoint(bb1)
        /\ \A x \in Color \X Piece : bb1[x] = b.bb[x] \ {dst}
    BY <1>1, RemovePiece
  <2>4. src \in bb1[cp] /\ ~occupied(bb1, dst)
    BY <1>1, <1>3, <2>3 DEF occupied
  <2> HIDE DEF bb1
  <2>5. /\ bb2 \in BitboardArray
        /\ Disjoint(bb2)
        /\ \A x \in Color \X Piece : bb2[x] = (bb1[x] \ {src, dst}) \cup filled(x, cp)
    BY <1>1, <2>1, <2>3, <2>4, MovePiece
  <2>6. BitboardsAfter(b, m, bb2)
    BY <2>2, <2>3, <2>5 DEF BitboardsAfter, src, dst, side
  <2> QED BY <2>5, <2>6 DEF bb2
<1>7. CASE m.move_type_ = "en_passant"
  <2>1. PICK v \in Square : /\ enemy_pawn_square(dst) = {v}
                            /\ v \notin friends(b, side)
    BY <1>7 DEF Movable
  <2> DEFINE bb1 == remove_piece_on(b.bb, v)
  <2>2. Victim(m) = v
    BY <2>1 DEF Victim
  <2>3. bb2 = move_piece(bb1, src, dst)
    BY <1>7, <2>2 DEF MovedBitboards
  <2>4. Taken(m) = {v} /\ <<side, Placed(m)>> = cp
    BY <1>7, <2>1 DEF Taken, Placed, promotion_move_types
  <2>5. v # src
    BY <1>1, <2>1, Friends
  <2> HIDE DEF bb2, cp, src, dst, side
  <2>6. /\ bb1 \in BitboardArray
        /\ Disjoint(bb1)
        /\ \A x \in Color \X Piece : bb1[x] = b.bb[x] \ {v}
    BY <1>1, RemovePiece
  <2>7. src \in bb1[cp] /\ ~occupied(bb1, dst)
    BY <1>1, <1>4, <1>7, <2>5, <2>6 DEF occupied
  <2> HIDE DEF bb1
  <2>8. /\ bb2 \in BitboardArray
        /\ Disjoint(bb2)
        /\ \A x \in Color \X Piece : bb2[x] = (bb1[x] \ {src, dst}) \cup filled(x, cp)
    BY <1>1, <2>3, <2>6, <2>7, MovePiece
  <2>9. BitboardsAfter(b, m, bb2)
    BY <2>4, <2>6, <2>8 DEF BitboardsAfter, src, dst, side
  <2> QED BY <2>8, <2>9 DEF bb2
<1>8. CASE m.move_type_ \in promotion_move_types
  <2> DEFINE bb0 == remove_piece_on(b.bb, src)
             bb1 == remove_piece_on(bb0, dst)
             q   == <<side, promoted_piece(m.move_type_)>>
  <2>1. bb2 = [bb1 EXCEPT ![q] = @ \cup {dst}]
    BY <1>8 DEF MovedBitboards, promotion_move_types, castle_types
  <2>2. Taken(m) = {} /\ Placed(m) = promoted_piece(m.move_type_)
    BY <1>8 DEF Taken, Placed, promotion_move_types
  <2>3. /\ bb0 \in BitboardArray
        /\ Disjoint(bb0)
        /\ \A x \in Color \X Piece : bb0[x] = b.bb[x] \ {src}
    BY <1>1, RemovePiece
  <2> HIDE DEF bb0
  <2>4. /\ bb1 \in BitboardArray
        /\ Disjoint(bb1)
        /\ \A x \in Color \X Piece : bb1[x] = bb0[x] \ {dst}
    BY <2>3, RemovePiece
  <2>5. q \in Color \X Piece
    BY <1>1, <1>8, PromotedPiece
  <2> HIDE DEF bb1, bb2, q
  <2>6. \A x \in Color \X Piece : bb2[x] = IF x = q THEN bb1[x] \cup {dst} ELSE bb1[x]
    BY <2>1, <2>4, <2>5 DEF BitboardArray
  <2>7. bb2 \in BitboardArray
    BY <1>1, <2>1, <2>4, <2>5 DEF BitboardArray, Bitboard
  <2>8. \A x \in Color \X Piece : dst \notin bb1[x]
    BY <2>4
  <2>9. Disjoint(bb2)
    <3> SUFFICES ASSUME NEW x \in Color \X Piece, NEW y \in Color \X Piece,
                        NEW sq \in bb2[x] \cap bb2[y]
                 PROVE  x = y
      BY DEF Disjoint
    <3>1. CASE sq = dst
      BY <2>6, <2>8, <3>1
    <3>2. CASE sq # dst
      <4>1. sq \in bb1[x] \cap bb1[y]
        BY <2>6, <3>2
      <4> QED BY <2>4, <4>1 DEF Disjoint
    <3> QED BY <3>1, <3>2
  <2>10. BitboardsAfter(b, m, bb2)
    BY <2>2, <2>3, <2>4, <2>6 DEF BitboardsAfter, q
  <2> QED BY <2>7, <2>9, <2>10 DEF bb2
<1> QED BY <1>5, <1>6, <1>7, <1>8 DEF Movable, MoveSet, MoveType, castle_types

\* do_move returns a Board when its Bitboards are Bitboards.
LEMMA DoMoveType ==
  ASSUME NEW b \in BoardType, NEW m \in MoveSet, MovedBitboards(b, m) \in BitboardArray
  PROVE  do_move(b, m) \in BoardType
<1>1. \A c \in BoardType : end_turn(c) \in BoardType
  <2> SUFFICES ASSUME NEW c \in BoardType PROVE end_turn(c) \in BoardType
    OBVIOUS
  <2>1. flip_color(c.side_to_move) \in Color
    BY FlipColor DEF BoardType
  <2>2. c.num_moves_ + (IF c.side_to_move = "black" THEN 1 ELSE 0) \in Int
    BY DEF BoardType
  <2> QED BY <2>1, <2>2 DEF BoardType, end_turn
<1>2. adjust_castling_rights(b.castling, m) \in SUBSET Right
  BY DEF adjust_castling_rights, BoardType
<1>3. {} \in Bitboard
  BY DEF Bitboard
<1>5. CASE m.move_type_ = "simple"
  <2>1. MovedBitboards(b, m) = move_piece(b.bb, m.src_square_, m.dst_square_)
    BY <1>5 DEF MovedBitboards
  <2>2. do_simple_move(b, m) \in BoardType
    BY <1>2, <1>3, <2>1 DEF do_simple_move, BoardType
  <2> QED BY <1>1, <1>5, <2>2, DoMoveCases
<1>6. CASE m.move_type_ = "two_step_pawn"
  <2>1. MovedBitboards(b, m) = move_piece(b.bb, m.src_square_, m.dst_square_)
    BY <1>6 DEF MovedBitboards
  <2>2. (IF m.src_square_ \in second_rank_mask THEN north_of(m.src_square_) ELSE south_of(m.src_square_))
          \in Bitboard
    BY Steps DEF MoveSet
  <2>3. do_two_step_pawn_move(b, m) \in BoardType
    BY <2>1, <2>2 DEF do_two_step_pawn_move, BoardType
  <2> QED BY <1>1, <1>6, <2>3, DoMoveCases
<1>7. CASE m.move_type_ = "capture"
  <2>1. MovedBitboards(b, m) = move_piece(remove_piece_on(b.bb, m.dst_square_), m.src_square_, m.dst_square_)
    BY <1>7 DEF MovedBitboards
  <2>2. do_capture_move(b, m) \in BoardType
    BY <1>2, <1>3, <2>1 DEF do_capture_move, BoardType
  <2> QED BY <1>1, <1>7, <2>2, DoMoveCases
<1>8. CASE m.move_type_ = "en_passant"
  <2>1. MovedBitboards(b, m) = move_piece(remove_piece_on(b.bb, Victim(m)), m.src_square_, m.dst_square_)
    BY <1>8 DEF MovedBitboards
  <2>2. do_en_passant_move(b, m) \in BoardType
    BY <1>3, <2>1 DEF do_en_passant_move, BoardType, Victim
  <2> QED BY <1>1, <1>8, <2>2, DoMoveCases
<1>9. CASE m.move_type_ \in castle_types
  <2> DEFINE corner == home_square(b.side_to_move, IF m.move_type_ = "castle_kingside" THEN 7 ELSE 0)
             beside == home_square(b.side_to_move, IF m.move_type_ = "castle_kingside" THEN 5 ELSE 3)
  <2>1. MovedBitboards(b, m) = move_piece(move_piece(b.bb, m.src_square_, m.dst_square_), corner, beside)
    BY <1>9 DEF MovedBitboards, castle_types
  <2>2. do_castle_move(b, m) \in BoardType
    BY <1>2, <1>3, <2>1 DEF do_castle_move, BoardType
  <2> QED BY <1>1, <1>9, <2>2, DoMoveCases
<1>10. CASE m.move_type_ \in promotion_move_types
  <2> DEFINE cleared == remove_piece_on(remove_piece_on(b.bb, m.src_square_), m.dst_square_)
             queened == <<b.side_to_move, promoted_piece(m.move_type_)>>
  <2>1. MovedBitboards(b, m) = [cleared EXCEPT ![queened] = @ \cup {m.dst_square_}]
    BY <1>10 DEF MovedBitboards, castle_types, promotion_move_types
  <2>2. do_promotion_move(b, m) \in BoardType
    BY <1>2, <1>3, <2>1 DEF do_promotion_move, BoardType
  <2> QED BY <1>1, <1>10, <2>2, DoMoveCases
<1> QED BY <1>5, <1>6, <1>7, <1>8, <1>9, <1>10 DEF MoveSet, MoveType, castle_types

\* Castling with the king on its square, the rook on its corner and the two
\* squares they go to empty moves these two pieces and nothing else.
LEMMA CastleEffect ==
  ASSUME NEW b \in BoardType, Disjoint(b.bb), NEW m \in MoveSet, m.move_type_ \in castle_types,
         NEW corner \in Square, NEW beside \in Square,
         corner = home_square(b.side_to_move, IF m.move_type_ = "castle_kingside" THEN 7 ELSE 0),
         beside = home_square(b.side_to_move, IF m.move_type_ = "castle_kingside" THEN 5 ELSE 3),
         m.src_square_ \in b.bb[<<b.side_to_move, "king">>],
         corner \in b.bb[<<b.side_to_move, "rook">>],
         ~occupied(b.bb, m.dst_square_), ~occupied(b.bb, beside), m.dst_square_ # beside
  PROVE  LET bb2 == MovedBitboards(b, m)
         IN  /\ bb2 \in BitboardArray
             /\ Disjoint(bb2)
             /\ \A x \in Color \X Piece :
                  bb2[x] = (b.bb[x] \ {m.src_square_, m.dst_square_, corner, beside})
                             \cup (IF x = <<b.side_to_move, "king">> THEN {m.dst_square_} ELSE {})
                             \cup (IF x = <<b.side_to_move, "rook">> THEN {beside} ELSE {})
<1> DEFINE src  == m.src_square_
           dst  == m.dst_square_
           king == <<b.side_to_move, "king">>
           rook == <<b.side_to_move, "rook">>
           bb1  == move_piece(b.bb, src, dst)
           bb2  == MovedBitboards(b, m)
<1>1. bb2 = move_piece(bb1, corner, beside)
  BY DEF MovedBitboards, castle_types
<1>2. /\ b.bb \in BitboardArray /\ dst \in Square /\ src \in Square
      /\ king \in Color \X Piece /\ rook \in Color \X Piece /\ king # rook
  BY DEF BoardType, MoveSet, Piece
<1>3. src \in b.bb[king] /\ corner \in b.bb[rook] /\ ~occupied(b.bb, dst)
  OBVIOUS
<1> HIDE DEF src, dst, king, rook, bb1, bb2
<1>4. /\ bb1 \in BitboardArray
      /\ Disjoint(bb1)
      /\ \A x \in Color \X Piece : bb1[x] = (b.bb[x] \ {src, dst}) \cup (IF x = king THEN {dst} ELSE {})
  BY <1>2, <1>3, MovePiece DEF bb1
<1>5. corner # src /\ corner # dst
  BY <1>2, <1>3 DEF Disjoint, occupied
<1>6. corner \in bb1[rook]
  BY <1>2, <1>3, <1>4, <1>5
<1>7. ~occupied(bb1, beside)
  BY <1>4 DEF occupied, dst
<1>8. /\ bb2 \in BitboardArray
      /\ Disjoint(bb2)
      /\ \A x \in Color \X Piece : bb2[x] = (bb1[x] \ {corner, beside}) \cup (IF x = rook THEN {beside} ELSE {})
  BY <1>1, <1>2, <1>4, <1>6, <1>7, MovePiece
<1>9. ~occupied(b.bb, beside) /\ dst # beside
  BY DEF dst
<1>10. \A x \in Color \X Piece :
         bb2[x] = (b.bb[x] \ {src, dst, corner, beside})
                    \cup (IF x = king THEN {dst} ELSE {}) \cup (IF x = rook THEN {beside} ELSE {})
  BY <1>4, <1>5, <1>8, <1>9
<1> QED BY <1>8, <1>10 DEF src, dst, king, rook, bb2

-----------------------------------------------------------------------------
(* The generators: each move starts on a piece of the side, ends off the    *)
(* side's own pieces, and has the type that do_move needs for what stands   *)
(* on its destination.                                                      *)

-----------------------------------------------------------------------------
(* Pawn geometry. *)

\* A pawn's step changes the index by eight and the rank by one.
up(side) == IF side = "white" THEN 1 ELSE -1

\* Off the back ranks, the square ahead of a pawn is one square of the board.
LEMMA Forward ==
  ASSUME NEW side \in Color, NEW sq \in Square, rank_idx(sq) \in 1..6
  PROVE  /\ forward(side, sq) = {sq + 8 * up(side)}
         /\ sq + 8 * up(side) \in Square
         /\ rank_idx(sq + 8 * up(side)) = rank_idx(sq) + up(side)
<1>1. CASE side = "white"
  <2>1. up(side) = 1
    BY <1>1 DEF up
  <2>2. sq + 8 \in Square /\ rank_idx(sq + 8) = rank_idx(sq) + 1
    BY DEF rank_idx, Square, board_size
  <2>3. forward(side, sq) = {sq + 8}
    BY <1>1, <2>2 DEF forward, north_of, board_size
  <2> QED BY <2>1, <2>2, <2>3 DEF Square, board_size
<1>2. CASE side = "black"
  <2>1. up(side) = -1
    BY <1>2 DEF up
  <2>2. sq - 8 \in Square /\ rank_idx(sq - 8) = rank_idx(sq) - 1
    BY DEF rank_idx, Square, board_size
  <2>3. forward(side, sq) = {sq - 8}
    BY <1>2, <2>2 DEF forward, south_of, board_size
  <2>4. sq + 8 * up(side) = sq - 8 /\ rank_idx(sq) + up(side) = rank_idx(sq) - 1
    BY <2>1 DEF Square, board_size, rank_idx
  <2> QED BY <2>2, <2>3, <2>4
<1> QED BY <1>1, <1>2 DEF Color

\* The squares a pawn attacks are on the next rank.
LEMMA Diagonals ==
  ASSUME NEW side \in Color, NEW sq \in Square, NEW d \in diagonals(side, sq)
  PROVE  d \in Square /\ rank_idx(d) = rank_idx(sq) + up(side)
<1>1. \A s \in Square : \A e \in east_of(s) \cup west_of(s) : e \in Square /\ rank_idx(e) = rank_idx(s)
  BY DEF east_of, west_of, on_a_file, on_h_file, file_idx, rank_idx, Square, board_size
<1>2. \A n \in north_of(sq) : n \in Square /\ rank_idx(n) = rank_idx(sq) + 1
  BY DEF north_of, rank_idx, Square, board_size
<1>3. \A s \in south_of(sq) : s \in Square /\ rank_idx(s) = rank_idx(sq) - 1
  BY DEF south_of, rank_idx, Square, board_size
<1>4. CASE side = "white"
  <2>1. PICK n \in north_of(sq) : d \in east_of(n) \cup west_of(n)
    BY <1>4 DEF diagonals, northeast_of, northwest_of
  <2> QED BY <1>1, <1>2, <1>4, <2>1 DEF up
<1>5. CASE side = "black"
  <2>1. PICK s \in south_of(sq) : d \in east_of(s) \cup west_of(s)
    BY <1>5 DEF diagonals, southeast_of, southwest_of
  <2>2. s \in Square /\ rank_idx(s) = rank_idx(sq) - 1
    BY <1>3, <2>1
  <2>3. d \in Square /\ rank_idx(d) = rank_idx(s)
    BY <1>1, <2>1, <2>2
  <2>4. up(side) = -1
    BY <1>5 DEF up
  <2>5. rank_idx(sq) \in Int
    BY DEF rank_idx, Square, board_size
  <2> QED BY <2>2, <2>3, <2>4, <2>5
<1> QED BY <1>4, <1>5 DEF Color

-----------------------------------------------------------------------------
(* Officers and kings. *)

OfficerMove(b, side, m) ==
  /\ m \in MoveSet
  /\ m.piece_moving_ # "pawn"
  /\ m.src_square_ \in pieces(b, side, m.piece_moving_)
  /\ m.dst_square_ \notin friends(b, side)
  /\ m.move_type_ = IF m.dst_square_ \in enemies(b, side) THEN "capture" ELSE "simple"

\* The pattern common to sliding pieces, knights and kings.
LEMMA SimpleOrCapture ==
  ASSUME NEW b \in BoardType, NEW side \in Color, NEW piece \in Piece \ {"pawn"},
         NEW src \in pieces(b, side, piece), NEW dst \in Square \ friends(b, side)
  PROVE  OfficerMove(b, side, simple_or_capture(b, side, src, dst, piece))
<1>1. src \in Square
  BY DEF BoardType, BitboardArray, Bitboard, pieces
<1> QED BY <1>1 DEF OfficerMove, simple_or_capture, Move, MoveSet, MoveType

\* Bishops, rooks and queens.
LEMMA SlidingMoves ==
  ASSUME NEW b \in BoardType, NEW side \in Color, NEW piece \in Piece \ {"pawn"},
         NEW directions \in SUBSET all_directions,
         NEW m \in append_pseudolegal_sliding_moves(b, side, directions, piece)
  PROVE  OfficerMove(b, side, m) /\ m.piece_moving_ = piece
<1>0. PICK src \in pieces(b, side, piece) :
        \E dir \in directions : \E dst \in slide(b, side, src, dir) :
          m = simple_or_capture(b, side, src, dst, piece)
  BY DEF append_pseudolegal_sliding_moves
<1>1. PICK dir \in directions : \E dst \in slide(b, side, src, dir) :
        m = simple_or_capture(b, side, src, dst, piece)
  BY <1>0
<1>5. PICK dst \in slide(b, side, src, dir) : m = simple_or_capture(b, side, src, dst, piece)
  BY <1>1
<1>2. src \in Square
  BY DEF BoardType, BitboardArray, Bitboard, pieces
<1>3. \A n \in 1..7 : walk(dir, src, n) \subseteq Square
  BY <1>2, WalkType DEF Bitboard
<1>4. dst \in Square \ friends(b, side)
  BY <1>3 DEF slide
<1> QED BY <1>4, <1>5, SimpleOrCapture DEF simple_or_capture, Move

\* Kings.
LEMMA KingMoves ==
  ASSUME NEW b \in BoardType, NEW side \in Color, NEW m \in append_pseudolegal_king_moves(b, side)
  PROVE  OfficerMove(b, side, m) /\ m.piece_moving_ = "king"
<1>0. PICK src \in pieces(b, side, "king") :
        \E dir \in all_directions : \E dst \in direction_to_function(dir, src) \ friends(b, side) :
          m = simple_or_capture(b, side, src, dst, "king")
  BY DEF append_pseudolegal_king_moves
<1>5. PICK dir \in all_directions : \E dst \in direction_to_function(dir, src) \ friends(b, side) :
        m = simple_or_capture(b, side, src, dst, "king")
  BY <1>0
<1>1. PICK dst \in direction_to_function(dir, src) \ friends(b, side) :
        m = simple_or_capture(b, side, src, dst, "king")
  BY <1>5
<1>2. src \in Square
  BY DEF BoardType, BitboardArray, Bitboard, pieces, Piece
<1>3. dst \in Square
  BY <1>2, DirectionType DEF Bitboard
<1>4. "king" \in Piece \ {"pawn"}
  BY DEF Piece
<1> QED BY <1>1, <1>3, <1>4, SimpleOrCapture DEF simple_or_capture, Move

\* Knights.
LEMMA KnightMoves ==
  ASSUME NEW b \in BoardType, NEW side \in Color, NEW m \in append_pseudolegal_knight_moves(b, side)
  PROVE  OfficerMove(b, side, m) /\ m.piece_moving_ = "knight"
<1>0. PICK src \in pieces(b, side, "knight") :
        \E dst \in knight_squares(src) \ friends(b, side) :
          m = simple_or_capture(b, side, src, dst, "knight")
  BY DEF append_pseudolegal_knight_moves
<1>1. PICK dst \in knight_squares(src) \ friends(b, side) :
        m = simple_or_capture(b, side, src, dst, "knight")
  BY <1>0
<1>2. src \in Square
  BY DEF BoardType, BitboardArray, Bitboard, pieces, Piece
<1>3. dst \in Square
  <2>0. PICK dir \in knight_move_directions :
          \E first_step \in direction_to_function(dir[1], src) :
            dst \in direction_to_function(dir[2], first_step)
    BY DEF knight_squares
  <2>1. PICK first_step \in direction_to_function(dir[1], src) :
          dst \in direction_to_function(dir[2], first_step)
    BY <2>0
  <2>2. dir[1] \in all_directions /\ dir[2] \in all_directions
    BY DEF knight_move_directions, all_directions, rook_move_directions, bishop_move_directions
  <2>3. first_step \in Square
    BY <1>2, <2>2, DirectionType DEF Bitboard
  <2> QED BY <2>1, <2>2, <2>3, DirectionType DEF Bitboard
<1>4. "knight" \in Piece \ {"pawn"}
  BY DEF Piece
<1> QED BY <1>1, <1>3, <1>4, SimpleOrCapture DEF simple_or_capture, Move

-----------------------------------------------------------------------------
(* Pawns. *)

\* The five kinds of pawn moves.
PawnStep(b, side, m) ==
  /\ m.move_type_ = "simple"
  /\ m.dst_square_ = m.src_square_ + 8 * up(side)
  /\ m.dst_square_ \notin all_pieces(b)
  /\ rank_idx(m.dst_square_) \in 1..6
PawnJump(b, side, m) ==
  /\ m.move_type_ = "two_step_pawn"
  /\ m.src_square_ \in two_step_mask(side)
  /\ m.dst_square_ = m.src_square_ + 16 * up(side)
  /\ m.src_square_ + 8 * up(side) \notin all_pieces(b)
  /\ m.dst_square_ \notin all_pieces(b)
PawnCapture(b, side, m) ==
  m.move_type_ = "capture" /\ m.dst_square_ \in enemies(b, side)
                           /\ rank_idx(m.dst_square_) \in 1..6
PawnEnPassant(b, side, m) ==
  m.move_type_ = "en_passant" /\ m.dst_square_ \in b.en_passant_square_
PawnPromotion(b, side, m) ==
  /\ m.move_type_ \in promotion_move_types
  /\ m.dst_square_ \notin all_pieces(b) \/ m.dst_square_ \in enemies(b, side)

PawnMove(b, side, m) ==
  /\ m \in MoveSet
  /\ m.piece_moving_ = "pawn"
  /\ m.src_square_ \in pawns(b, side)
  /\ \/ PawnStep(b, side, m)
     \/ PawnJump(b, side, m)
     \/ PawnCapture(b, side, m)
     \/ PawnEnPassant(b, side, m)
     \/ PawnPromotion(b, side, m)

\* Pawns off the back ranks push only moves of these kinds, none of them with
\* an empty destination.
LEMMA PawnMoves ==
  ASSUME NEW b \in BoardType, PawnsOffBackRanks(b), NEW side \in Color,
         NEW m \in append_pseudolegal_pawn_moves(b, side)
  PROVE  PawnMove(b, side, m)
<1>1. \A p \in pawns(b, side) : p \in Square /\ rank_idx(p) \in 1..6
  BY DEF BoardType, BitboardArray, Bitboard, pieces, pawns, Piece, PawnsOffBackRanks
<1>2. \A p \in pawns(b, side) :
        /\ forward(side, p) = {p + 8 * up(side)}
        /\ p + 8 * up(side) \in Square
        /\ rank_idx(p + 8 * up(side)) = rank_idx(p) + up(side)
  BY <1>1, Forward
<1>3. \A p \in pawns(b, side) : \A d \in diagonals(side, p) :
        d \in Square /\ rank_idx(d) = rank_idx(p) + up(side)
  BY <1>1, Diagonals
<1>4. \A p \in pawns(b, side) \ promotion_mask(side) : rank_idx(p) + up(side) \in 1..6
  BY <1>1 DEF promotion_mask, seventh_rank_mask, second_rank_mask, rank_mask, up, Color
<1>5. "pawn" \in Piece
  BY DEF Piece
<1>6. CASE m \in append_pseudolegal_simple_pawn_moves(b, side)
  <2>1. PICK p \in pawns(b, side) \ promotion_mask(side) :
          \E dst \in forward(side, p) \ all_pieces(b) : m = Move(p, dst, "pawn", "simple")
    BY <1>6 DEF append_pseudolegal_simple_pawn_moves
  <2>2. PICK dst \in forward(side, p) \ all_pieces(b) : m = Move(p, dst, "pawn", "simple")
    BY <2>1
  <2>3. p \in Square /\ dst \in Square /\ rank_idx(dst) \in 1..6 /\ dst = p + 8 * up(side)
    BY <1>1, <1>2, <1>4
  <2> QED BY <1>5, <2>2, <2>3 DEF PawnMove, PawnStep, Move, MoveSet, MoveType
<1>7. CASE m \in append_pseudolegal_two_step_pawn_moves(b, side)
  <2>1. PICK p \in pawns(b, side) \cap two_step_mask(side) :
          \E dst \in (UNION { forward(side, mid) : mid \in forward(side, p) \ all_pieces(b) })
                       \ all_pieces(b) : m = Move(p, dst, "pawn", "two_step_pawn")
    BY <1>7 DEF append_pseudolegal_two_step_pawn_moves
  <2>2. PICK dst \in (UNION { forward(side, mid) : mid \in forward(side, p) \ all_pieces(b) })
                       \ all_pieces(b) : m = Move(p, dst, "pawn", "two_step_pawn")
    BY <2>1
  <2> DEFINE mid == p + 8 * up(side)
  <2>3. mid \notin all_pieces(b) /\ dst \in forward(side, mid)
    BY <1>2
  <2>4. rank_idx(mid) \in 1..6
    BY <1>1, <1>2 DEF two_step_mask, seventh_rank_mask, second_rank_mask, rank_mask, up, Color
  <2>5. dst = mid + 8 * up(side) /\ dst \in Square
    BY <1>2, <2>3, <2>4, Forward
  <2>6. dst = p + 16 * up(side)
    BY <1>1, <2>5 DEF up, Square, board_size
  <2> QED BY <1>1, <1>5, <2>2, <2>3, <2>5, <2>6 DEF PawnMove, PawnJump, Move, MoveSet, MoveType
<1>8. CASE m \in append_pseudolegal_pawn_captures(b, side)
  <2>1. PICK p \in pawns(b, side) \ promotion_mask(side) :
          \E dst \in diagonals(side, p) \cap enemies(b, side) : m = Move(p, dst, "pawn", "capture")
    BY <1>8 DEF append_pseudolegal_pawn_captures
  <2>2. PICK dst \in diagonals(side, p) \cap enemies(b, side) : m = Move(p, dst, "pawn", "capture")
    BY <2>1
  <2>3. p \in Square /\ dst \in Square /\ rank_idx(dst) \in 1..6
    BY <1>1, <1>3, <1>4
  <2> QED BY <1>5, <2>2, <2>3 DEF PawnMove, PawnCapture, Move, MoveSet, MoveType
<1>9. CASE m \in append_pseudolegal_en_passant_moves(b, side)
  <2>1. PICK ep \in b.en_passant_square_ :
          \E p \in diagonals(flip_color(side), ep) \cap pawns(b, side) : m = Move(p, ep, "pawn", "en_passant")
    BY <1>9 DEF append_pseudolegal_en_passant_moves
  <2>2. PICK p \in diagonals(flip_color(side), ep) \cap pawns(b, side) : m = Move(p, ep, "pawn", "en_passant")
    BY <2>1
  <2>3. p \in Square /\ ep \in Square
    BY <1>1 DEF BoardType, Bitboard
  <2> QED BY <1>5, <2>2, <2>3 DEF PawnMove, PawnEnPassant, Move, MoveSet, MoveType
<1>10. CASE m \in append_pseudolegal_promotions(b, side)
  <2>1. PICK p \in pawns(b, side) \cap promotion_mask(side) :
          \E dst \in (forward(side, p) \ all_pieces(b)) \cup (diagonals(side, p) \cap enemies(b, side)),
             type \in promotion_move_types : m = Move(p, dst, "pawn", type)
    BY <1>10 DEF append_pseudolegal_promotions
  <2>2. PICK dst \in (forward(side, p) \ all_pieces(b)) \cup (diagonals(side, p) \cap enemies(b, side)),
             type \in promotion_move_types : m = Move(p, dst, "pawn", type)
    BY <2>1
  <2>3. p \in Square /\ dst \in Square
    BY <1>1, <1>2, <1>3
  <2> QED BY <1>5, <2>2, <2>3 DEF PawnMove, PawnPromotion, Move, MoveSet, MoveType
<1> QED BY <1>6, <1>7, <1>8, <1>9, <1>10 DEF append_pseudolegal_pawn_moves

\* pseudolegal_moves: officers' and kings' moves and pawns' moves.
LEMMA PseudolegalMoves ==
  ASSUME NEW b \in BoardType, PawnsOffBackRanks(b), NEW side \in Color,
         NEW m \in pseudolegal_moves(b, side)
  PROVE  OfficerMove(b, side, m) \/ PawnMove(b, side, m)
<1>1. {"bishop", "rook", "queen"} \subseteq Piece \ {"pawn"}
  BY DEF Piece
<1>2. {bishop_move_directions, rook_move_directions, all_directions} \subseteq SUBSET all_directions
  BY DEF all_directions
<1>3. m \in append_pseudolegal_bishop_moves(b, side) => OfficerMove(b, side, m)
  BY <1>1, <1>2, SlidingMoves DEF append_pseudolegal_bishop_moves
<1>4. m \in append_pseudolegal_rook_moves(b, side) => OfficerMove(b, side, m)
  BY <1>1, <1>2, SlidingMoves DEF append_pseudolegal_rook_moves
<1>5. m \in append_pseudolegal_queen_moves(b, side) => OfficerMove(b, side, m)
  BY <1>1, <1>2, SlidingMoves DEF append_pseudolegal_queen_moves
<1> QED BY <1>3, <1>4, <1>5, PawnMoves, KingMoves, KnightMoves DEF pseudolegal_moves

-----------------------------------------------------------------------------
(* Pseudolegal moves.  They lead to a board that is well formed but for the *)
(* king of the side that has moved, which may be left in check: that is     *)
(* what is_pseudolegal_move_legal then looks at.                            *)

\* WellFormed without the condition on the king of the side that has moved: a
\* pseudolegal move keeps this much, and legality is decided on the result.
Sound(b) ==
  /\ b \in BoardType
  /\ PiecesDisjoint(b)
  /\ OneKingEach(b)
  /\ PawnsOffBackRanks(b)
  /\ CastlingRightsSound(b)
  /\ EnPassantSound(b)

\* WellFormed, split.
LEMMA WellFormedParts ==
  ASSUME NEW b
  PROVE  WellFormed(b) <=> Sound(b) /\ KingNotLeftInCheck(b)
BY DEF WellFormed, Sound

\* No square holds a man of each side.
LEMMA SidesDisjoint ==
  ASSUME NEW b \in BoardType, PiecesDisjoint(b), NEW side \in Color,
         NEW sq \in friends(b, side)
  PROVE  sq \notin enemies(b, side)
<1> SUFFICES ASSUME sq \in friends(b, flip_color(side)) PROVE FALSE
  BY DEF enemies
<1>1. PICK p \in Piece : sq \in b.bb[<<side, p>>]
  BY Friends
<1>2. PICK q \in Piece : sq \in b.bb[<<flip_color(side), q>>]
  BY Friends
<1>3. <<side, p>> \in Color \X Piece /\ <<flip_color(side), q>> \in Color \X Piece
  BY FlipColor
<1>4. <<side, p>> = <<flip_color(side), q>>
  BY <1>1, <1>2, <1>3 DEF PiecesDisjoint, Disjoint
<1> QED BY <1>4, FlipColor

\* The e.p. square: empty, and beyond it the pawn that has jumped over it.
LEMMA EnPassantVictim ==
  ASSUME NEW b \in BoardType, EnPassantSound(b), NEW sq \in b.en_passant_square_
  PROVE  LET jumper == flip_color(b.side_to_move)
             victim == sq + 8 * up(jumper)
         IN  /\ b.en_passant_square_ = {sq}
             /\ sq \in Square
             /\ rank_idx(sq) = IF jumper = "white" THEN 2 ELSE 5
             /\ sq \notin all_pieces(b)
             /\ victim \in Square
             /\ enemy_pawn_square(sq) = {victim}
             /\ forward(jumper, sq) = {victim}
             /\ victim \in pawns(b, jumper)
<1> DEFINE jumper == flip_color(b.side_to_move)
           victim == sq + 8 * up(jumper)
<1>1. jumper \in Color
  BY FlipColor DEF BoardType
<1>2. /\ b.en_passant_square_ = {sq}
      /\ sq \in rank_mask(IF jumper = "white" THEN 2 ELSE 5)
      /\ sq \notin all_pieces(b)
      /\ forward(jumper, sq) \subseteq pawns(b, jumper)
  BY DEF EnPassantSound
<1>3. sq \in Square /\ rank_idx(sq) = (IF jumper = "white" THEN 2 ELSE 5)
  BY <1>2 DEF rank_mask
<1> HIDE DEF jumper
<1>4. forward(jumper, sq) = {victim} /\ victim \in Square
  BY <1>1, <1>3, Forward
<1>5. enemy_pawn_square(sq) = forward(jumper, sq)
  BY <1>1, <1>3 DEF enemy_pawn_square, forward, third_rank_mask, rank_mask, Color
<1> QED BY <1>2, <1>3, <1>4, <1>5 DEF jumper

\* Every pseudolegal move of the side to move is one that do_move can perform.
LEMMA PseudolegalMovable ==
  ASSUME NEW b \in BoardType, PiecesDisjoint(b), PawnsOffBackRanks(b), EnPassantSound(b),
         NEW m \in pseudolegal_moves(b, b.side_to_move)
  PROVE  Movable(b, m)
<1> DEFINE side == b.side_to_move
           dst  == m.dst_square_
<1>1. side \in Color
  BY DEF BoardType
<1>2. \A sq : sq \in friends(b, side) => sq \notin enemies(b, side)
  BY <1>1, SidesDisjoint
<1>3. \A sq : sq \in all_pieces(b) <=> sq \in friends(b, side) \/ sq \in enemies(b, side)
  BY <1>1 DEF all_pieces, enemies, flip_color, Color
<1>4. CASE OfficerMove(b, side, m)
  BY <1>3, <1>4 DEF OfficerMove, Movable, castle_types
<1>5. CASE PawnMove(b, side, m)
  <2>1. m \in MoveSet /\ m.src_square_ \in pieces(b, side, m.piece_moving_)
    BY <1>5 DEF PawnMove, pawns
  <2>2. CASE PawnStep(b, side, m) \/ PawnJump(b, side, m)
    BY <1>3, <2>1, <2>2 DEF PawnStep, PawnJump, Movable, castle_types
  <2>3. CASE PawnCapture(b, side, m)
    BY <1>2, <2>1, <2>3 DEF PawnCapture, Movable, castle_types
  <2>4. CASE PawnEnPassant(b, side, m)
    <3>1. dst \notin all_pieces(b) /\ m.move_type_ = "en_passant"
      BY <2>4, EnPassantVictim DEF PawnEnPassant
    <3>2. PICK v \in Square : enemy_pawn_square(dst) = {v} /\ v \in pawns(b, flip_color(side))
      BY <2>4, EnPassantVictim DEF PawnEnPassant
    <3>3. v \in enemies(b, side)
      BY <3>2, Friends DEF enemies, pawns, pieces, Piece
    <3>4. v \notin friends(b, side)
      BY <1>2, <3>3
    <3> QED BY <1>3, <2>1, <3>1, <3>2, <3>4 DEF Movable, castle_types
  <2>5. CASE PawnPromotion(b, side, m)
    <3>1. dst \notin friends(b, side)
      BY <1>2, <1>3, <2>5 DEF PawnPromotion
    <3> QED BY <2>1, <2>5, <3>1 DEF PawnPromotion, Movable, promotion_move_types, castle_types
  <2> QED BY <1>5, <2>2, <2>3, <2>4, <2>5 DEF PawnMove
<1> QED BY <1>1, <1>4, <1>5, PseudolegalMoves

\* The king of the side that has moved is on no destination.
LEMMA KingNotTaken ==
  ASSUME NEW b \in BoardType, KingNotLeftInCheck(b),
         NEW m \in pseudolegal_moves(b, b.side_to_move)
  PROVE  m.dst_square_ \notin pieces(b, flip_color(b.side_to_move), "king")
<1>1. m.dst_square_ \in attack_squares(b, b.side_to_move)
  BY DEF attack_squares
<1>2. flip_color(flip_color(b.side_to_move)) = b.side_to_move
  BY FlipColor DEF BoardType
<1> QED BY <1>1, <1>2 DEF KingNotLeftInCheck, is_king_attacked

\* What the proofs below use of a pseudolegal move.
MoveFacts(b, m) ==
  LET side  == b.side_to_move
      enemy == flip_color(side)
  IN  /\ Movable(b, m)
      /\ Placed(m) \in Piece
      /\ Placed(m) = "king" <=> m.piece_moving_ = "king"
      /\ Placed(m) = "pawn" => rank_idx(m.dst_square_) \in 1..6
      /\ Taken(m) \subseteq pawns(b, enemy)
      /\ m.move_type_ \in {"two_step_pawn", "en_passant"}
           => m.piece_moving_ = "pawn" /\ rank_idx(m.dst_square_) \in 1..6
      /\ m.move_type_ = "two_step_pawn" => PawnJump(b, side, m)
      /\ m.dst_square_ \notin pieces(b, enemy, "king")

\* They hold of every pseudolegal move on a well-formed board.
LEMMA PseudolegalFacts ==
  ASSUME NEW b, WellFormed(b), NEW m \in pseudolegal_moves(b, b.side_to_move)
  PROVE  MoveFacts(b, m)
<1> DEFINE side  == b.side_to_move
           enemy == flip_color(side)
           dst   == m.dst_square_
<1>1. /\ b \in BoardType /\ PiecesDisjoint(b) /\ PawnsOffBackRanks(b)
      /\ EnPassantSound(b) /\ KingNotLeftInCheck(b)
  BY DEF WellFormed
<1>2. side \in Color
  BY <1>1 DEF BoardType
<1>3. Movable(b, m) /\ m \in MoveSet
  BY <1>1, PseudolegalMovable DEF Movable
<1>4. dst \notin pieces(b, enemy, "king")
  BY <1>1, KingNotTaken
<1>5. CASE OfficerMove(b, side, m)
  <2>1. m.move_type_ \in {"simple", "capture"} /\ m.piece_moving_ # "pawn"
    BY <1>5 DEF OfficerMove
  <2>2. Placed(m) = m.piece_moving_ /\ Taken(m) = {}
    BY <2>1 DEF Placed, Taken, promotion_move_types
  <2>3. m.piece_moving_ \in Piece
    BY <1>3 DEF MoveSet
  <2> QED BY <1>3, <1>4, <2>1, <2>2, <2>3 DEF MoveFacts
<1>6. CASE PawnMove(b, side, m)
  <2>1. m.piece_moving_ = "pawn" /\ "pawn" \in Piece /\ m.src_square_ \in pawns(b, side)
    BY <1>6 DEF PawnMove, Piece
  <2>2. CASE PawnStep(b, side, m) \/ PawnCapture(b, side, m)
    <3>1. /\ m.move_type_ \in {"simple", "capture"}
          /\ Placed(m) = "pawn" /\ Taken(m) = {} /\ rank_idx(dst) \in 1..6
      BY <2>1, <2>2 DEF PawnStep, PawnCapture, Placed, Taken, promotion_move_types
    <3> QED BY <1>3, <1>4, <2>1, <3>1 DEF MoveFacts
  <2>3. CASE PawnJump(b, side, m)
    <3>1. m.move_type_ = "two_step_pawn" /\ Placed(m) = "pawn" /\ Taken(m) = {}
      BY <2>1, <2>3 DEF PawnJump, Placed, Taken, promotion_move_types
    <3>2. m.src_square_ \in Square
      BY <1>3 DEF MoveSet
    <3>3. rank_idx(dst) \in 1..6
      <4>1. CASE side = "white"
        <5>1. dst = m.src_square_ + 16 /\ rank_idx(m.src_square_) = 1
          BY <2>3, <3>2, <4>1 DEF PawnJump, up, two_step_mask, second_rank_mask, rank_mask,
                                   Square, board_size
        <5> QED BY <3>2, <5>1 DEF rank_idx, Square, board_size
      <4>2. CASE side = "black"
        <5>1. dst = m.src_square_ - 16 /\ rank_idx(m.src_square_) = 6
          BY <2>3, <3>2, <4>2 DEF PawnJump, up, two_step_mask, seventh_rank_mask, rank_mask,
                                   Square, board_size
        <5> QED BY <3>2, <5>1 DEF rank_idx, Square, board_size
      <4> QED BY <1>2, <4>1, <4>2 DEF Color
    <3> QED BY <1>3, <1>4, <2>1, <2>3, <3>1, <3>3 DEF MoveFacts
  <2>4. CASE PawnEnPassant(b, side, m)
    <3>1. m.move_type_ = "en_passant" /\ Placed(m) = "pawn" /\ Taken(m) = enemy_pawn_square(dst)
      BY <2>1, <2>4 DEF PawnEnPassant, Placed, Taken, promotion_move_types
    <3>2. /\ rank_idx(dst) \in {2, 5}
          /\ enemy_pawn_square(dst) \subseteq pawns(b, enemy)
      BY <1>1, <2>4, EnPassantVictim DEF PawnEnPassant
    <3> QED BY <1>3, <1>4, <2>1, <3>1, <3>2 DEF MoveFacts
  <2>5. CASE PawnPromotion(b, side, m)
    <3>1. m.move_type_ \in promotion_move_types /\ Placed(m) = promoted_piece(m.move_type_)
      BY <2>5 DEF PawnPromotion, Placed
    <3>2. m.move_type_ \notin {"two_step_pawn", "en_passant"} /\ Taken(m) = {}
      BY <3>1 DEF promotion_move_types, Taken
    <3>3. Placed(m) \in Piece \ {"pawn", "king"}
      BY <3>1, PromotedPiece
    <3> QED BY <1>3, <1>4, <2>1, <3>2, <3>3 DEF MoveFacts
  <2> QED BY <1>6, <2>2, <2>3, <2>4, <2>5 DEF PawnMove
<1> QED BY <1>1, <1>2, <1>5, <1>6, PseudolegalMoves

-----------------------------------------------------------------------------
(* A pseudolegal move keeps the board sound. *)

\* The Bitboards, the type and the other fields after it.
LEMMA AfterMove ==
  ASSUME NEW b \in BoardType, PiecesDisjoint(b), NEW m, MoveFacts(b, m)
  PROVE  LET b2 == do_move(b, m)
         IN  /\ b2 \in BoardType
             /\ PiecesDisjoint(b2)
             /\ BitboardsAfter(b, m, b2.bb)
             /\ b2.side_to_move = flip_color(b.side_to_move)
             /\ b2.en_passant_square_ = NextEnPassant(m)
             /\ b2.castling = NextCastling(b, m)
<1>1. Movable(b, m) /\ m \in MoveSet
  BY DEF MoveFacts, Movable
<1>2. /\ MovedBitboards(b, m) \in BitboardArray
      /\ Disjoint(MovedBitboards(b, m))
      /\ BitboardsAfter(b, m, MovedBitboards(b, m))
  BY <1>1, MoveEffect DEF PiecesDisjoint
<1>3. do_move(b, m) \in BoardType
  BY <1>1, <1>2, DoMoveType
<1>4. Turned(b, do_move(b, m), MovedBitboards(b, m), NextEnPassant(m), NextCastling(b, m))
  BY <1>1, DoMoveBoard
<1> QED BY <1>2, <1>3, <1>4 DEF Turned, PiecesDisjoint

\* Each side keeps its one king.
LEMMA KingsAfter ==
  ASSUME NEW b \in BoardType, PiecesDisjoint(b), OneKingEach(b), NEW m, MoveFacts(b, m)
  PROVE  OneKingEach(do_move(b, m))
<1> DEFINE side  == b.side_to_move
           enemy == flip_color(side)
           src   == m.src_square_
           dst   == m.dst_square_
           b2    == do_move(b, m)
           mine  == <<side, "king">>
           yours == <<enemy, "king">>
<1>1. /\ side \in Color /\ enemy \in Color /\ side # enemy
      /\ \A c \in Color : c = side \/ c = enemy
  BY FlipColor DEF BoardType
<1>2. "king" \in Piece /\ "pawn" \in Piece /\ m.piece_moving_ \in Piece /\ Placed(m) \in Piece
  BY DEF Piece, MoveFacts, Movable, MoveSet
<1>3. BitboardsAfter(b, m, b2.bb)
  BY AfterMove
<1>4. src \in b.bb[<<side, m.piece_moving_>>]
  BY DEF MoveFacts, Movable, pieces
<1>5. \A v \in Taken(m) : v \in b.bb[<<enemy, "pawn">>]
  BY DEF MoveFacts, pawns, pieces
<1>6. dst \notin b.bb[mine] /\ dst \notin b.bb[yours]
  BY <1>2, Friends DEF MoveFacts, Movable, pieces
<1>7. PICK k \in Square, l \in Square : b.bb[mine] = {k} /\ b.bb[yours] = {l}
  BY <1>1 DEF OneKingEach, is_square, pieces
<1>8. \A x, y \in Color \X Piece : \A sq : sq \in b.bb[x] /\ sq \in b.bb[y] => x = y
  BY DEF PiecesDisjoint, Disjoint
<1>9. k \notin Taken(m) /\ l \notin Taken(m)
  BY <1>1, <1>2, <1>5, <1>7, <1>8
<1>10. l # src
  BY <1>1, <1>2, <1>4, <1>7, <1>8
<1>11. b2.bb[yours] = {l}
  <2>1. yours \in Color \X Piece /\ yours # <<side, Placed(m)>>
    BY <1>1, <1>2
  <2>2. b2.bb[yours] = b.bb[yours] \ ({src, dst} \cup Taken(m))
    BY <1>3, <2>1 DEF BitboardsAfter
  <2> QED BY <1>6, <1>7, <1>9, <1>10, <2>2
<1>12. is_square(b2.bb[mine])
  <2>1. mine \in Color \X Piece
    BY <1>1, <1>2
  <2>2. CASE m.piece_moving_ = "king"
    <3>1. Placed(m) = "king"
      BY <2>2 DEF MoveFacts
    <3>2. src = k
      BY <1>4, <1>7, <2>2
    <3>3. b2.bb[mine] = (b.bb[mine] \ ({src, dst} \cup Taken(m))) \cup {dst}
      BY <1>3, <2>1, <3>1 DEF BitboardsAfter
    <3>4. b2.bb[mine] = {dst}
      BY <1>7, <3>2, <3>3
    <3> QED BY <3>4 DEF is_square, MoveFacts, Movable, MoveSet
  <2>3. CASE m.piece_moving_ # "king"
    <3>1. Placed(m) # "king"
      BY <2>3 DEF MoveFacts
    <3>2. src # k
      BY <1>1, <1>2, <1>4, <1>7, <1>8, <2>3
    <3>3. b2.bb[mine] = b.bb[mine] \ ({src, dst} \cup Taken(m))
      BY <1>3, <2>1, <3>1 DEF BitboardsAfter
    <3>4. b2.bb[mine] = {k}
      BY <1>6, <1>7, <1>9, <3>2, <3>3
    <3> QED BY <3>4 DEF is_square
  <2> QED BY <2>2, <2>3
<1> QED BY <1>1, <1>11, <1>12 DEF OneKingEach, is_square, pieces

\* No pawn reaches a back rank.
LEMMA PawnsAfter ==
  ASSUME NEW b \in BoardType, PiecesDisjoint(b), PawnsOffBackRanks(b), NEW m, MoveFacts(b, m)
  PROVE  PawnsOffBackRanks(do_move(b, m))
<1> DEFINE b2 == do_move(b, m)
<1> SUFFICES ASSUME NEW c \in Color, NEW sq \in b2.bb[<<c, "pawn">>]
             PROVE  rank_idx(sq) \in 1..6
  BY DEF PawnsOffBackRanks, pawns, pieces
<1>1. BitboardsAfter(b, m, b2.bb) /\ <<c, "pawn">> \in Color \X Piece
  BY AfterMove DEF Piece
<1>2. sq \in b.bb[<<c, "pawn">>] \/ (Placed(m) = "pawn" /\ sq = m.dst_square_)
  BY <1>1 DEF BitboardsAfter
<1> QED BY <1>2 DEF PawnsOffBackRanks, pawns, pieces, MoveFacts

\* A right that survives adjust_castling_rights still has its king and rook at
\* home.  Two-step and e.p. moves keep all rights: they start from a pawn and
\* end between the back ranks.
LEMMA RightsAfter ==
  ASSUME NEW b \in BoardType, PiecesDisjoint(b), CastlingRightsSound(b), NEW m, MoveFacts(b, m)
  PROVE  CastlingRightsSound(do_move(b, m))
<1> DEFINE side  == b.side_to_move
           enemy == flip_color(side)
           src   == m.src_square_
           dst   == m.dst_square_
           b2    == do_move(b, m)
<1> SUFFICES ASSUME NEW r \in b2.castling
             PROVE  /\ king_home(r) \in b2.bb[<<right_side(r), "king">>]
                    /\ rook_home(r) \in b2.bb[<<right_side(r), "rook">>]
  BY DEF CastlingRightsSound, pieces
<1> DEFINE c    == right_side(r)
           king == <<c, "king">>
           rook == <<c, "rook">>
           mover == <<side, m.piece_moving_>>
<1>1. BitboardsAfter(b, m, b2.bb) /\ r \in NextCastling(b, m)
  BY AfterMove
<1>2. r \in b.castling /\ r \in Right
  BY <1>1 DEF NextCastling, adjust_castling_rights, BoardType
<1>3. king_home(r) \in b.bb[king] /\ rook_home(r) \in b.bb[rook]
  BY <1>2 DEF CastlingRightsSound, pieces
<1>4. /\ side \in Color /\ enemy \in Color /\ c \in Color
      /\ \A d \in Color : d = side \/ d = enemy
  BY FlipColor DEF BoardType, right_side, Color
<1>5. /\ king \in Color \X Piece /\ rook \in Color \X Piece /\ mover \in Color \X Piece
      /\ <<enemy, "pawn">> \in Color \X Piece
      /\ "king" \in Piece /\ "rook" \in Piece
  BY <1>4 DEF Piece, MoveFacts, Movable, MoveSet
<1>6. src \in b.bb[mover]
  BY DEF MoveFacts, Movable, pieces
<1>7. \A x, y \in Color \X Piece : \A sq : sq \in b.bb[x] /\ sq \in b.bb[y] => x = y
  BY DEF PiecesDisjoint, Disjoint
<1>8. \A v \in Taken(m) : v # king_home(r) /\ v # rook_home(r)
  <2>1. \A v \in Taken(m) : v \in b.bb[<<enemy, "pawn">>]
    BY DEF MoveFacts, pawns, pieces
  <2>2. king # <<enemy, "pawn">> /\ rook # <<enemy, "pawn">>
    OBVIOUS
  <2> QED BY <1>3, <1>5, <1>7, <2>1, <2>2
<1>9. m.piece_moving_ # "pawn" => r \in adjust_castling_rights(b.castling, m)
  BY <1>1 DEF NextCastling, MoveFacts
<1>10. src # king_home(r)
  <2>1. src = king_home(r) => mover = king
    BY <1>3, <1>5, <1>6, <1>7
  <2>2. src = king_home(r) => m.piece_moving_ = "king"
    BY <2>1
  <2> QED BY <1>9, <2>2 DEF adjust_castling_rights
<1>11. src # rook_home(r)
  <2>1. src = rook_home(r) => mover = rook
    BY <1>3, <1>5, <1>6, <1>7
  <2>2. src = rook_home(r) => m.piece_moving_ = "rook"
    BY <2>1
  <2> QED BY <1>9, <2>2 DEF adjust_castling_rights
<1>12. dst # king_home(r)
  <2>1. c = side => dst # king_home(r)
    BY <1>3, <1>5, Friends DEF MoveFacts, Movable
  <2>2. c = enemy => dst # king_home(r)
    BY <1>3 DEF MoveFacts, pieces
  <2> QED BY <1>4, <2>1, <2>2
<1>13. dst # rook_home(r)
  <2>1. CASE m.move_type_ \in {"two_step_pawn", "en_passant"}
    <3>1. rank_idx(dst) \in 1..6
      BY <2>1 DEF MoveFacts
    <3>2. rank_idx(rook_home(r)) \in {0, 7}
      BY DEF rook_home, home_square, coordinates_to_square, board_size, rank_idx
    <3> QED BY <3>1, <3>2
  <2>2. CASE m.move_type_ \notin {"two_step_pawn", "en_passant"}
    BY <1>1, <2>2 DEF NextCastling, adjust_castling_rights
  <2> QED BY <2>1, <2>2
<1>14. \A x \in Color \X Piece : \A sq \in b.bb[x] :
         sq # src /\ sq # dst /\ sq \notin Taken(m) => sq \in b2.bb[x]
  BY <1>1 DEF BitboardsAfter
<1> HIDE DEF king, rook, b2
<1>15. king_home(r) \in b2.bb[king] /\ rook_home(r) \in b2.bb[rook]
  BY <1>3, <1>5, <1>8, <1>10, <1>11, <1>12, <1>13, <1>14
<1> QED BY <1>15 DEF king, rook, b2

\* The e.p. square after a move is unset, or it is the empty square the pawn
\* has just jumped over.
LEMMA EnPassantAfter ==
  ASSUME NEW b \in BoardType, PiecesDisjoint(b), NEW m, MoveFacts(b, m)
  PROVE  EnPassantSound(do_move(b, m))
<1> DEFINE side == b.side_to_move
           src  == m.src_square_
           dst  == m.dst_square_
           b2   == do_move(b, m)
           mid  == src + 8 * up(side)
<1>1. /\ BitboardsAfter(b, m, b2.bb)
      /\ b2.side_to_move = flip_color(side)
      /\ b2.en_passant_square_ = NextEnPassant(m)
  BY AfterMove
<1>2. side \in Color /\ flip_color(flip_color(side)) = side
  BY FlipColor DEF BoardType
<1>3. CASE m.move_type_ # "two_step_pawn"
  BY <1>1, <1>3 DEF NextEnPassant, EnPassantSound
<1>4. CASE m.move_type_ = "two_step_pawn"
  <2>1. /\ src \in Square /\ dst \in Square
        /\ m.piece_moving_ = "pawn"
        /\ PawnJump(b, side, m)
    BY <1>4 DEF MoveFacts, Movable, MoveSet
  <2>2. rank_idx(src) = IF side = "white" THEN 1 ELSE 6
    BY <2>1 DEF PawnJump, two_step_mask, second_rank_mask, seventh_rank_mask, rank_mask
  <2>3. /\ forward(side, src) = {mid} /\ mid \in Square
        /\ rank_idx(mid) = rank_idx(src) + up(side)
    BY <1>2, <2>1, <2>2, Forward
  <2>4. rank_idx(mid) = IF side = "white" THEN 2 ELSE 5
    BY <2>2, <2>3 DEF up
  <2>5. NextEnPassant(m) = {mid}
    <3>1. src \in second_rank_mask <=> side = "white"
      BY <2>1, <2>2 DEF second_rank_mask, rank_mask
    <3> QED BY <1>4, <2>3, <3>1 DEF NextEnPassant, forward
  <2>6. forward(side, mid) = {mid + 8 * up(side)}
    BY <1>2, <2>3, <2>4, Forward
  <2>7. mid + 8 * up(side) = dst /\ mid # dst
    BY <2>1, <2>3 DEF PawnJump, up, Square, board_size
  <2>8. mid \notin all_pieces(b2)
    <3>1. ~occupied(b.bb, mid)
      BY <2>1, AllPieces DEF PawnJump
    <3>2. ~occupied(b2.bb, mid)
      BY <1>1, <2>7, <3>1 DEF occupied, BitboardsAfter
    <3> QED BY <3>2, AllPieces
  <2>9. dst \in pawns(b2, side)
    <3>1. Placed(m) = "pawn"
      BY <1>4, <2>1 DEF Placed, promotion_move_types
    <3>2. <<side, "pawn">> \in Color \X Piece
      BY <1>2 DEF Piece
    <3> QED BY <1>1, <3>1, <3>2 DEF BitboardsAfter, pawns, pieces
  <2>10. mid \in rank_mask(IF side = "white" THEN 2 ELSE 5)
    BY <2>3, <2>4 DEF rank_mask
  <2> QED BY <1>1, <1>2, <2>5, <2>6, <2>7, <2>8, <2>9, <2>10 DEF EnPassantSound
<1> QED BY <1>3, <1>4

\* Together: pseudolegal moves keep a well-formed board sound.
LEMMA PseudolegalKeepsSound ==
  ASSUME NEW b, WellFormed(b), NEW m \in pseudolegal_moves(b, b.side_to_move)
  PROVE  Sound(do_move(b, m))
<1>1. MoveFacts(b, m)
  BY PseudolegalFacts
<1> QED BY <1>1, AfterMove, KingsAfter, PawnsAfter, RightsAfter, EnPassantAfter DEF WellFormed, Sound

-----------------------------------------------------------------------------
(* Castling.  append_castling_moves adds its moves after legal_moves has    *)
(* filtered the others, so nothing tests the board a castling move leads    *)
(* to.  No test is needed: the board is sound and the king is not in check  *)
(* on it.                                                                   *)

\* The files of the wing: where the king arrives, where the rook does, and the
\* corner it comes from.
king_file(m)   == IF m.move_type_ = "castle_kingside" THEN 6 ELSE 2
beside_file(m) == IF m.move_type_ = "castle_kingside" THEN 5 ELSE 3
corner_file(m) == IF m.move_type_ = "castle_kingside" THEN 7 ELSE 0

\* What the proofs use of a castling move.
CastleFacts(b, m) ==
  LET side == b.side_to_move
  IN  /\ m \in MoveSet
      /\ m.move_type_ \in castle_types
      /\ m.piece_moving_ = "king"
      /\ m.src_square_ = home_square(side, 4)
      /\ m.dst_square_ = home_square(side, king_file(m))
      /\ home_square(side, 4) \in b.bb[<<side, "king">>]
      /\ home_square(side, corner_file(m)) \in b.bb[<<side, "rook">>]
      /\ ~occupied(b.bb, home_square(side, king_file(m)))
      /\ ~occupied(b.bb, home_square(side, beside_file(m)))
      /\ home_square(side, king_file(m)) \notin attack_squares(b, flip_color(side))

\* They hold of every move that append_castling_moves pushes.
LEMMA CastlingMoves ==
  ASSUME NEW b, WellFormed(b), NEW m \in append_castling_moves(b)
  PROVE  CastleFacts(b, m)
<1> DEFINE side == b.side_to_move
<1>1. side \in Color /\ CastlingRightsSound(b)
  BY DEF WellFormed, BoardType
<1>2. \A r \in b.castling : /\ king_home(r) \in b.bb[<<right_side(r), "king">>]
                            /\ rook_home(r) \in b.bb[<<right_side(r), "rook">>]
  BY <1>1 DEF CastlingRightsSound, pieces
<1>3. \A f \in 0..7 : home_square(side, f) \in Square
  BY <1>1, Home
<1>4. CASE is_castle_kingside_legal(b) /\ m = castle_kingside_move(side)
  <2>1. /\ m.move_type_ = "castle_kingside" /\ m.piece_moving_ = "king"
        /\ m.src_square_ = home_square(side, 4) /\ m.dst_square_ = home_square(side, 6)
        /\ m \in MoveSet
    BY <1>3, <1>4 DEF castle_kingside_move, Move, MoveSet, Piece, MoveType
  <2>2. kingside(side) \in b.castling
    BY <1>4 DEF is_castle_kingside_legal, has_right_to_castle
  <2>3. /\ right_side(kingside(side)) = side
        /\ king_home(kingside(side)) = home_square(side, 4)
        /\ rook_home(kingside(side)) = home_square(side, 7)
    BY <1>1 DEF kingside, right_side, king_home, rook_home, Color
  <2>4. /\ home_square(side, 6) \notin all_pieces(b) /\ home_square(side, 5) \notin all_pieces(b)
        /\ home_square(side, 6) \notin attack_squares(b, flip_color(side))
    BY <1>4 DEF is_castle_kingside_legal
  <2>5. home_square(side, 4) \in b.bb[<<side, "king">>] /\ home_square(side, 7) \in b.bb[<<side, "rook">>]
    BY <1>2, <2>2, <2>3
  <2> QED BY <2>1, <2>4, <2>5, AllPieces DEF CastleFacts, castle_types, king_file, beside_file, corner_file
<1>5. CASE is_castle_queenside_legal(b) /\ m = castle_queenside_move(side)
  <2>1. /\ m.move_type_ = "castle_queenside" /\ m.piece_moving_ = "king"
        /\ m.src_square_ = home_square(side, 4) /\ m.dst_square_ = home_square(side, 2)
        /\ m \in MoveSet
    BY <1>3, <1>5 DEF castle_queenside_move, Move, MoveSet, Piece, MoveType
  <2>2. queenside(side) \in b.castling
    BY <1>5 DEF is_castle_queenside_legal, has_right_to_castle
  <2>3. /\ right_side(queenside(side)) = side
        /\ king_home(queenside(side)) = home_square(side, 4)
        /\ rook_home(queenside(side)) = home_square(side, 0)
    BY <1>1 DEF queenside, right_side, king_home, rook_home, Color
  <2>4. /\ home_square(side, 2) \notin all_pieces(b) /\ home_square(side, 3) \notin all_pieces(b)
        /\ home_square(side, 2) \notin attack_squares(b, flip_color(side))
    BY <1>5 DEF is_castle_queenside_legal
  <2>5. home_square(side, 4) \in b.bb[<<side, "king">>] /\ home_square(side, 0) \in b.bb[<<side, "rook">>]
    BY <1>2, <2>2, <2>3
  <2> QED BY <2>1, <2>4, <2>5, AllPieces DEF CastleFacts, castle_types, king_file, beside_file, corner_file
<1> QED BY <1>4, <1>5 DEF append_castling_moves

\* The Bitboards after castling: the enemy's are the same, and of the side's
\* own only the king's and the rooks' differ.
CastledBitboards(b, m, bb2) ==
  LET side == b.side_to_move
      king == home_square(side, king_file(m))
      rook == home_square(side, beside_file(m))
      left == {home_square(side, 4), home_square(side, corner_file(m))}
  IN  \A c \in Color : \A p \in Piece :
        bb2[<<c, p>>] = IF c # side \/ p \notin {"king", "rook"} THEN b.bb[<<c, p>>]
                        ELSE IF p = "king" THEN {king}
                        ELSE (b.bb[<<c, p>>] \ left) \cup {rook}

\* The board after castling.
LEMMA AfterCastling ==
  ASSUME NEW b \in BoardType, PiecesDisjoint(b), OneKingEach(b), NEW m, CastleFacts(b, m)
  PROVE  LET b2 == do_move(b, m)
         IN  /\ b2 \in BoardType
             /\ PiecesDisjoint(b2)
             /\ CastledBitboards(b, m, b2.bb)
             /\ b2.side_to_move = flip_color(b.side_to_move)
             /\ b2.en_passant_square_ = {}
             /\ b2.castling = adjust_castling_rights(b.castling, m)
<1> DEFINE side   == b.side_to_move
           src    == home_square(side, 4)
           dst    == home_square(side, king_file(m))
           corner == home_square(side, corner_file(m))
           beside == home_square(side, beside_file(m))
           bb2    == MovedBitboards(b, m)
<1>1. side \in Color /\ m \in MoveSet /\ m.move_type_ \in castle_types
  BY DEF BoardType, CastleFacts
<1>2. src \in Square /\ dst \in Square /\ corner \in Square /\ beside \in Square /\ dst # beside
  BY <1>1, Home DEF king_file, beside_file, corner_file
<1>3. /\ corner = home_square(side, IF m.move_type_ = "castle_kingside" THEN 7 ELSE 0)
      /\ beside = home_square(side, IF m.move_type_ = "castle_kingside" THEN 5 ELSE 3)
  BY DEF corner_file, beside_file
<1>4. /\ src \in b.bb[<<side, "king">>] /\ corner \in b.bb[<<side, "rook">>]
      /\ ~occupied(b.bb, dst) /\ ~occupied(b.bb, beside)
      /\ m.src_square_ = src /\ m.dst_square_ = dst
  BY DEF CastleFacts
<1> HIDE DEF src, dst, corner, beside
<1>5. /\ bb2 \in BitboardArray
      /\ Disjoint(bb2)
      /\ \A x \in Color \X Piece :
           bb2[x] = (b.bb[x] \ {src, dst, corner, beside})
                      \cup (IF x = <<side, "king">> THEN {dst} ELSE {})
                      \cup (IF x = <<side, "rook">> THEN {beside} ELSE {})
  BY <1>1, <1>2, <1>3, <1>4, CastleEffect DEF PiecesDisjoint
<1>6. /\ do_move(b, m) \in BoardType
      /\ Turned(b, do_move(b, m), bb2, NextEnPassant(m), NextCastling(b, m))
  BY <1>1, <1>5, DoMoveType, DoMoveBoard
<1>7. NextEnPassant(m) = {} /\ NextCastling(b, m) = adjust_castling_rights(b.castling, m)
  BY <1>1 DEF NextEnPassant, NextCastling, castle_types
<1>8. CastledBitboards(b, m, bb2)
  <2> SUFFICES ASSUME NEW c \in Color, NEW p \in Piece
               PROVE  bb2[<<c, p>>] = IF c # side \/ p \notin {"king", "rook"} THEN b.bb[<<c, p>>]
                        ELSE IF p = "king" THEN {dst}
                        ELSE (b.bb[<<c, p>>] \ {src, corner}) \cup {beside}
    BY DEF CastledBitboards, src, dst, corner, beside
  <2>1. <<c, p>> \in Color \X Piece /\ <<side, "king">> \in Color \X Piece /\ <<side, "rook">> \in Color \X Piece
    BY <1>1 DEF Piece
  <2>2. dst \notin b.bb[<<c, p>>] /\ beside \notin b.bb[<<c, p>>]
    BY <1>4, <2>1 DEF occupied
  <2>3. src \in b.bb[<<c, p>>] => c = side /\ p = "king"
    BY <1>4, <2>1 DEF PiecesDisjoint, Disjoint
  <2>4. corner \in b.bb[<<c, p>>] => c = side /\ p = "rook"
    BY <1>4, <2>1 DEF PiecesDisjoint, Disjoint
  <2>5. bb2[<<c, p>>] = (b.bb[<<c, p>>] \ {src, dst, corner, beside})
                      \cup (IF c = side /\ p = "king" THEN {dst} ELSE {})
                      \cup (IF c = side /\ p = "rook" THEN {beside} ELSE {})
    BY <1>5, <2>1
  <2>6. c = side /\ p = "king" => b.bb[<<c, p>>] = {src}
    BY <1>1, <1>4 DEF OneKingEach, is_square, pieces
  <2> HIDE DEF bb2
  <2> QED BY <2>2, <2>3, <2>4, <2>5, <2>6
<1> QED BY <1>5, <1>6, <1>7, <1>8 DEF Turned, PiecesDisjoint

\* Castling keeps a well-formed board sound.
LEMMA CastlingKeepsSound ==
  ASSUME NEW b, WellFormed(b), NEW m, CastleFacts(b, m)
  PROVE  Sound(do_move(b, m))
<1> DEFINE side == b.side_to_move
           b2   == do_move(b, m)
<1>1. /\ b \in BoardType /\ PiecesDisjoint(b) /\ OneKingEach(b)
      /\ PawnsOffBackRanks(b) /\ CastlingRightsSound(b)
  BY DEF WellFormed
<1>2. /\ b2 \in BoardType
      /\ PiecesDisjoint(b2)
      /\ CastledBitboards(b, m, b2.bb)
      /\ b2.en_passant_square_ = {}
      /\ b2.castling = adjust_castling_rights(b.castling, m)
  BY <1>1, AfterCastling
<1>3. side \in Color /\ home_square(side, king_file(m)) \in Square
  BY <1>1, Home DEF BoardType, king_file
<1>4. OneKingEach(b2)
  <2> SUFFICES ASSUME NEW c \in Color PROVE is_square(b2.bb[<<c, "king">>])
    BY DEF OneKingEach, pieces
  <2>1. b2.bb[<<c, "king">>] = IF c # side THEN b.bb[<<c, "king">>]
                               ELSE {home_square(side, king_file(m))}
    BY <1>2 DEF CastledBitboards, Piece
  <2>2. is_square(b.bb[<<c, "king">>])
    BY <1>1 DEF OneKingEach, pieces
  <2> QED BY <1>3, <2>1, <2>2 DEF is_square
<1>5. PawnsOffBackRanks(b2)
  BY <1>1, <1>2 DEF PawnsOffBackRanks, CastledBitboards, pawns, pieces, Piece
<1>6. CastlingRightsSound(b2)
  <2> SUFFICES ASSUME NEW r \in b2.castling
               PROVE  /\ king_home(r) \in b2.bb[<<right_side(r), "king">>]
                      /\ rook_home(r) \in b2.bb[<<right_side(r), "rook">>]
    BY DEF CastlingRightsSound, pieces
  <2>1. r \in b.castling /\ ~(m.piece_moving_ = "king" /\ m.src_square_ = king_home(r))
    BY <1>2 DEF adjust_castling_rights
  <2>2. /\ king_home(r) \in b.bb[<<right_side(r), "king">>]
        /\ rook_home(r) \in b.bb[<<right_side(r), "rook">>]
    BY <1>1, <2>1 DEF CastlingRightsSound, pieces
  <2>3. right_side(r) # side /\ right_side(r) \in Color
    BY <2>1 DEF CastleFacts, king_home, right_side, Color
  <2> QED BY <1>2, <2>2, <2>3 DEF CastledBitboards, Piece
<1>7. EnPassantSound(b2)
  BY <1>2 DEF EnPassantSound
<1> QED BY <1>2, <1>4, <1>5, <1>6, <1>7 DEF Sound

-----------------------------------------------------------------------------
(* The king is not in check after castling.  The enemy's men have not       *)
(* moved, and before the move none of them attacked the square the king     *)
(* goes to.  Two squares have become empty, the king's and the corner, so   *)
(* only a bishop, a rook or a queen could attack through one of them: along *)
(* the first rank, from beyond the corner, where there is no square, or     *)
(* from the other wing, where the castled rook is in the way.               *)

\* The square a walk reaches after n steps, and its coordinates.
LEMMA WalkSquare ==
  ASSUME NEW dir \in all_directions, NEW src \in Square, NEW n \in Nat,
         NEW side \in Color, NEW f \in 0..7,
         home_square(side, f) \in walk(dir, src, n)
  PROVE  /\ file_idx(src) + n * file_step(dir) = f
         /\ rank_idx(src) + n * rank_step(dir) = IF side = "white" THEN 0 ELSE 7
<1> DEFINE file == file_idx(src) + n * file_step(dir)
           rank == rank_idx(src) + n * rank_step(dir)
           home == IF side = "white" THEN 0 ELSE 7
<1>1. file \in 0..7 /\ rank \in 0..7 /\ home_square(side, f) = coordinates_to_square(file, rank)
  BY DEF walk
<1>2. home_square(side, f) = coordinates_to_square(f, home) /\ home \in 0..7
  BY DEF home_square
<1> HIDE DEF file, rank, home
<1>3. coordinates_to_square(file, rank) = coordinates_to_square(f, home) => file = f /\ rank = home
  BY <1>1, <1>2 DEF coordinates_to_square, board_size
<1> QED BY <1>1, <1>2, <1>3 DEF file, rank, home

\* A line to the king's new square that passes over its old one, or over the
\* corner, also passes over the castled rook.
LEMMA CastledRookShields ==
  ASSUME NEW side \in Color, NEW m, NEW dir \in all_directions, NEW src \in Square,
         NEW n \in 1..7, home_square(side, king_file(m)) \in walk(dir, src, n),
         NEW i \in 1..(n - 1),
         \/ home_square(side, 4) \in walk(dir, src, i)
         \/ home_square(side, corner_file(m)) \in walk(dir, src, i)
  PROVE  \E j \in 1..(n - 1) : home_square(side, beside_file(m)) \in walk(dir, src, j)
<1> DEFINE file == file_idx(src)
           rank == rank_idx(src)
           home == IF side = "white" THEN 0 ELSE 7
           fs   == file_step(dir)
           rs   == rank_step(dir)
           k    == king_file(m)
           c    == corner_file(m)
           d    == beside_file(m)
<1>1. /\ file \in 0..7 /\ rank \in 0..7
      /\ fs \in {-1, 0, 1} /\ rs \in {-1, 0, 1}
  BY DEF file_idx, rank_idx, file_step, rank_step, Square, board_size
<1>2. \/ k = 6 /\ d = 5 /\ c = 7
      \/ k = 2 /\ d = 3 /\ c = 0
  BY DEF king_file, corner_file, beside_file
<1>3. file + n * fs = k /\ rank + n * rs = home
  BY <1>2, WalkSquare
<1>4. /\ file + i * fs = 4 \/ file + i * fs = c
      /\ rank + i * rs = home
  BY <1>2, WalkSquare
<1>5. home \in 0..7 /\ home_square(side, d) = coordinates_to_square(d, home)
  BY DEF home_square
<1>6. \A j \in 1..7 : file + j * fs = d /\ rank + j * rs = home
                     => home_square(side, d) \in walk(dir, src, j)
  BY <1>2, <1>5 DEF walk
<1> HIDE DEF file, rank, home, fs, rs, k, c, d
<1>7. rs = 0
  BY <1>1, <1>3, <1>4, <1>5
<1>8. fs # 0
  BY <1>1, <1>2, <1>3, <1>4
<1>9. \E j \in 1..(n - 1) : file + j * fs = d
  <2>1. CASE fs = 1
    <3>1. file + n = k /\ (file + i = 4 \/ file + i = c)
      BY <1>1, <1>3, <1>4, <2>1
    <3>2. k = 6 /\ d = 5
      BY <1>1, <1>2, <3>1
    <3>3. n - 1 \in 1..(n - 1) /\ file + (n - 1) * fs = d
      BY <1>1, <2>1, <3>1, <3>2
    <3> QED BY <3>3
  <2>2. CASE fs = -1
    <3>1. file - n = k /\ (file - i = 4 \/ file - i = c)
      BY <1>1, <1>3, <1>4, <2>2
    <3>2. k = 2 /\ d = 3
      BY <1>1, <1>2, <3>1
    <3>3. n - 1 \in 1..(n - 1) /\ file + (n - 1) * fs = d
      BY <1>1, <2>2, <3>1, <3>2
    <3> QED BY <3>3
  <2> QED BY <1>1, <1>8, <2>1, <2>2
<1>10. PICK j \in 1..(n - 1) : file + j * fs = d
  BY <1>9
<1>11. rank + j * rs = home /\ j \in 1..7
  BY <1>1, <1>3, <1>7
<1> QED BY <1>6, <1>10, <1>11 DEF d

\* So a line that is open after castling was open before.
LEMMA SlideBeforeCastling ==
  ASSUME NEW b \in BoardType, OneKingEach(b), NEW m, CastleFacts(b, m),
         NEW b2, CastledBitboards(b, m, b2.bb),
         NEW src \in Square, NEW dir \in all_directions, NEW enemy \in Color,
         home_square(b.side_to_move, king_file(m)) \in slide(b2, enemy, src, dir)
  PROVE  home_square(b.side_to_move, king_file(m)) \in slide(b, enemy, src, dir)
<1> DEFINE side   == b.side_to_move
           king   == home_square(side, king_file(m))
           beside == home_square(side, beside_file(m))
           corner == home_square(side, corner_file(m))
           centre == home_square(side, 4)
<1>1. side \in Color
  BY DEF BoardType
<1>2. PICK n \in 1..7 : /\ king \in walk(dir, src, n)
                        /\ \A i \in 1..(n - 1) : walk(dir, src, i) \cap all_pieces(b2) = {}
  BY DEF slide
<1>3. ~occupied(b.bb, king)
  BY DEF CastleFacts
<1>4. occupied(b2.bb, beside)
  <2>1. beside \in b2.bb[<<side, "rook">>]
    BY <1>1 DEF CastledBitboards, Piece
  <2> QED BY <1>1, <2>1 DEF occupied, Piece
<1>5. ASSUME NEW sq, occupied(b.bb, sq), ~occupied(b2.bb, sq)
      PROVE  sq \in {centre, corner}
  <2>1. PICK cp \in Color \X Piece : sq \in b.bb[cp]
    BY <1>5 DEF occupied
  <2>2. PICK c \in Color, p \in Piece : sq \in b.bb[<<c, p>>]
    BY <2>1
  <2>3. sq \notin b2.bb[<<c, p>>]
    BY <1>5 DEF occupied
  <2>4. c = side /\ p \in {"king", "rook"}
    BY <2>2, <2>3 DEF CastledBitboards
  <2>5. CASE p = "king"
    BY <1>1, <2>2, <2>4, <2>5 DEF CastleFacts, OneKingEach, is_square, pieces
  <2>6. CASE p = "rook"
    <3>1. b2.bb[<<side, "rook">>] = (b.bb[<<side, "rook">>] \ {centre, corner}) \cup {beside}
      BY <1>1 DEF CastledBitboards, Piece
    <3> QED BY <2>2, <2>3, <2>4, <2>6, <3>1
  <2> QED BY <2>4, <2>5, <2>6
<1>6. ASSUME NEW i \in 1..(n - 1), NEW sq \in walk(dir, src, i), sq \in all_pieces(b)
      PROVE  FALSE
  <2>1. sq \in {centre, corner}
    BY <1>2, <1>5, <1>6, AllPieces
  <2>2. PICK j \in 1..(n - 1) : beside \in walk(dir, src, j)
    BY <1>1, <1>2, <1>6, <2>1, CastledRookShields
  <2> QED BY <1>2, <1>4, <2>2, AllPieces
<1>7. king \notin friends(b, enemy)
  <2>1. king \notin all_pieces(b)
    BY <1>3, AllPieces
  <2> QED BY <2>1 DEF all_pieces, Color
<1>8. \A i \in 1..(n - 1) : walk(dir, src, i) \cap all_pieces(b) = {}
  BY <1>6
<1> HIDE DEF king
<1>9. king \in slide(b, enemy, src, dir)
  BY <1>2, <1>7, <1>8 DEF slide
<1> QED BY <1>9 DEF king

\* Castling does not put the king in check.
LEMMA CastlingKeepsKingSafe ==
  ASSUME NEW b, WellFormed(b), NEW m, CastleFacts(b, m)
  PROVE  KingNotLeftInCheck(do_move(b, m))
<1> DEFINE side  == b.side_to_move
           enemy == flip_color(side)
           king  == home_square(side, king_file(m))
           b2    == do_move(b, m)
<1>1. b \in BoardType /\ PiecesDisjoint(b) /\ OneKingEach(b) /\ side \in Color
  BY DEF WellFormed, BoardType
<1>2. /\ b2 \in BoardType
      /\ CastledBitboards(b, m, b2.bb)
      /\ b2.side_to_move = enemy
      /\ b2.en_passant_square_ = {}
  BY <1>1, AfterCastling
<1>3. enemy \in Color /\ enemy # side /\ flip_color(enemy) = side
  BY <1>1, FlipColor
<1>4. \A p \in Piece : pieces(b2, enemy, p) = pieces(b, enemy, p)
  BY <1>2, <1>3 DEF CastledBitboards, pieces
<1>5. pieces(b2, side, "king") = {king}
  BY <1>1, <1>2 DEF CastledBitboards, pieces, Piece
<1>6. king \notin attack_squares(b, enemy) /\ ~occupied(b.bb, king)
  BY DEF CastleFacts
<1>7. king \notin friends(b, enemy)
  <2>1. king \notin all_pieces(b)
    BY <1>6, AllPieces
  <2> QED BY <1>3, <2>1 DEF all_pieces, Color
<1>8. king \in all_pieces(b2) /\ king \notin friends(b2, enemy)
  <2>1. king \in friends(b2, side)
    BY <1>5, Friends DEF pieces, Piece
  <2>2. friends(b2, enemy) = friends(b, enemy)
    BY <1>4 DEF friends
  <2> QED BY <1>1, <1>7, <2>1, <2>2 DEF all_pieces, Color
<1>9. SUFFICES king \notin attack_squares(b2, enemy)
  BY <1>2, <1>3, <1>5 DEF KingNotLeftInCheck, is_king_attacked
<1> HIDE DEF king, b2, enemy
<1>10. king \notin pawn_attack_squares(b2, enemy)
  <2>1. pawn_attack_squares(b2, enemy) = pawn_attack_squares(b, enemy)
    BY <1>4 DEF pawn_attack_squares, pawns, Piece
  <2> QED BY <1>6, <2>1 DEF attack_squares
<1>11. ASSUME NEW mv \in pseudolegal_moves(b2, enemy), mv.dst_square_ = king
       PROVE  FALSE
  <2>1. CASE mv \in append_pseudolegal_pawn_moves(b2, enemy)
    <3>1. \A src, dst, p, type : Move(src, dst, p, type).dst_square_ = dst
      BY DEF Move
    <3>2. mv \notin append_pseudolegal_simple_pawn_moves(b2, enemy)
      BY <1>8, <1>11, <3>1 DEF append_pseudolegal_simple_pawn_moves
    <3>3. mv \notin append_pseudolegal_two_step_pawn_moves(b2, enemy)
      BY <1>8, <1>11, <3>1 DEF append_pseudolegal_two_step_pawn_moves
    <3>4. mv \notin append_pseudolegal_pawn_captures(b2, enemy)
      BY <1>10, <1>11, <3>1 DEF append_pseudolegal_pawn_captures, pawn_attack_squares
    <3>5. mv \notin append_pseudolegal_en_passant_moves(b2, enemy)
      BY <1>2, <1>11, <3>1 DEF append_pseudolegal_en_passant_moves
    <3>6. mv \notin append_pseudolegal_promotions(b2, enemy)
      BY <1>8, <1>10, <1>11, <3>1 DEF append_pseudolegal_promotions, pawn_attack_squares
    <3> QED BY <2>1, <3>2, <3>3, <3>4, <3>5, <3>6 DEF append_pseudolegal_pawn_moves
  <2>2. ASSUME NEW mv2 \in pseudolegal_moves(b, enemy), mv2.dst_square_ = king
        PROVE  FALSE
    BY <1>6, <2>2 DEF attack_squares
  <2>3. \A src, dst, p, side2, bx : simple_or_capture(bx, side2, src, dst, p).dst_square_ = dst
    BY DEF simple_or_capture, Move
  <2>4. CASE mv \in append_pseudolegal_king_moves(b2, enemy)
    <3>1. PICK src \in pieces(b2, enemy, "king") :
            \E dst \in (UNION {direction_to_function(dir, src) : dir \in all_directions}) \ friends(b2, enemy) :
              mv = simple_or_capture(b2, enemy, src, dst, "king")
      BY <2>4 DEF append_pseudolegal_king_moves
    <3>2. king \in UNION {direction_to_function(dir, src) : dir \in all_directions}
      BY <1>11, <2>3, <3>1
    <3>3. simple_or_capture(b, enemy, src, king, "king") \in append_pseudolegal_king_moves(b, enemy)
      BY <1>4, <1>7, <3>2 DEF append_pseudolegal_king_moves, Piece
    <3> QED BY <2>2, <2>3, <3>3 DEF pseudolegal_moves
  <2>5. CASE mv \in append_pseudolegal_knight_moves(b2, enemy)
    <3>1. PICK src \in pieces(b2, enemy, "knight") :
            \E dst \in knight_squares(src) \ friends(b2, enemy) :
              mv = simple_or_capture(b2, enemy, src, dst, "knight")
      BY <2>5 DEF append_pseudolegal_knight_moves
    <3>2. king \in knight_squares(src)
      BY <1>11, <2>3, <3>1
    <3>3. simple_or_capture(b, enemy, src, king, "knight") \in append_pseudolegal_knight_moves(b, enemy)
      BY <1>4, <1>7, <3>2 DEF append_pseudolegal_knight_moves, Piece
    <3> QED BY <2>2, <2>3, <3>3 DEF pseudolegal_moves
  <2>6. ASSUME NEW directions \in SUBSET all_directions, NEW p \in Piece,
               mv \in append_pseudolegal_sliding_moves(b2, enemy, directions, p),
               append_pseudolegal_sliding_moves(b, enemy, directions, p) \subseteq pseudolegal_moves(b, enemy)
        PROVE  FALSE
    <3>1. PICK src \in pieces(b2, enemy, p) :
            \E dst \in UNION {slide(b2, enemy, src, dir) : dir \in directions} :
              mv = simple_or_capture(b2, enemy, src, dst, p)
      BY <2>6 DEF append_pseudolegal_sliding_moves
    <3>2. king \in UNION {slide(b2, enemy, src, dir) : dir \in directions}
      BY <1>11, <2>3, <3>1
    <3>3. PICK dir \in directions : king \in slide(b2, enemy, src, dir)
      BY <3>2
    <3>4. src \in Square /\ src \in pieces(b, enemy, p)
      BY <1>1, <1>3, <1>4, <3>1 DEF BoardType, BitboardArray, Bitboard, pieces
    <3>5. king \in slide(b, enemy, src, dir)
      BY <1>1, <1>2, <1>3, <3>3, <3>4, SlideBeforeCastling DEF king
    <3>6. simple_or_capture(b, enemy, src, king, p)
            \in append_pseudolegal_sliding_moves(b, enemy, directions, p)
      BY <3>4, <3>5 DEF append_pseudolegal_sliding_moves
    <3> QED BY <2>2, <2>3, <2>6, <3>6
  <2>7. /\ bishop_move_directions \subseteq all_directions
        /\ rook_move_directions \subseteq all_directions
        /\ {"bishop", "rook", "queen"} \subseteq Piece
    BY DEF all_directions, Piece
  <2>8. mv \notin append_pseudolegal_bishop_moves(b2, enemy)
    BY <2>6, <2>7 DEF append_pseudolegal_bishop_moves, pseudolegal_moves
  <2>9. mv \notin append_pseudolegal_rook_moves(b2, enemy)
    BY <2>6, <2>7 DEF append_pseudolegal_rook_moves, pseudolegal_moves
  <2>10. mv \notin append_pseudolegal_queen_moves(b2, enemy)
    BY <2>6, <2>7 DEF append_pseudolegal_queen_moves, pseudolegal_moves
  <2> QED BY <2>1, <2>4, <2>5, <2>8, <2>9, <2>10 DEF pseudolegal_moves
<1> QED BY <1>10, <1>11 DEF attack_squares

-----------------------------------------------------------------------------
(* One move. *)

\* What legal_moves returns leads to well-formed boards.
LEMMA LegalKeepsWellFormed ==
  ASSUME NEW b, WellFormed(b), NEW m \in legal_moves(b)
  PROVE  WellFormed(do_move(b, m))
<1>1. CASE m \in append_castling_moves(b)
  BY <1>1, CastlingMoves, CastlingKeepsSound, CastlingKeepsKingSafe, WellFormedParts
<1>2. CASE m \in pseudolegal_moves(b, b.side_to_move) /\ is_pseudolegal_move_legal(b, m)
  <2>1. Sound(do_move(b, m))
    BY <1>2, PseudolegalKeepsSound
  <2>2. do_move(b, m).side_to_move = flip_color(b.side_to_move)
    BY <1>2, PseudolegalFacts, AfterMove DEF WellFormed
  <2>3. flip_color(flip_color(b.side_to_move)) = b.side_to_move
    BY FlipColor DEF WellFormed, BoardType
  <2>4. KingNotLeftInCheck(do_move(b, m))
    BY <1>2, <2>2, <2>3 DEF KingNotLeftInCheck, is_pseudolegal_move_legal
  <2> QED BY <2>1, <2>4, WellFormedParts
<1> QED BY <1>1, <1>2 DEF legal_moves

\* They are moves of the right type, all their squares on the board.
LEMMA LegalMovesType ==
  ASSUME NEW b, WellFormed(b)
  PROVE  legal_moves(b) \subseteq MoveSet
<1> SUFFICES ASSUME NEW m \in legal_moves(b) PROVE m \in MoveSet
  OBVIOUS
<1>1. CASE m \in append_castling_moves(b)
  BY <1>1, CastlingMoves DEF CastleFacts
<1>2. CASE m \in pseudolegal_moves(b, b.side_to_move)
  BY <1>2, PseudolegalFacts DEF MoveFacts, Movable
<1> QED BY <1>1, <1>2 DEF legal_moves

-----------------------------------------------------------------------------
(* The checks. *)

\* The moves of either side can be generated on a sound board.
LEMMA GenerationChecks ==
  ASSUME NEW b, Sound(b), NEW side \in Color
  PROVE  generation_checks(b, side)
<1>1. is_square(pieces(b, side, "king"))
  BY DEF Sound, OneKingEach
<1>2. b.en_passant_square_ # {} => is_square(b.en_passant_square_)
  BY DEF Sound, EnPassantSound, is_square, rank_mask
<1> QED BY <1>1, <1>2 DEF generation_checks

\* Every pawn has a square ahead of it.
LEMMA PawnsHaveRoom ==
  ASSUME NEW b, Sound(b), NEW side \in Color, NEW p \in pawns(b, side)
  PROVE  is_square(forward(side, p))
<1>1. p \in Square /\ rank_idx(p) \in 1..6
  BY DEF Sound, PawnsOffBackRanks, pawns, pieces, BoardType, BitboardArray, Bitboard, Piece
<1> QED BY <1>1, Forward DEF is_square

\* do_move finds a piece on every square it moves one from.
LEMMA PseudolegalChecks ==
  ASSUME NEW b, WellFormed(b), NEW m \in pseudolegal_moves(b, b.side_to_move)
  PROVE  do_move_checks(b, m)
<1> DEFINE side == b.side_to_move
<1>1. /\ b \in BoardType /\ side \in Color /\ PawnsOffBackRanks(b) /\ EnPassantSound(b)
      /\ MoveFacts(b, m)
  BY PseudolegalFacts DEF WellFormed, BoardType
<1>2. occupied(b.bb, m.src_square_)
  <2>1. m.src_square_ \in b.bb[<<side, m.piece_moving_>>] /\ <<side, m.piece_moving_>> \in Color \X Piece
    BY <1>1 DEF MoveFacts, Movable, MoveSet, pieces
  <2> QED BY <2>1 DEF occupied
<1>3. m.move_type_ \notin {"castle_kingside", "castle_queenside"}
  BY <1>1 DEF MoveFacts, Movable, castle_types
<1>4. m.move_type_ = "en_passant" => b.en_passant_square_ = {m.dst_square_}
  <2> SUFFICES ASSUME m.move_type_ = "en_passant" PROVE b.en_passant_square_ = {m.dst_square_}
    OBVIOUS
  <2>1. m.dst_square_ \in b.en_passant_square_
    BY <1>1, PseudolegalMoves DEF OfficerMove, PawnMove, PawnStep, PawnJump, PawnCapture,
                                  PawnEnPassant, PawnPromotion, promotion_move_types
  <2> QED BY <1>1, <2>1, EnPassantVictim
<1> QED BY <1>2, <1>3, <1>4 DEF do_move_checks

\* So legal_moves and the do_move of a legal move run to their end.
LEMMA ChecksHold ==
  ASSUME NEW b, WellFormed(b)
  PROVE  /\ legal_moves_checks(b)
         /\ \A m \in legal_moves(b) : do_move_checks(b, m)
<1> DEFINE side == b.side_to_move
<1>1. side \in Color /\ flip_color(side) \in Color /\ Sound(b)
  BY FlipColor, WellFormedParts DEF WellFormed, BoardType
<1>2. ASSUME NEW m \in pseudolegal_moves(b, side)
      PROVE  generation_checks(do_move(b, m), flip_color(side))
  BY <1>1, PseudolegalKeepsSound, GenerationChecks
<1>3. legal_moves_checks(b)
  BY <1>1, <1>2, GenerationChecks, PawnsHaveRoom, PseudolegalChecks DEF legal_moves_checks
<1>4. ASSUME NEW m \in append_castling_moves(b)
      PROVE  do_move_checks(b, m)
  <2>1. CastleFacts(b, m)
    BY CastlingMoves
  <2>2. /\ home_square(side, 4) \in b.bb[<<side, "king">>]
        /\ home_square(side, corner_file(m)) \in b.bb[<<side, "rook">>]
        /\ <<side, "king">> \in Color \X Piece /\ <<side, "rook">> \in Color \X Piece
        /\ m.src_square_ = home_square(side, 4)
    BY <1>1, <2>1 DEF CastleFacts, Piece
  <2>3. occupied(b.bb, home_square(side, 4)) /\ occupied(b.bb, home_square(side, corner_file(m)))
    BY <2>2 DEF occupied
  <2> QED BY <2>1, <2>2, <2>3 DEF do_move_checks, CastleFacts, castle_types, corner_file
<1>5. \A m \in legal_moves(b) : do_move_checks(b, m)
  BY <1>4, PseudolegalChecks DEF legal_moves
<1> QED BY <1>3, <1>5

-----------------------------------------------------------------------------
(* The men of both sides: the mover's change squares and keep their number, *)
(* the other side's only leave by capture.                                  *)

\* A man that goes to another square: the number stays the same.
LEMMA Exchange ==
  ASSUME NEW S, IsFiniteSet(S), NEW x \in S, NEW y, y \notin S
  PROVE  /\ IsFiniteSet((S \ {x}) \cup {y})
         /\ Cardinality((S \ {x}) \cup {y}) = Cardinality(S)
<1>1. IsFiniteSet(S \ {x}) /\ Cardinality(S \ {x}) = Cardinality(S) - 1
  BY FS_RemoveElement
<1>2. y \notin S \ {x}
  OBVIOUS
<1>3. /\ IsFiniteSet((S \ {x}) \cup {y})
      /\ Cardinality((S \ {x}) \cup {y}) = Cardinality(S \ {x}) + 1
  BY <1>1, <1>2, FS_AddElement
<1>4. Cardinality(S) \in Nat
  BY FS_CardinalityType
<1> QED BY <1>1, <1>3, <1>4

\* A side has finitely many men.
LEMMA FriendsFinite ==
  ASSUME NEW b \in BoardType, NEW side \in Color
  PROVE  IsFiniteSet(friends(b, side))
<1>1. friends(b, side) \subseteq Square
  BY DEF friends, pieces, BoardType, BitboardArray, Bitboard
<1>2. IsFiniteSet(Square)
  <2>1. Square = 0..63 /\ 0 \in Int /\ 63 \in Int
    BY DEF Square, board_size
  <2> QED BY <2>1, FS_Interval
<1> QED BY <1>1, <1>2, FS_Subset

-----------------------------------------------------------------------------
(* Pseudolegal moves. *)

\* The men of the two sides after one.
LEMMA MenAfter ==
  ASSUME NEW b, WellFormed(b), NEW m \in pseudolegal_moves(b, b.side_to_move)
  PROVE  LET side  == b.side_to_move
             enemy == flip_color(side)
             b2    == do_move(b, m)
         IN  /\ m.src_square_ \in friends(b, side) /\ m.dst_square_ \notin friends(b, side)
             /\ friends(b2, side) = (friends(b, side) \ {m.src_square_}) \cup {m.dst_square_}
             /\ \A p \in Piece : pieces(b2, enemy, p)
                                   = pieces(b, enemy, p) \ ({m.dst_square_} \cup Taken(m))
             /\ enemies(b2, side) = enemies(b, side) \ ({m.dst_square_} \cup Taken(m))
<1> DEFINE side  == b.side_to_move
           enemy == flip_color(side)
           b2    == do_move(b, m)
           src   == m.src_square_
           dst   == m.dst_square_
<1>1. b \in BoardType /\ PiecesDisjoint(b) /\ side \in Color /\ MoveFacts(b, m)
  BY PseudolegalFacts DEF WellFormed, BoardType
<1>2. enemy \in Color /\ enemy # side
  BY <1>1, FlipColor
<1>3. BitboardsAfter(b, m, b2.bb)
  BY <1>1, AfterMove
<1>4. /\ Placed(m) \in Piece /\ m.piece_moving_ \in Piece
      /\ src \in b.bb[<<side, m.piece_moving_>>]
      /\ dst \notin friends(b, side)
      /\ \A v \in Taken(m) : v \in b.bb[<<enemy, "pawn">>]
  BY <1>1 DEF MoveFacts, Movable, MoveSet, pieces, pawns
<1> HIDE DEF enemy
<1>5. src \in friends(b, side)
  BY <1>4, Friends
<1>6. \A v \in Taken(m) : v \notin friends(b, side)
  <2>1. \A v \in Taken(m) : v \in enemies(b, side)
    BY <1>4, Friends DEF enemies, enemy, Piece
  <2> QED BY <1>1, <2>1, SidesDisjoint
<1>7. src \notin enemies(b, side)
  BY <1>1, <1>5, SidesDisjoint
<1>8. \A p \in Piece : b2.bb[<<side, p>>] = (b.bb[<<side, p>>] \ ({src, dst} \cup Taken(m)))
                                              \cup (IF p = Placed(m) THEN {dst} ELSE {})
  BY <1>1, <1>3 DEF BitboardsAfter
<1>9. \A p \in Piece : b2.bb[<<enemy, p>>] = b.bb[<<enemy, p>>] \ ({src, dst} \cup Taken(m))
  BY <1>2, <1>3 DEF BitboardsAfter
<1>10. \A sq : sq \in friends(b2, side) <=> (sq \in friends(b, side) /\ sq # src) \/ sq = dst
  <2> SUFFICES ASSUME NEW sq
               PROVE  sq \in friends(b2, side) <=> (sq \in friends(b, side) /\ sq # src) \/ sq = dst
    OBVIOUS
  <2>1. CASE sq = dst
    BY <1>4, <1>8, <2>1, Friends
  <2>2. CASE sq # dst
    <3>1. sq \in friends(b2, side) <=> \E p \in Piece : sq \in b2.bb[<<side, p>>]
      BY Friends
    <3>2. sq \in friends(b, side) <=> \E p \in Piece : sq \in b.bb[<<side, p>>]
      BY Friends
    <3> HIDE DEF b2, src, dst
    <3> QED BY <1>6, <1>8, <2>2, <3>1, <3>2
  <2> QED BY <2>1, <2>2
<1>11. friends(b2, side) = (friends(b, side) \ {src}) \cup {dst}
  BY <1>10
<1>12. \A p \in Piece : \A sq \in b.bb[<<enemy, p>>] : sq # src
  BY <1>7, Friends DEF enemies, enemy
<1>13. \A p \in Piece : pieces(b2, enemy, p) = pieces(b, enemy, p) \ ({dst} \cup Taken(m))
  BY <1>9, <1>12 DEF pieces
<1>14. enemies(b2, side) = enemies(b, side) \ ({dst} \cup Taken(m))
  BY <1>13 DEF enemies, friends, enemy
<1> QED BY <1>4, <1>5, <1>11, <1>13, <1>14 DEF enemy

\* A pawn that arrives on the e.p. square has captured en passant: the square
\* behind it, from where it could have stepped, is the enemy pawn's.
LEMMA OnlyEnPassantArrivesThere ==
  ASSUME NEW b, WellFormed(b), NEW m \in pseudolegal_moves(b, b.side_to_move),
         b.en_passant_square_ = {m.dst_square_}, Placed(m) = "pawn"
  PROVE  m.move_type_ = "en_passant"
<1> DEFINE side   == b.side_to_move
           enemy  == flip_color(side)
           src    == m.src_square_
           dst    == m.dst_square_
           victim == dst + 8 * up(enemy)
<1>1. /\ b \in BoardType /\ PiecesDisjoint(b) /\ PawnsOffBackRanks(b) /\ EnPassantSound(b)
      /\ side \in Color /\ enemy \in Color /\ enemy # side
  BY FlipColor DEF WellFormed, BoardType
<1>2. /\ dst \in Square /\ dst \notin all_pieces(b) /\ victim \in pawns(b, enemy)
      /\ rank_idx(dst) = IF enemy = "white" THEN 2 ELSE 5
  BY <1>1, EnPassantVictim
<1>3. m.piece_moving_ = "pawn" /\ m.move_type_ \notin promotion_move_types
  <2>1. m.piece_moving_ # "pawn" => OfficerMove(b, side, m)
    BY <1>1, PseudolegalMoves DEF PawnMove
  <2>2. OfficerMove(b, side, m) => m.move_type_ \notin promotion_move_types /\ Placed(m) # "pawn"
    BY DEF OfficerMove, Placed, promotion_move_types
  <2>3. m.move_type_ \in promotion_move_types => Placed(m) # "pawn"
    BY PromotedPiece DEF Placed
  <2> QED BY <2>1, <2>2, <2>3
<1>4. PawnMove(b, side, m)
  BY <1>1, <1>3, PseudolegalMoves DEF OfficerMove
<1>5. src \in pawns(b, side) /\ src \in Square
  BY <1>4 DEF PawnMove, MoveSet
<1>6. ~PawnStep(b, side, m)
  <2> SUFFICES ASSUME PawnStep(b, side, m) PROVE FALSE
    OBVIOUS
  <2>1. dst = src + 8 * up(side)
    BY DEF PawnStep
  <2>2. victim = src
    BY <1>1, <1>5, <2>1 DEF up, Color, flip_color, Square, board_size
  <2>3. src \in b.bb[<<side, "pawn">>] /\ src \in b.bb[<<enemy, "pawn">>]
    BY <1>2, <1>5, <2>2 DEF pawns, pieces
  <2>4. <<side, "pawn">> \in Color \X Piece /\ <<enemy, "pawn">> \in Color \X Piece
    BY <1>1 DEF Piece
  <2>5. <<side, "pawn">> = <<enemy, "pawn">>
    BY <1>1, <2>3, <2>4 DEF PiecesDisjoint, Disjoint
  <2> QED BY <1>1, <2>5
<1>7. ~PawnJump(b, side, m)
  <2>1. CASE side = "white"
    BY <1>1, <1>2, <1>5, <2>1 DEF PawnJump, up, two_step_mask, second_rank_mask, rank_mask, rank_idx,
                                   Color, Square, board_size
  <2>2. CASE side = "black"
    <3>1. PawnJump(b, side, m) => dst = src - 16 /\ rank_idx(src) = 6
      BY <1>5, <2>2 DEF PawnJump, up, two_step_mask, seventh_rank_mask, rank_mask, Square, board_size
    <3>2. rank_idx(dst) = 2
      BY <1>1, <1>2, <2>2 DEF Color
    <3> QED BY <1>5, <3>1, <3>2 DEF rank_idx, Square, board_size
  <2> QED BY <1>1, <2>1, <2>2 DEF Color
<1>8. ~PawnCapture(b, side, m)
  BY <1>1, <1>2 DEF PawnCapture, enemies, all_pieces, Color
<1> QED BY <1>3, <1>4, <1>6, <1>7, <1>8 DEF PawnMove, PawnEnPassant, PawnPromotion

\* A pseudolegal move accounts for the men.
LEMMA PseudolegalAccounting ==
  ASSUME NEW b, WellFormed(b), NEW m \in pseudolegal_moves(b, b.side_to_move)
  PROVE  MoveAccounting(b, do_move(b, m))
<1> DEFINE side   == b.side_to_move
           enemy  == flip_color(side)
           b2     == do_move(b, m)
           src    == m.src_square_
           dst    == m.dst_square_
           gained == friends(b2, side) \ friends(b, side)
           lost   == enemies(b, side) \ enemies(b2, side)
<1>1. b \in BoardType /\ EnPassantSound(b) /\ side \in Color /\ MoveFacts(b, m)
  BY PseudolegalFacts DEF WellFormed, BoardType
<1>2. /\ src \in friends(b, side) /\ dst \notin friends(b, side)
      /\ friends(b2, side) = (friends(b, side) \ {src}) \cup {dst}
      /\ \A p \in Piece : pieces(b2, enemy, p) = pieces(b, enemy, p) \ ({dst} \cup Taken(m))
      /\ enemies(b2, side) = enemies(b, side) \ ({dst} \cup Taken(m))
  BY MenAfter
<1>3. Taken(m) \subseteq pawns(b, enemy) /\ pawns(b, enemy) \subseteq enemies(b, side)
  BY <1>1 DEF MoveFacts, enemies, friends, pawns, Piece
<1>4. \A p \in Piece : pieces(b, enemy, p) \subseteq enemies(b, side)
  BY DEF enemies, friends
<1> HIDE DEF b2, src, dst, enemy
<1>5. gained = {dst} /\ lost = ({dst} \cap enemies(b, side)) \cup Taken(m)
  BY <1>2, <1>3
<1>6. \A p \in Piece : pieces(b2, enemy, p) = pieces(b, enemy, p) \ lost
  BY <1>2, <1>4, <1>5
<1>7. Cardinality(friends(b2, side)) = Cardinality(friends(b, side))
  BY <1>1, <1>2, FriendsFinite, Exchange
<1> DEFINE enPassant == gained = b.en_passant_square_ /\ gained \subseteq pawns(b2, side)
<1>8. /\ enPassant => lost = UNION {forward(enemy, sq) : sq \in gained} /\ lost \subseteq pawns(b, enemy)
      /\ ~enPassant => lost = gained \cap enemies(b, side)
  <2>1. BitboardsAfter(b, m, b2.bb)
    BY <1>1, AfterMove DEF b2, WellFormed
  <2>2. CASE m.move_type_ = "en_passant"
    <3>1. b.en_passant_square_ = {dst}
      BY <2>2, PseudolegalChecks DEF do_move_checks, dst
    <3>2. dst \notin all_pieces(b) /\ enemy_pawn_square(dst) = forward(enemy, dst)
      BY <1>1, <3>1, EnPassantVictim DEF enemy, dst
    <3>3. Taken(m) = forward(enemy, dst)
      BY <2>2, <3>2 DEF Taken, dst
    <3>4. dst \notin enemies(b, side)
      BY <1>1, <3>2 DEF enemies, all_pieces, flip_color, Color
    <3>5. lost = forward(enemy, dst) /\ lost \subseteq pawns(b, enemy)
      BY <1>3, <1>5, <3>3, <3>4
    <3>6. dst \in pawns(b2, side)
      <4>1. Placed(m) = "pawn"
        BY <1>1, <2>2 DEF MoveFacts, Placed, promotion_move_types
      <4>2. <<side, "pawn">> \in Color \X Piece
        BY <1>1 DEF Piece
      <4> QED BY <2>1, <4>1, <4>2 DEF BitboardsAfter, pawns, pieces, dst
    <3>7. enPassant
      BY <1>5, <3>1, <3>6
    <3>8. UNION {forward(enemy, sq) : sq \in gained} = forward(enemy, dst)
      BY <1>5
    <3> QED BY <3>5, <3>7, <3>8
  <2>3. CASE m.move_type_ # "en_passant"
    <3>1. Taken(m) = {}
      BY <2>3 DEF Taken
    <3>2. ~enPassant
      <4> SUFFICES ASSUME enPassant PROVE FALSE
        OBVIOUS
      <4>1. b.en_passant_square_ = {dst} /\ dst \in b2.bb[<<side, "pawn">>]
        BY <1>5 DEF pawns, pieces
      <4>2. <<side, "pawn">> \in Color \X Piece
        BY <1>1 DEF Piece
      <4>3. Placed(m) = "pawn"
        <5> SUFFICES ASSUME Placed(m) # "pawn" PROVE FALSE
          OBVIOUS
        <5>1. <<side, "pawn">> # <<side, Placed(m)>>
          OBVIOUS
        <5>2. b2.bb[<<side, "pawn">>] = b.bb[<<side, "pawn">>] \ ({src, dst} \cup Taken(m))
          BY <2>1, <4>2, <5>1 DEF BitboardsAfter, src, dst
        <5> QED BY <4>1, <5>2
      <4> QED BY <2>3, <4>1, <4>3, OnlyEnPassantArrivesThere DEF dst
    <3> QED BY <1>5, <3>1, <3>2
  <2> QED BY <2>2, <2>3
<1> QED BY <1>6, <1>7, <1>8 DEF MoveAccounting, b2, enemy

-----------------------------------------------------------------------------
(* The men after castling. *)

\* Castling accounts for the men: two change squares and none leaves.
LEMMA CastlingAccounting ==
  ASSUME NEW b, WellFormed(b), NEW m, CastleFacts(b, m)
  PROVE  MoveAccounting(b, do_move(b, m))
<1> DEFINE side   == b.side_to_move
           enemy  == flip_color(side)
           b2     == do_move(b, m)
           src    == home_square(side, 4)
           dst    == home_square(side, king_file(m))
           corner == home_square(side, corner_file(m))
           beside == home_square(side, beside_file(m))
           gained == friends(b2, side) \ friends(b, side)
           lost   == enemies(b, side) \ enemies(b2, side)
<1>1. b \in BoardType /\ PiecesDisjoint(b) /\ OneKingEach(b) /\ EnPassantSound(b) /\ side \in Color
  BY DEF WellFormed, BoardType
<1>2. CastledBitboards(b, m, b2.bb)
  BY <1>1, AfterCastling
<1>3. enemy \in Color /\ enemy # side
  BY <1>1, FlipColor
<1>4. /\ src \in b.bb[<<side, "king">>] /\ corner \in b.bb[<<side, "rook">>]
      /\ ~occupied(b.bb, dst) /\ ~occupied(b.bb, beside)
  BY DEF CastleFacts
<1>5. dst # beside /\ dst # src /\ dst # corner /\ src # corner /\ beside # src /\ beside # corner
  BY <1>1, Home DEF king_file, beside_file, corner_file
<1>6. \A p \in Piece : b2.bb[<<enemy, p>>] = b.bb[<<enemy, p>>]
  BY <1>2, <1>3 DEF CastledBitboards
<1>7. \A p \in Piece : b2.bb[<<side, p>>] = IF p = "king" THEN {dst}
                         ELSE IF p = "rook" THEN (b.bb[<<side, p>>] \ {src, corner}) \cup {beside}
                         ELSE b.bb[<<side, p>>]
  BY <1>1, <1>2 DEF CastledBitboards
<1>8. b.bb[<<side, "king">>] = {src}
  BY <1>1, <1>4 DEF OneKingEach, is_square, pieces
<1>9. \A p \in Piece : (src \in b.bb[<<side, p>>] => p = "king") /\ (corner \in b.bb[<<side, p>>] => p = "rook")
  <2> SUFFICES ASSUME NEW p \in Piece
               PROVE  (src \in b.bb[<<side, p>>] => p = "king") /\ (corner \in b.bb[<<side, p>>] => p = "rook")
    OBVIOUS
  <2>1. <<side, p>> \in Color \X Piece /\ <<side, "king">> \in Color \X Piece /\ <<side, "rook">> \in Color \X Piece
    BY <1>1 DEF Piece
  <2> QED BY <1>1, <1>4, <2>1 DEF PiecesDisjoint, Disjoint
<1>10. /\ src \in friends(b, side) /\ corner \in friends(b, side)
       /\ dst \notin friends(b, side) /\ beside \notin friends(b, side)
       /\ dst \notin enemies(b, side) /\ beside \notin enemies(b, side)
  <2>1. src \in friends(b, side) /\ corner \in friends(b, side)
    BY <1>4, Friends DEF Piece
  <2>2. dst \notin all_pieces(b) /\ beside \notin all_pieces(b)
    BY <1>4, AllPieces
  <2> QED BY <1>1, <1>3, <2>1, <2>2 DEF all_pieces, enemies, Color
<1> HIDE DEF src, dst, corner, beside, b2, enemy
<1>11. \A sq : sq \in friends(b2, side) <=>
                 (sq \in friends(b, side) /\ sq # src /\ sq # corner) \/ sq = dst \/ sq = beside
  <2> SUFFICES ASSUME NEW sq
               PROVE  sq \in friends(b2, side) <=>
                        (sq \in friends(b, side) /\ sq # src /\ sq # corner) \/ sq = dst \/ sq = beside
    OBVIOUS
  <2>1. sq \in friends(b2, side) <=> \E p \in Piece : sq \in b2.bb[<<side, p>>]
    BY Friends
  <2>2. sq \in friends(b, side) <=> \E p \in Piece : sq \in b.bb[<<side, p>>]
    BY Friends
  <2>3. "king" \in Piece /\ "rook" \in Piece
    BY DEF Piece
  <2>4. dst \in b2.bb[<<side, "king">>] /\ beside \in b2.bb[<<side, "rook">>]
    BY <1>7, <2>3
  <2>5. ASSUME NEW p \in Piece, sq \in b2.bb[<<side, p>>]
        PROVE  (sq \in b.bb[<<side, p>>] /\ sq # src /\ sq # corner) \/ sq = dst \/ sq = beside
    BY <1>7, <1>9, <2>5
  <2>6. ASSUME NEW p \in Piece, sq \in b.bb[<<side, p>>], sq # src, sq # corner
        PROVE  sq \in b2.bb[<<side, p>>]
    BY <1>7, <1>8, <2>6
  <2> QED BY <2>1, <2>2, <2>3, <2>4, <2>5, <2>6
<1>12. gained = {dst, beside}
  BY <1>10, <1>11
<1>13. lost = {} /\ \A p \in Piece : pieces(b2, enemy, p) = pieces(b, enemy, p) \ lost
  BY <1>6 DEF enemies, friends, pieces, enemy
<1>14. gained # b.en_passant_square_
  BY <1>1, <1>5, <1>12 DEF EnPassantSound
<1>15. Cardinality(friends(b2, side)) = Cardinality(friends(b, side))
  <2> DEFINE men == (friends(b, side) \ {src}) \cup {dst}
  <2>1. IsFiniteSet(men) /\ Cardinality(men) = Cardinality(friends(b, side))
    BY <1>1, <1>10, FriendsFinite, Exchange
  <2>2. corner \in men /\ beside \notin men
    BY <1>5, <1>10
  <2>3. friends(b2, side) = (men \ {corner}) \cup {beside}
    BY <1>5, <1>10, <1>11
  <2> HIDE DEF men
  <2> QED BY <2>1, <2>2, <2>3, Exchange
<1>16. lost = gained \cap enemies(b, side)
  BY <1>10, <1>12, <1>13
<1> QED BY <1>13, <1>14, <1>15, <1>16 DEF MoveAccounting, b2, enemy

\* And so does a legal move.
LEMMA LegalAccounting ==
  ASSUME NEW b, WellFormed(b), NEW m \in legal_moves(b)
  PROVE  MoveAccounting(b, do_move(b, m))
<1>1. CASE m \in append_castling_moves(b)
  BY <1>1, CastlingMoves, CastlingAccounting
<1>2. CASE m \in pseudolegal_moves(b, b.side_to_move)
  BY <1>2, PseudolegalAccounting
<1> QED BY <1>1, <1>2 DEF legal_moves
=============================================================================
