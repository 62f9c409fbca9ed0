---------------------------- MODULE MCFenReader ----------------------------
(***************************************************************************)
(* Boards for TLC, given by their men and not by FENs.                     *)
(***************************************************************************)
EXTENDS FenReader

\* A board from a set of <<colour, piece, square>>.
BoardWith(men, side, castling, ep, num) ==
  [ bb |-> [cp \in Color \X Piece |->
              {man[3] : man \in {x \in men : <<x[1], x[2]>> = cp}}],
    side_to_move |-> side, castling |-> castling, en_passant_square_ |-> ep,
    fifty_move_clock_ |-> 0, num_moves_ |-> num ]

Kings == { <<side, "king", home_square(side, 4)>> : side \in Color }
Rooks == { <<side, "rook", home_square(side, file)>> : side \in Color, file \in {0, 7} }

Army(side) ==
  LET order == <<"rook", "knight", "bishop", "queen", "king", "bishop", "knight", "rook">>
      second == IF side = "white" THEN 1 ELSE 6
  IN  {<<side, order[f], home_square(side, f - 1)>> : f \in 1..8}
        \cup {<<side, "pawn", coordinates_to_square(f, second)>> : f \in 0..7}

\* The start position, with any castling rights and either side to move.
Armies ==
  { BoardWith(Army("white") \cup Army("black"), side, rights, {}, 1) :
      side \in Color, rights \in SUBSET Right }

\* Kings and rooks at home, and one more man anywhere else.
OneMore ==
  { BoardWith(Kings \cup Rooks \cup {<<side, p, sq>>}, side, Right, {}, 7) :
      side \in Color, p \in Piece \ {"pawn", "king"},
      sq \in Square \ {man[3] : man \in Kings \cup Rooks} }
  \cup
  { BoardWith(Kings \cup {<<side, "pawn", sq>>}, side, {}, {}, 8) :
      side \in Color, sq \in {s \in Square : rank_idx(s) \in 1..6} }

\* A pawn has just jumped.
Jumped ==
  { BoardWith(Kings \cup {<<"white", "pawn", coordinates_to_square(f, 3)>>},
              "black", {}, {coordinates_to_square(f, 2)}, 9) : f \in 0..7 }
  \cup
  { BoardWith(Kings \cup {<<"black", "pawn", coordinates_to_square(f, 4)>>},
              "white", {}, {coordinates_to_square(f, 5)}, 9) : f \in 0..7 }

MCBoards ==
  { b \in Armies \cup OneMore \cup Jumped :
      ~is_king_attacked(b, flip_color(b.side_to_move)) }
=============================================================================
