------------------------------ MODULE Printing ------------------------------
(***************************************************************************)
(* to_pretty_str() of boards and moves.  A chess symbol is represented by  *)
(* the colour and the piece it shows; the frame of the diagram is left out.*)
(***************************************************************************)
EXTENDS Fen

\* The order of the tests, which is not that of all_bitboards.
tested ==
  << <<"white", "pawn">>,   <<"white", "rook">>,   <<"white", "knight">>,
     <<"white", "bishop">>, <<"white", "queen">>,  <<"white", "king">>,
     <<"black", "pawn">>,   <<"black", "rook">>,   <<"black", "knight">>,
     <<"black", "bishop">>, <<"black", "queen">>,  <<"black", "king">> >>

blank == <<>>

occupiers_unicode_symbol(b, file, rank) ==
  LET has(cp) == coordinates_to_square(file, rank) \in b.bb[cp]
      first   == CHOOSE i \in 1..12 : has(tested[i]) /\ \A j \in 1..(i - 1) : ~has(tested[j])
  IN  IF \E i \in 1..12 : has(tested[i]) THEN tested[first] ELSE blank

\* The rows from the top down, each with the digit in front of it, and the
\* letters below.
to_pretty_str(b) ==
  LET row(rank) ==
        [ digit   |-> digits[rank + 1],
          symbols |-> [i \in 1..board_size |-> occupiers_unicode_symbol(b, i - 1, rank)] ]
  IN  [ rows    |-> [i \in 1..board_size |-> row(board_size - i)],
        letters |-> files ]

square_to_str(sq) == <<files[file_idx(sq) + 1], digits[rank_idx(sq) + 1]>>

\* Faulty variant: only the square of arrival is printed.
move_to_pretty_str_short(m) == square_to_str(m.dst_square_)

\* Move::to_pretty_str()
move_to_pretty_str(m) == square_to_str(m.src_square_) \o square_to_str(m.dst_square_)
=============================================================================
