-------------------------------- MODULE Fen --------------------------------
(***************************************************************************)
(* The constructor Board(fen).  A FEN arrives as its six fields, already   *)
(* split at the blanks (absl::StrSplit) and with the two counters already  *)
(* converted: module SimpleAtoi is about that conversion, and about when   *)
(* the two ABSL_RAW_CHECKs on it pass.  The other fields are sequences of  *)
(* characters.                                                             *)
(***************************************************************************)
EXTENDS Board, SequencesExt

digits == <<"1", "2", "3", "4", "5", "6", "7", "8">>
files  == <<"a", "b", "c", "d", "e", "f", "g", "h">>

\* c - 'a' or c - '1'
offset(chars, c) == (CHOOSE n \in 1..8 : chars[n] = c) - 1

str_to_square(text) ==
  coordinates_to_square(offset(files, text[1]), offset(digits, text[2]))

\* Its ABSL_RAW_CHECKs on file and rank.
str_to_square_checks(text) == Contains(files, text[1]) /\ Contains(digits, text[2])

fen_piece(c) ==
  CASE c = "P" -> <<"white", "pawn">>   [] c = "p" -> <<"black", "pawn">>
    [] c = "R" -> <<"white", "rook">>   [] c = "r" -> <<"black", "rook">>
    [] c = "N" -> <<"white", "knight">> [] c = "n" -> <<"black", "knight">>
    [] c = "B" -> <<"white", "bishop">> [] c = "b" -> <<"black", "bishop">>
    [] c = "Q" -> <<"white", "queen">>  [] c = "q" -> <<"black", "queen">>
    [] c = "K" -> <<"white", "king">>   [] c = "k" -> <<"black", "king">>

\* Faulty variant: the file goes on where the last rank ended.
place_without_reset(s, c) ==
  CASE Contains(digits, c) -> [s EXCEPT !.file = @ + offset(digits, c) + 1]
    [] c = "/" -> [s EXCEPT !.rank = @ - 1]
    [] OTHER -> [s EXCEPT !.bb[fen_piece(c)] = @ \cup {coordinates_to_square(s.file, s.rank)},
                          !.file = @ + 1]

\* One turn of the loop over the characters of the placement field.
place(s, c) ==
  CASE Contains(digits, c) ->
         [s EXCEPT !.file = @ + offset(digits, c) + 1]
    [] c = "/" ->
         [s EXCEPT !.rank = @ - 1, !.file = 0]
    [] OTHER ->
         LET square_mask == coordinates_to_square(s.file, s.rank)
         IN  [s EXCEPT !.bb[fen_piece(c)] = @ \cup {square_mask}, !.file = @ + 1]

zero_all_bitboards == [cp \in Color \X Piece |-> {}]

scan_start == [bb |-> zero_all_bitboards, rank |-> board_size - 1, file |-> 0]

init_bitboards(pieces_fen) == FoldLeft(place, scan_start, pieces_fen).bb

init_is_whites_move(c) == IF c = "w" THEN "white" ELSE "black"

\* Its ABSL_RAW_CHECK.
init_is_whites_move_checks(c) == c \in {"w", "b"}

\* Faulty variant: a letter of either case counts for white.
init_castling_rights_ignoring_case(text) ==
  {r \in Right : Contains(text, r)} \cup (IF Contains(text, "k") THEN {"K"} ELSE {})

init_castling_rights(text) == {r \in Right : Contains(text, r)}

init_en_passant(text) == IF text = <<"-">> THEN {} ELSE {str_to_square(text)}

\* No check fails on the fields after the placement.  init_castling_rights has none.
fields_checks(side, ep) ==
  /\ init_is_whites_move_checks(side)
  /\ ep # <<"-">> => str_to_square_checks(ep)

\* What the constructor adds to the Bitboards when no check fails.  The counters
\* are handed over as they come.
with_fields(bb, side, castling, ep, clock, num) ==
  [ bb                 |-> bb,
    side_to_move       |-> init_is_whites_move(side),
    castling           |-> init_castling_rights(castling),
    en_passant_square_ |-> init_en_passant(ep),
    fifty_move_clock_  |-> clock,
    num_moves_         |-> num ]

BoardOf(pieces_fen, side, castling, ep, clock, num) ==
  with_fields(init_bitboards(pieces_fen), side, castling, ep, clock, num)

\* Board(): get_start_fen()
StartBoard ==
  BoardOf(<<"r", "n", "b", "q", "k", "b", "n", "r", "/",
            "p", "p", "p", "p", "p", "p", "p", "p", "/",
            "8", "/", "8", "/", "8", "/", "8", "/",
            "P", "P", "P", "P", "P", "P", "P", "P", "/",
            "R", "N", "B", "Q", "K", "B", "N", "R">>, "w", <<"K", "Q", "k", "q">>, <<"-">>, 0, 1)
=============================================================================
