----------------------------- MODULE Bitboards -----------------------------
(***************************************************************************)
(* The squares of the board, the sets of squares the engine calls          *)
(* Bitboards, and the functions of board.h / board.cc that step from one   *)
(* square to another.                                                      *)
(*                                                                         *)
(* A square is the index of its bit: h1 is bit 0 and a8 is bit 63.  A      *)
(* Bitboard is the set of its one-bits, so `0` is {}, `|` is \cup, `&` is  *)
(* \cap, and a shift adds to every index and drops what leaves 0..63.  The *)
(* step functions return a Bitboard that holds one square or none.         *)
(***************************************************************************)
EXTENDS Integers

board_size == 8
Square   == 0..(board_size * board_size - 1)
Bitboard == SUBSET Square

\* "Check that the bitboard has exactly one bit set."
is_square(bb) == \E sq \in Square : bb = {sq}

rank_idx(sq) == sq \div 8
file_idx(sq) == 7 - (sq % 8)
coordinates_to_square(file, rank) ==
  rank * board_size + board_size - file - 1

on_a_file(sq) == file_idx(sq) = 0
on_h_file(sq) == file_idx(sq) = 7

-----------------------------------------------------------------------------
(* One step.  Shifts by a whole rank fall off the end of the word, shifts  *)
(* by one would wrap around to the next rank and are guarded by the file.  *)

\* Faulty variant: a square pushed off the top keeps its bit.
north_of_unmasked(sq) == {sq + board_size}

north_of(sq) == {sq + board_size} \cap Square
south_of(sq) == {sq - board_size} \cap Square
east_of(sq)  == IF on_h_file(sq) THEN {} ELSE {sq - 1}
west_of(sq)  == IF on_a_file(sq) THEN {} ELSE {sq + 1}

northeast_of(sq) == UNION {east_of(n) : n \in north_of(sq)}
northwest_of(sq) == UNION {west_of(n) : n \in north_of(sq)}
southeast_of(sq) == UNION {east_of(s) : s \in south_of(sq)}
southwest_of(sq) == UNION {west_of(s) : s \in south_of(sq)}

rook_move_directions   == {"north", "south", "east", "west"}
bishop_move_directions == {"northeast", "northwest", "southeast", "southwest"}
all_directions         == rook_move_directions \cup bishop_move_directions

knight_move_directions ==
  { <<"north", "northwest">>, <<"north", "northeast">>,
    <<"west",  "northwest">>, <<"west",  "southwest">>,
    <<"east",  "northeast">>, <<"east",  "southeast">>,
    <<"south", "southeast">>, <<"south", "southwest">> }

direction_to_function(dir, sq) ==
  CASE dir = "north"     -> north_of(sq)
    [] dir = "south"     -> south_of(sq)
    [] dir = "east"      -> east_of(sq)
    [] dir = "west"      -> west_of(sq)
    [] dir = "northeast" -> northeast_of(sq)
    [] dir = "northwest" -> northwest_of(sq)
    [] dir = "southeast" -> southeast_of(sq)
    [] dir = "southwest" -> southwest_of(sq)

-----------------------------------------------------------------------------
(* Repeated steps.  The sliding loop applies direction_fn again and again;  *)
(* walk(dir, sq, n) is the square it stands on after n steps, or {} when    *)
(* one of them left the board.  It is stated in closed form, by the change  *)
(* of file and rank; WalkIsIteratedStep (PositionProofs) proves that it is  *)
(* the n-fold application of direction_to_function.                         *)

file_step(dir) ==
  IF dir \in {"east", "northeast", "southeast"} THEN 1
  ELSE IF dir \in {"west", "northwest", "southwest"} THEN -1
  ELSE 0

rank_step(dir) ==
  IF dir \in {"north", "northeast", "northwest"} THEN 1
  ELSE IF dir \in {"south", "southeast", "southwest"} THEN -1
  ELSE 0

walk(dir, sq, n) ==
  LET file == file_idx(sq) + n * file_step(dir)
      rank == rank_idx(sq) + n * rank_step(dir)
  IN  IF file \in 0..7 /\ rank \in 0..7
      THEN {coordinates_to_square(file, rank)}
      ELSE {}

-----------------------------------------------------------------------------
(* Colours and the masks of board.cc.  The code spells out a white and a    *)
(* black branch everywhere; the two are mirror images and are written once, *)
(* with the side as a parameter.                                            *)

Color == {"white", "black"}
flip_color(side) == IF side = "white" THEN "black" ELSE "white"

rank_mask(rank)   == {sq \in Square : rank_idx(sq) = rank}
second_rank_mask  == rank_mask(1)
third_rank_mask   == rank_mask(2)
seventh_rank_mask == rank_mask(6)

\* Where a pawn of `side` starts, and the rank from which it promotes.
two_step_mask(side)  == IF side = "white" THEN second_rank_mask ELSE seventh_rank_mask
promotion_mask(side) == IF side = "white" THEN seventh_rank_mask ELSE second_rank_mask

\* Where a pawn of `side` moves to and what it attacks.
forward(side, sq)   == IF side = "white" THEN north_of(sq) ELSE south_of(sq)
diagonals(side, sq) ==
  IF side = "white" THEN northeast_of(sq) \cup northwest_of(sq)
                    ELSE southeast_of(sq) \cup southwest_of(sq)

\* The square on the given file (0 is the a file) of the side's first rank:
\* str_to_square("a1") .. str_to_square("h8").
home_square(side, file) ==
  coordinates_to_square(file, IF side = "white" THEN 0 ELSE 7)
=============================================================================
