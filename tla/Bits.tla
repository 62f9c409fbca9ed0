-------------------------------- MODULE Bits --------------------------------
(***************************************************************************)
(* Bitboards as the words they are.  Module Bitboards works with sets of   *)
(* bit indices; here the loops over the bits of a word, and the shifts,    *)
(* run on unsigned words of board_size^2 bits, and are compared with what  *)
(* the sets say.  The code has board_size = 8.                             *)
(***************************************************************************)
EXTENDS Integers, Sequences, FiniteSetsExt

CONSTANT board_size

ASSUME SizeAssumption == board_size \in Nat \ {0}

width == board_size * board_size
Bit   == 0..(width - 1)

\* Powers of two, by a recursion that the provers can unfold.
pow2 ==
  LET two[n \in 0..width] == IF n = 0 THEN 1 ELSE 2 * two[n - 1]
  IN  [n \in 0..width |-> two[n]]

Word == 0..(pow2[width] - 1)

\* The set that Bitboards uses for a word, and back.
SetOf(w) == {i \in Bit : (w \div pow2[i]) % 2 = 1}

WordOf(S) ==
  LET from[n \in 0..width] ==
        IF n = width THEN 0 ELSE 2 * from[n + 1] + (IF n \in S THEN 1 ELSE 0)
  IN  from[0]

-----------------------------------------------------------------------------
(* Unsigned arithmetic.  The bitwise operators work on each bit by itself.  *)

x & y  == WordOf(SetOf(x) \cap SetOf(y))
x | y  == WordOf(SetOf(x) \cup SetOf(y))
x ^^ y == WordOf((SetOf(x) \cup SetOf(y)) \ (SetOf(x) \cap SetOf(y)))

minus_1(w) == (w - 1) % pow2[width]
shl(w, n)  == (w * pow2[n]) % pow2[width]

shr(w, n)  == w \div pow2[n]

\* bb & bb - 1
clear_lsb(w) == w & minus_1(w)

is_square(w) == w # 0 /\ clear_lsb(w) = 0

-----------------------------------------------------------------------------
(* The steps, on a word with one bit.  square_idx is the loop below. *)

square_idx(w) == IF w = 0 THEN -1 ELSE Max(SetOf(w))
file_idx(w)   == board_size - 1 - (square_idx(w) % board_size)
rank_idx(w)   == square_idx(w) \div board_size

north_of(w) == shl(w, board_size)
south_of(w) == shr(w, board_size)

\* Faulty variant: no test for the edge of the board.
east_of_wrapping(w) == shr(w, 1)

east_of(w)  == IF file_idx(w) = board_size - 1 THEN 0 ELSE shr(w, 1)
west_of(w)  == IF file_idx(w) = 0 THEN 0 ELSE shl(w, 1)

northeast_of(w) == IF north_of(w) = 0 THEN 0 ELSE east_of(north_of(w))
northwest_of(w) == IF north_of(w) = 0 THEN 0 ELSE west_of(north_of(w))
southeast_of(w) == IF south_of(w) = 0 THEN 0 ELSE east_of(south_of(w))
southwest_of(w) == IF south_of(w) = 0 THEN 0 ELSE west_of(south_of(w))

-----------------------------------------------------------------------------
(* The loops. *)

VARIABLES
  fn,     \* the function that runs
  arg,    \* its argument
  bb,     \* the local the loop works on
  res     \* the local it returns: a number, or a vector of words

vars == <<fn, arg, bb, res>>

Init ==
  /\ arg \in Word
  /\ bb = arg
  /\ \/ fn = "pop_count" /\ res = 0
     \/ fn = "square_idx" /\ res = -1
     \/ fn = "bitboard_split" /\ res = <<>>

PopCount ==
  /\ fn = "pop_count" /\ bb # 0
  /\ bb' = clear_lsb(bb)
  /\ res' = res + 1
  /\ UNCHANGED <<fn, arg>>

\* Faulty variant: the word is shifted as a signed one (stopped when it has
\* gone on for longer than there are bits).
SquareIdxSigned ==
  /\ fn = "square_idx" /\ bb # 0 /\ res < width
  /\ bb' = shr(bb, 1) + (IF bb >= pow2[width - 1] THEN pow2[width - 1] ELSE 0)
  /\ res' = res + 1
  /\ UNCHANGED <<fn, arg>>

SquareIdx ==
  /\ fn = "square_idx" /\ bb # 0
  /\ bb' = shr(bb, 1)
  /\ res' = res + 1
  /\ UNCHANGED <<fn, arg>>

\* Faulty variant: `|` for `^`.
BitboardSplitOr ==
  /\ fn = "bitboard_split" /\ bb # 0
  /\ bb' = clear_lsb(bb)
  /\ res' = Append(res, bb | clear_lsb(bb))
  /\ UNCHANGED <<fn, arg>>

BitboardSplit ==
  /\ fn = "bitboard_split" /\ bb # 0
  /\ bb' = clear_lsb(bb)
  /\ res' = Append(res, bb ^^ clear_lsb(bb))
  /\ UNCHANGED <<fn, arg>>

Next == PopCount \/ SquareIdx \/ BitboardSplit

Spec == Init /\ [][Next]_vars /\ WF_vars(Next)

-----------------------------------------------------------------------------
(* Properties. *)

\* Each loop has seen all one-bits of its argument when it ends: pop_count
\* returns their number, square_idx the highest (-1 for the empty word), and
\* bitboard_split a word for each of them, from the lowest to the highest.
LoopsAgreeWithSets ==
  bb = 0 =>
    CASE fn = "pop_count"      -> res = Cardinality(SetOf(arg))
      [] fn = "square_idx"     -> res = square_idx(arg)
      [] fn = "bitboard_split" ->
           /\ \A i \in DOMAIN res : \E sq \in SetOf(arg) : res[i] = pow2[sq]
           /\ \A i \in DOMAIN res : i > 1 => res[i - 1] < res[i]
           /\ Len(res) = Cardinality(SetOf(arg))

\* Where a step by df files and dr ranks leads from a square, as a word.
Neighbour(w, df, dr) ==
  LET file == file_idx(w) + df
      rank == rank_idx(w) + dr
  IN  IF file \in 0..(board_size - 1) /\ rank \in 0..(board_size - 1)
      THEN pow2[rank * board_size + board_size - file - 1]
      ELSE 0

\* The shifts lead to the neighbouring square and to no square beyond the edge:
\* nothing wraps around to another rank or stays in the word.
StepsLeadToNeighbours ==
  /\ is_square(arg) <=> (Cardinality(SetOf(arg)) = 1)
  /\ is_square(arg) =>
       /\ north_of(arg) = Neighbour(arg, 0, 1)
       /\ south_of(arg) = Neighbour(arg, 0, -1)
       /\ east_of(arg) = Neighbour(arg, 1, 0)
       /\ west_of(arg) = Neighbour(arg, -1, 0)
       /\ northeast_of(arg) = Neighbour(arg, 1, 1)
       /\ northwest_of(arg) = Neighbour(arg, -1, 1)
       /\ southeast_of(arg) = Neighbour(arg, 1, -1)
       /\ southwest_of(arg) = Neighbour(arg, -1, -1)

\* Every loop ends: for any word, its one-bits run out.
LoopsEnd == <>(bb = 0)
=============================================================================
