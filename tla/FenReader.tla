----------------------------- MODULE FenReader -----------------------------
(***************************************************************************)
(* The constructor Board(fen) at work: one step per character of the       *)
(* placement, then the other fields.  The FENs it reads are written here   *)
(* from boards, as the notation is defined; the engine has no writer.      *)
(***************************************************************************)
EXTENDS Printing, Position

CONSTANT Boards    \* the boards whose FENs are read

ASSUME BoardsAssumption == \A b \in Boards : WellFormed(b)

VARIABLES
  written,    \* the board the FEN describes
  rest,       \* the characters of the placement still to be read
  scan,       \* bb, rank and file in init_bitboards
  read,       \* <<the finished board>>, or <<>>
  aborted     \* an ABSL_RAW_CHECK has failed

vars == <<written, rest, scan, read, aborted>>

-----------------------------------------------------------------------------
(* The FEN of a board, taken from its printed diagram and squares. *)

letter(cp) == CHOOSE c \in {"P", "R", "N", "B", "Q", "K", "p", "r", "n", "b", "q", "k"} :
                fen_piece(c) = cp

\* A row of the placement from each of its places on: letters, and the lengths of
\* the runs of blanks.
row_text(symbols) ==
  LET from[i \in 1..9] ==
        IF i = 9 THEN <<>>
        ELSE IF symbols[i] # blank THEN <<letter(symbols[i])>> \o from[i + 1]
        ELSE LET next == CHOOSE j \in (i + 1)..9 :
                           /\ \A k \in i..(j - 1) : symbols[k] = blank
                           /\ j = 9 \/ symbols[j] # blank
             IN  <<digits[next - i]>> \o from[next]
  IN  from

\* The rows from each of them on.
rows_text(rows) ==
  LET from[i \in 1..8] ==
        row_text(rows[i].symbols)[1] \o (IF i = 8 THEN <<>> ELSE <<"/">> \o from[i + 1])
  IN  from

placement(b) == rows_text(to_pretty_str(b).rows)[1]

side_text(b) == IF b.side_to_move = "white" THEN "w" ELSE "b"

castling_text(b) ==
  LET flag(r) == IF r \in b.castling THEN <<r>> ELSE <<>>
  IN  IF b.castling = {} THEN <<"-">> ELSE flag("K") \o flag("Q") \o flag("k") \o flag("q")

en_passant_text(b) ==
  IF b.en_passant_square_ = {} THEN <<"-">>
  ELSE square_to_str(CHOOSE sq \in b.en_passant_square_ : TRUE)

-----------------------------------------------------------------------------
Init ==
  /\ written \in Boards
  /\ rest = placement(written)
  /\ scan = scan_start
  /\ read = <<>>
  /\ aborted = FALSE

\* One turn of the loop of init_bitboards.
ReadCharacter ==
  /\ rest # <<>>
  /\ scan' = place(scan, Head(rest))
  /\ rest' = Tail(rest)
  /\ UNCHANGED <<written, read, aborted>>

\* init_is_whites_move, init_castling_rights, init_en_passant and the counters.
ReadOtherFields ==
  /\ rest = <<>> /\ read = <<>> /\ ~aborted
  /\ IF fields_checks(side_text(written), en_passant_text(written))
     THEN /\ read' = << with_fields(scan.bb, side_text(written), castling_text(written),
                                   en_passant_text(written), written.fifty_move_clock_,
                                   written.num_moves_) >>
          /\ UNCHANGED aborted
     ELSE aborted' = TRUE /\ UNCHANGED read
  /\ UNCHANGED <<written, rest, scan>>

Next == ReadCharacter \/ ReadOtherFields

Spec == Init /\ [][Next]_vars

-----------------------------------------------------------------------------
(* Properties. *)

\* The constructor, to_pretty_str and square_to_str agree on which bit is which
\* square and which word holds which piece: the FEN of a board passes the checks
\* and is read as that board, with its side to move, rights and e.p. square.  (Of
\* the counters this says nothing, they are handed over.)
ReadsBack == ~aborted /\ (read # <<>> => read = <<written>>)

\* The shift that makes square_mask stands before the switch and is carried out
\* for digits and slashes too, when the file may already be 8.  It is defined:
\* 0 <= rank * board_size + board_size - file - 1 < 64.
ShiftsAreDefined ==
  rest # <<>> => coordinates_to_square(scan.file, scan.rank) \in Square

\* Printed moves are two squares and nothing else.  In the list of a board that
\* names every move, except that it does not say what a pawn becomes.
NamesTellMovesApart ==
  read # <<>> =>
    \A m, n \in legal_moves(read[1]) :
      move_to_pretty_str(m) = move_to_pretty_str(n) =>
        m = n \/ {m.move_type_, n.move_type_} \subseteq promotion_move_types
=============================================================================
