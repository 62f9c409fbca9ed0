-------------------------- MODULE PerftMainProofs --------------------------
(***************************************************************************)
(* main() of perft.cc passes over no number of its table, whatever         *)
(* number_of_moves returns.                                                *)
(***************************************************************************)
EXTENDS PerftMain, TLAPS

-----------------------------------------------------------------------------
(* The table.  Its numbers are stored in an int; none but -1 becomes -1.    *)
(* (SMT is named wherever a large number is in sight: Zenon counts in       *)
(* unary.)                                                                  *)

Readable(n) == n # minus_one => ~no_info(int(n))

RowReadable(row) == \A k \in 1..8 : Readable(row[k])

\* Numbers below 2^31 are still what they were.
LEMMA SmallNumbers ==
  ASSUME NEW n \in Nat, n <= 2147483647
  PROVE  Readable(int64(n))
<1>1. n \div 65536 # 65535
  BY SMT
<1>2. int64(n)[2] # 65535
  BY <1>1, SMT DEF int64
<1>3. int(int64(n)) # int(minus_one)
  <2>1. int(minus_one)[1] = 65535
    BY SMT DEF int, minus_one
  <2>2. int(int64(n))[1] = int64(n)[2]
    BY SMT DEF int
  <2> QED BY <1>2, <2>1, <2>2, SMT
<1> QED BY <1>3, SMT DEF Readable, no_info

\* The four that are larger become other negative numbers, or lose their high
\* half; the unknown ones are -1.
LEMMA LargeNumbers ==
  /\ Readable(<<0, 48765, 38820>>)
  /\ Readable(<<1, 57017, 14277>>)
  /\ Readable(<<1, 40101, 24705>>)
  /\ Readable(<<66, 56780, 19130>>)
  /\ Readable(minus_one)
BY SMT DEF Readable, no_info, int, minus_one

LEMMA TableIsReadable ==
  ASSUME NEW i \in 0..6, NEW d \in 0..7
  PROVE  Readable(num_nodes[i + 1][d + 1])
<1>1. RowReadable(num_nodes[1])
  <2>1. num_nodes[1] =
          << int64(1), int64(20), int64(400), int64(8902), int64(197281),
             int64(4865609), int64(119060324), <<0, 48765, 38820>> >>
    BY SMT DEF num_nodes
  <2>2. /\ Readable(int64(1)) /\ Readable(int64(20)) /\ Readable(int64(400))
        /\ Readable(int64(8902)) /\ Readable(int64(197281)) /\ Readable(int64(4865609))
        /\ Readable(int64(119060324)) /\ Readable(<<0, 48765, 38820>>)
    BY SmallNumbers, LargeNumbers, SMT
  <2> QED BY <2>1, <2>2, SMT DEF RowReadable
<1>2. RowReadable(num_nodes[2])
  <2>1. num_nodes[2] =
          << int64(1), int64(48), int64(2039), int64(97862), int64(4085603),
             int64(193690690), <<1, 57017, 14277>>, minus_one >>
    BY SMT DEF num_nodes
  <2>2. /\ Readable(int64(1)) /\ Readable(int64(48)) /\ Readable(int64(2039))
        /\ Readable(int64(97862)) /\ Readable(int64(4085603)) /\ Readable(int64(193690690))
        /\ Readable(<<1, 57017, 14277>>) /\ Readable(minus_one)
    BY SmallNumbers, LargeNumbers, SMT
  <2> QED BY <2>1, <2>2, SMT DEF RowReadable
<1>3. RowReadable(num_nodes[3])
  <2>1. num_nodes[3] =
          << int64(1), int64(14), int64(191), int64(2812), int64(43238),
             int64(674624), int64(11030083), int64(178633661) >>
    BY SMT DEF num_nodes
  <2>2. /\ Readable(int64(1)) /\ Readable(int64(14)) /\ Readable(int64(191))
        /\ Readable(int64(2812)) /\ Readable(int64(43238)) /\ Readable(int64(674624))
        /\ Readable(int64(11030083)) /\ Readable(int64(178633661))
    BY SmallNumbers, LargeNumbers, SMT
  <2> QED BY <2>1, <2>2, SMT DEF RowReadable
<1>4. RowReadable(num_nodes[4])
  <2>1. num_nodes[4] =
          << int64(1), int64(6), int64(264), int64(9467), int64(422333),
             int64(15833292), int64(706045033), minus_one >>
    BY SMT DEF num_nodes
  <2>2. /\ Readable(int64(1)) /\ Readable(int64(6)) /\ Readable(int64(264))
        /\ Readable(int64(9467)) /\ Readable(int64(422333)) /\ Readable(int64(15833292))
        /\ Readable(int64(706045033)) /\ Readable(minus_one)
    BY SmallNumbers, LargeNumbers, SMT
  <2> QED BY <2>1, <2>2, SMT DEF RowReadable
<1>5. RowReadable(num_nodes[5])
  <2>1. num_nodes[5] =
          << int64(1), int64(44), int64(1486), int64(62379), int64(2103487),
             int64(89941194), minus_one, minus_one >>
    BY SMT DEF num_nodes
  <2>2. /\ Readable(int64(1)) /\ Readable(int64(44)) /\ Readable(int64(1486))
        /\ Readable(int64(62379)) /\ Readable(int64(2103487)) /\ Readable(int64(89941194))
        /\ Readable(minus_one)
    BY SmallNumbers, LargeNumbers, SMT
  <2> QED BY <2>1, <2>2, SMT DEF RowReadable
<1>6. RowReadable(num_nodes[6])
  <2>1. num_nodes[6] =
          << int64(1), int64(46), int64(2079), int64(89890), int64(3894594),
             int64(164075551), <<1, 40101, 24705>>, <<66, 56780, 19130>> >>
    BY SMT DEF num_nodes
  <2>2. /\ Readable(int64(1)) /\ Readable(int64(46)) /\ Readable(int64(2079))
        /\ Readable(int64(89890)) /\ Readable(int64(3894594)) /\ Readable(int64(164075551))
        /\ Readable(<<1, 40101, 24705>>) /\ Readable(<<66, 56780, 19130>>)
    BY SmallNumbers, LargeNumbers, SMT
  <2> QED BY <2>1, <2>2, SMT DEF RowReadable
<1>7. RowReadable(num_nodes[7])
  <2>1. num_nodes[7] =
          << int64(1), int64(24), int64(496), int64(9483), int64(182838),
             int64(3605103), int64(71179139), minus_one >>
    BY SMT DEF num_nodes
  <2>2. /\ Readable(int64(1)) /\ Readable(int64(24)) /\ Readable(int64(496))
        /\ Readable(int64(9483)) /\ Readable(int64(182838)) /\ Readable(int64(3605103))
        /\ Readable(int64(71179139)) /\ Readable(minus_one)
    BY SmallNumbers, LargeNumbers, SMT
  <2> QED BY <2>1, <2>2, SMT DEF RowReadable
<1>8. i + 1 \in 1..7 /\ d + 1 \in 1..8
  OBVIOUS
<1>9. \A n \in 1..7 : RowReadable(num_nodes[n])
  BY <1>1, <1>2, <1>3, <1>4, <1>5, <1>6, <1>7
<1> QED BY <1>8, <1>9 DEF RowReadable


-----------------------------------------------------------------------------
(* The loops. *)

Passed(i, d) == d < depth \/ (d = depth /\ i < board_idx)

Known(i, d) == num_nodes[i + 1][d + 1] # minus_one

\* NoEntryIsSkipped, with the bounds of the loops written out.
LEMMA SkippedMeans ==
  NoEntryIsSkipped <=>
    \A i \in 0..6, d \in 0..7 : Passed(i, d) /\ Known(i, d) => <<i, d>> \in compared
<1>1. num_boards - 1 = 6 /\ max_depth - 1 = 7
  BY DEF num_boards, max_depth
<1> QED BY <1>1, Zenon DEF NoEntryIsSkipped, Passed, Known

LEMMA SkippedMeansNext ==
  NoEntryIsSkipped' <=>
    \A i \in 0..6, d \in 0..7 : Passed(i, d)' /\ Known(i, d) => <<i, d>> \in compared'
<1>1. num_boards - 1 = 6 /\ max_depth - 1 = 7
  BY DEF num_boards, max_depth
<1> QED BY <1>1, Zenon DEF NoEntryIsSkipped, Passed, Known

Inv ==
  /\ depth \in 0..8 /\ board_idx \in 0..6
  /\ outcome = "counting" => depth \in 0..7
  /\ NoEntryIsSkipped

\* ++board_idx and ++depth together pass exactly one entry.
LEMMA AdvancePassesOne ==
  ASSUME depth \in 0..7, board_idx \in 0..6, outcome = "counting", Advance
  PROVE  /\ depth' \in 0..8 /\ board_idx' \in 0..6
         /\ outcome' = "counting" => depth' \in 0..7
         /\ \A i \in 0..6, d \in 0..7 :
              Passed(i, d)' => Passed(i, d) \/ (i = board_idx /\ d = depth)
  BY DEF Advance, num_boards, max_depth, Passed

\* The program passes over an entry only when it is -1, or after it has found it
\* right: for every value that number_of_moves could return.
THEOREM EveryEntryIsCompared == Spec => []NoEntryIsSkipped
<1>1. Init => Inv
  BY DEF Init, Inv, NoEntryIsSkipped
<1>2. Inv /\ [Next]_vars => Inv'
  <2> SUFFICES ASSUME Inv, [Next]_vars PROVE Inv'
    OBVIOUS
  <2>1. \A i \in 0..6, d \in 0..7 : Passed(i, d) /\ Known(i, d) => <<i, d>> \in compared
    BY SkippedMeans DEF Inv
  <2>2. ASSUME \A i \in 0..6, d \in 0..7 : Passed(i, d)' /\ Known(i, d) => <<i, d>> \in compared'
        PROVE  NoEntryIsSkipped'
    BY <2>2, SkippedMeansNext
  <2>3. CASE ReadEntry
    <3>1. outcome = "counting" /\ depth \in 0..7 /\ board_idx \in 0..6 /\ compared' = compared
      BY <2>3 DEF ReadEntry, Inv
    <3>2. CASE no_info(int(entry))
      <4>1. Advance
        BY <2>3, <3>2 DEF ReadEntry
      <4>2. ~Known(board_idx, depth)
        BY <3>1, <3>2, TableIsReadable DEF Readable, entry, Known
      <4>3. NoEntryIsSkipped'
        BY <2>1, <2>2, <3>1, <4>1, <4>2, AdvancePassesOne
      <4> QED BY <3>1, <4>1, <4>3, AdvancePassesOne DEF Inv
    <3>3. CASE ~no_info(int(entry))
      BY <2>3, <3>1, <3>3 DEF ReadEntry, Inv, NoEntryIsSkipped
    <3> QED BY <3>2, <3>3
  <2>4. CASE CountAndCompare
    <3>1. outcome = "counting" /\ depth \in 0..7 /\ board_idx \in 0..6
      BY <2>4 DEF CountAndCompare, Inv
    <3>2. CASE compared' = compared \cup {<<board_idx, depth>>} /\ Advance
      <4>1. NoEntryIsSkipped'
        BY <2>1, <2>2, <3>1, <3>2, AdvancePassesOne
      <4> QED BY <3>1, <3>2, <4>1, AdvancePassesOne DEF Inv
    <3>3. CASE outcome' = "incorrect" /\ UNCHANGED <<depth, board_idx, compared>>
      BY <3>3 DEF Inv, NoEntryIsSkipped
    <3> QED BY <2>4, <3>2, <3>3 DEF CountAndCompare
  <2>5. CASE UNCHANGED vars
    BY <2>5 DEF vars, Inv, NoEntryIsSkipped
  <2> QED BY <2>3, <2>4, <2>5 DEF Next
<1>3. Inv => NoEntryIsSkipped
  BY DEF Inv
<1> QED BY <1>1, <1>2, <1>3, PTL DEF Spec
=============================================================================
