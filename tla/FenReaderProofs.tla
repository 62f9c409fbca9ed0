-------------------------- MODULE FenReaderProofs --------------------------
(***************************************************************************)
(* The constructor reads back every well-formed board from its FEN.        *)
(***************************************************************************)
EXTENDS FenReader, PositionProofs, SequenceTheorems, WellFoundedInduction

\* Induction over numbers, in the form in which it is used here.
LEMMA LeastNumber ==
  ASSUME NEW T \in SUBSET Nat, T # {}
  PROVE  \E n \in T : \A k \in T : n <= k
<1> DEFINE R == OpToRel(<, Nat)
<1>1. IsWellFoundedOn(R, Nat)
  BY NatLessThanWellFounded, Zenon
<1>2. \E x \in T : \A y \in T : ~(<<y, x>> \in R)
  <2> HIDE DEF R
  <2> QED BY <1>1, WFMin
<1>3. ASSUME NEW x \in Nat, NEW y \in Nat, ~(y < x) PROVE x <= y
  BY <1>3
<1>4. ASSUME NEW x \in Nat, NEW y \in Nat, ~(<<y, x>> \in R) PROVE ~(y < x)
  BY <1>4, Zenon DEF OpToRel
<1> QED BY <1>2, <1>3, <1>4

-----------------------------------------------------------------------------
(* Characters. *)

Letters == {"P", "R", "N", "B", "Q", "K", "p", "r", "n", "b", "q", "k"}
Char    == Letters \cup {"1", "2", "3", "4", "5", "6", "7", "8"} \cup {"/"}

\* A digit moves the file by its value.
LEMMA DigitIsRead ==
  ASSUME NEW n \in 1..8
  PROVE  digits[n] \in Char /\ Contains(digits, digits[n]) /\ offset(digits, digits[n]) = n - 1
<1>1. digits[n] \in Char
  BY DEF digits, Char
<1>2. Contains(digits, digits[n])
  BY DEF digits, Contains
<1>3. \A k \in 1..8 : digits[k] = digits[n] => k = n
  BY DEF digits
<1>4. (CHOOSE k \in 1..8 : digits[k] = digits[n]) = n
  <2> HIDE DEF digits
  <2> QED BY <1>3
<1> QED BY <1>1, <1>2, <1>4 DEF offset

LEMMA OtherCharacters ==
  ~Contains(digits, "/") /\ \A c \in Letters : ~Contains(digits, c) /\ c # "/"
  BY DEF digits, Contains, Letters

\* A letter stands for its man.
LEMMA LetterIsRead ==
  ASSUME NEW cp \in Color \X Piece
  PROVE  letter(cp) \in Letters /\ fen_piece(letter(cp)) = cp
<1>1. \E c \in Letters : fen_piece(c) = cp
  <2>1. /\ fen_piece("P") = <<"white", "pawn">>   /\ fen_piece("p") = <<"black", "pawn">>
        /\ fen_piece("R") = <<"white", "rook">>   /\ fen_piece("r") = <<"black", "rook">>
        /\ fen_piece("N") = <<"white", "knight">> /\ fen_piece("n") = <<"black", "knight">>
        /\ fen_piece("B") = <<"white", "bishop">> /\ fen_piece("b") = <<"black", "bishop">>
        /\ fen_piece("Q") = <<"white", "queen">>  /\ fen_piece("q") = <<"black", "queen">>
        /\ fen_piece("K") = <<"white", "king">>   /\ fen_piece("k") = <<"black", "king">>
    BY DEF fen_piece
  <2>2. PICK c \in Color, p \in Piece : cp = <<c, p>>
    OBVIOUS
  <2> HIDE DEF fen_piece
  <2>3. CASE c = "white"
    BY <2>1, <2>2, <2>3 DEF Piece, Letters
  <2>4. CASE c = "black"
    BY <2>1, <2>2, <2>4 DEF Piece, Letters
  <2> QED BY <2>3, <2>4 DEF Color
<1> QED BY <1>1 DEF letter, Letters

-----------------------------------------------------------------------------
(* The diagram. *)

LEMMA AllAreTested ==
  /\ \A i \in 1..12 : tested[i] \in Color \X Piece
  /\ \A cp \in Color \X Piece : \E i \in 1..12 : tested[i] = cp
<1>1. \A i \in 1..12 : tested[i] \in Color \X Piece
  BY DEF tested, Color, Piece
<1>2. ASSUME NEW c \in Color, NEW p \in Piece
      PROVE  \E i \in 1..12 : tested[i] = <<c, p>>
  <2>1. CASE c = "white"
    BY <2>1 DEF tested, Piece
  <2>2. CASE c = "black"
    BY <2>2 DEF tested, Piece
  <2> QED BY <2>1, <2>2 DEF Color
<1> QED BY <1>1, <1>2

\* Of several numbers up to 12 one is the first.
LEMMA FirstOfTwelve ==
  ASSUME NEW T \in SUBSET (1..12), T # {}
  PROVE  \E i \in T : \A j \in 1..(i - 1) : j \notin T
<1>1. SUFFICES ASSUME \A i \in T : \E j \in 1..(i - 1) : j \in T PROVE FALSE
  OBVIOUS
<1> DEFINE None(n) == \A j \in 1..n : j \notin T
<1>2. None(0)
  OBVIOUS
<1>3. ASSUME NEW n \in 0..11, None(n) PROVE None(n + 1)
  BY <1>1, <1>3
<1> HIDE DEF None
<1>4. None(4)
  BY <1>2, <1>3
<1>5. None(8)
  BY <1>4, <1>3
<1>6. None(12)
  BY <1>5, <1>3
<1> QED BY <1>6 DEF None

\* The symbol shows the man on the square.
LEMMA SymbolShows ==
  ASSUME NEW b, b \in BoardType, NEW file, NEW rank
  PROVE  LET s  == occupiers_unicode_symbol(b, file, rank)
             sq == coordinates_to_square(file, rank)
         IN  \/ s = blank /\ \A cp \in Color \X Piece : sq \notin b.bb[cp]
             \/ s # blank /\ s \in Color \X Piece /\ sq \in b.bb[s]
<1> DEFINE sq == coordinates_to_square(file, rank)
           T == {i \in 1..12 : sq \in b.bb[tested[i]]}
           first == CHOOSE i \in 1..12 : sq \in b.bb[tested[i]] /\ \A j \in 1..(i - 1) : ~(sq \in b.bb[tested[j]])
           s == occupiers_unicode_symbol(b, file, rank)
<1>1. s = IF \E i \in 1..12 : sq \in b.bb[tested[i]] THEN tested[first] ELSE blank
  BY DEF occupiers_unicode_symbol
<1> HIDE DEF sq, s
<1>2. CASE T = {}
  <2>1. s = blank
    BY <1>1, <1>2
  <2>2. \A cp \in Color \X Piece : sq \notin b.bb[cp]
    BY <1>2, AllAreTested
  <2> QED BY <2>1, <2>2 DEF s, sq
<1>3. CASE T # {}
  <2>1. PICK i \in T : \A j \in 1..(i - 1) : j \notin T
    <3>1. T \in SUBSET (1..12)
      OBVIOUS
    <3> HIDE DEF T
    <3> QED BY <1>3, <3>1, FirstOfTwelve
  <2>2. \E k \in 1..12 : sq \in b.bb[tested[k]] /\ \A j \in 1..(k - 1) : ~(sq \in b.bb[tested[j]])
    <3>1. i \in 1..12 /\ sq \in b.bb[tested[i]]
      BY <2>1
    <3>2. \A j \in 1..(i - 1) : j \in 1..12
      BY <3>1
    <3>3. \A j \in 1..(i - 1) : ~(sq \in b.bb[tested[j]])
      BY <2>1, <3>2
    <3> QED BY <3>1, <3>3
  <2>3. first \in 1..12 /\ sq \in b.bb[tested[first]]
    BY <2>2
  <2> HIDE DEF first
  <2>4. s = tested[first]
    BY <1>1, <2>3
  <2>5. tested[first] \in Color \X Piece /\ tested[first] # blank
    <3>1. tested[first] \in Color \X Piece
      BY <2>3, AllAreTested
    <3> QED BY <3>1 DEF blank
  <2> QED BY <2>3, <2>4, <2>5 DEF s, sq
<1> QED BY <1>2, <1>3


-----------------------------------------------------------------------------
(* The text of a row. *)

Symbols == (Color \X Piece) \cup {blank}
Row     == [1..8 -> Symbols]

EndsRun(row, i, j) ==
  (\A k \in i..(j - 1) : row[k] = blank) /\ (j = 9 \/ row[j] # blank)

\* From the last place back to the first.
StepsBack(T) == 9 \in T /\ \A n \in 1..8 : n + 1 \in T => n \in T

LEMMA FromTheEnd ==
  ASSUME NEW T, StepsBack(T)
  PROVE  \A n \in 1..9 : n \in T
<1> DEFINE U == {k \in Nat : k <= 8 /\ 9 - k \notin T}
<1>1. SUFFICES ASSUME U # {} PROVE FALSE
  <2>1. ASSUME NEW n \in 1..9, n \notin T PROVE 9 - n \in U
    <3>1. 9 - n \in Nat /\ 9 - n <= 8 /\ 9 - (9 - n) = n
      OBVIOUS
    <3> QED BY <2>1, <3>1
  <2> HIDE DEF U
  <2> QED BY <2>1
<1>2. PICK k \in U : \A j \in U : k <= j
  <2>1. U \in SUBSET Nat
    OBVIOUS
  <2> HIDE DEF U
  <2> QED BY <1>1, <2>1, LeastNumber
<1>3. k \in Nat /\ k <= 8 /\ 9 - k \notin T
  BY <1>2
<1>4. k # 0
  <2>1. k = 0 => 9 - k = 9
    BY <1>3
  <2> QED BY <1>3, <2>1 DEF StepsBack
<1>5. k - 1 \in Nat /\ k - 1 <= 8 /\ ~(k <= k - 1) /\ 9 - (k - 1) = (9 - k) + 1 /\ 9 - k \in 1..8
  BY <1>3, <1>4
<1>6. 9 - (k - 1) \in T
  BY <1>2, <1>5
<1> QED BY <1>3, <1>5, <1>6 DEF StepsBack

\* A run of blanks ends in the row.
LEMMA RunEnds ==
  ASSUME NEW row \in Row, NEW i \in 1..8, row[i] = blank
  PROVE  \E j \in (i + 1)..9 : EndsRun(row, i, j)
<1> DEFINE Ends(n) == row[n] = blank => \E j \in (n + 1)..9 : EndsRun(row, n, j)
<1>1. Ends(8)
  BY DEF EndsRun
<1>2. ASSUME NEW n \in 1..7, Ends(n + 1) PROVE Ends(n)
  <2> SUFFICES ASSUME row[n] = blank PROVE \E j \in (n + 1)..9 : EndsRun(row, n, j)
    OBVIOUS
  <2>1. CASE row[n + 1] # blank
    <3>1. \A k \in n..((n + 1) - 1) : k = n
      OBVIOUS
    <3>2. EndsRun(row, n, n + 1) /\ n + 1 \in (n + 1)..9
      BY <2>1, <3>1 DEF EndsRun
    <3> QED BY <3>2
  <2>2. CASE row[n + 1] = blank
    <3>1. PICK j \in ((n + 1) + 1)..9 : EndsRun(row, n + 1, j)
      BY <1>2, <2>2
    <3>2. \A k \in n..(j - 1) : k = n \/ k \in (n + 1)..(j - 1)
      BY <3>1
    <3>3. EndsRun(row, n, j)
      BY <3>1, <3>2 DEF EndsRun
    <3>4. j \in (n + 1)..9
      BY <3>1
    <3> QED BY <3>3, <3>4
  <2> QED BY <2>1, <2>2
<1>3. Ends(i)
  <2> HIDE DEF Ends
  <2> QED BY <1>1, <1>2
<1> QED BY <1>3

NextMan(row, i) == CHOOSE j \in (i + 1)..9 : EndsRun(row, i, j)

LEMMA NextManEndsRun ==
  ASSUME NEW row \in Row, NEW i \in 1..8, row[i] = blank
  PROVE  NextMan(row, i) \in (i + 1)..9 /\ EndsRun(row, i, NextMan(row, i))
  BY RunEnds DEF NextMan

\* What the text from place i on is made of.
Goes(row, f, i) ==
  IF i = 9 THEN <<>>
  ELSE IF row[i] # blank THEN <<letter(row[i])>> \o f[i + 1]
  ELSE <<digits[NextMan(row, i) - i]>> \o f[NextMan(row, i)]

LEMMA GoesOnlyBack ==
  ASSUME NEW row \in Row, NEW i \in 1..9, NEW f, NEW g, \A j \in (i + 1)..9 : f[j] = g[j]
  PROVE  Goes(row, f, i) = Goes(row, g, i)
<1>1. CASE i = 9
  BY <1>1 DEF Goes
<1>2. CASE i # 9 /\ row[i] # blank
  <2>1. i + 1 \in (i + 1)..9
    BY <1>2
  <2>2. f[i + 1] = g[i + 1]
    BY <2>1
  <2> QED BY <1>2, <2>2, Zenon DEF Goes
<1>3. CASE i # 9 /\ row[i] = blank
  <2>1. NextMan(row, i) \in (i + 1)..9
    BY <1>3, NextManEndsRun
  <2>2. f[NextMan(row, i)] = g[NextMan(row, i)]
    BY <2>1
  <2> QED BY <1>3, <2>2, Zenon DEF Goes
<1> QED BY <1>1, <1>2, <1>3

\* The text of a row, place by place.
LEMMA RowEquation ==
  ASSUME NEW row \in Row
  PROVE  LET p == row_text(row)
         IN  /\ p[9] = <<>>
             /\ \A i \in 1..8 : row[i] # blank => p[i] = <<letter(row[i])>> \o p[i + 1]
             /\ \A i \in 1..8 : row[i] = blank =>
                  p[i] = <<digits[NextMan(row, i) - i]>> \o p[NextMan(row, i)]
<1> DEFINE Exists(n) == \E f : f = [i \in n..9 |-> Goes(row, f, i)]
           p == row_text(row)
<1>1. Exists(9)
  <2> DEFINE f == [i \in 9..9 |-> <<>>]
  <2>1. \A i \in 9..9 : Goes(row, f, i) = <<>>
    BY DEF Goes
  <2>2. f = [i \in 9..9 |-> Goes(row, f, i)]
    BY <2>1
  <2> HIDE DEF f
  <2> QED BY <2>2
<1>2. ASSUME NEW n \in 1..8, Exists(n + 1) PROVE Exists(n)
  <2>1. PICK f : f = [i \in (n + 1)..9 |-> Goes(row, f, i)]
    BY <1>2
  <2> DEFINE g == [i \in n..9 |-> Goes(row, f, i)]
  <2>2. ASSUME NEW i \in (n + 1)..9 PROVE f[i] = g[i]
    <3>1. i \in n..9
      OBVIOUS
    <3>2. f[i] = Goes(row, f, i) /\ g[i] = Goes(row, f, i)
      BY <2>1, <3>1
    <3> QED BY <3>2
  <2>3. ASSUME NEW i \in n..9 PROVE Goes(row, f, i) = Goes(row, g, i)
    <3> HIDE DEF g
    <3>1. i \in 1..9 /\ \A j \in (i + 1)..9 : j \in (n + 1)..9
      OBVIOUS
    <3>2. \A j \in (i + 1)..9 : f[j] = g[j]
      BY <2>2, <3>1
    <3> QED BY <3>1, <3>2, GoesOnlyBack
  <2>4. g = [i \in n..9 |-> Goes(row, g, i)]
    BY <2>3
  <2> HIDE DEF g
  <2> QED BY <2>4
<1>3. Exists(1)
  <2> DEFINE T == {n \in 1..9 : Exists(n)}
  <2> HIDE DEF Exists
  <2>1. ASSUME NEW n \in 1..8, n + 1 \in T PROVE n \in T
    BY <1>2, <2>1
  <2>2. 9 \in T
    BY <1>1
  <2>3. 1 \in T
    <3> HIDE DEF T
    <3>1. StepsBack(T)
      BY <2>1, <2>2 DEF StepsBack
    <3> QED BY <3>1, FromTheEnd
  <2> QED BY <2>3
<1>4. p = CHOOSE f : f = [i \in 1..9 |-> Goes(row, f, i)]
  BY Zenon DEF row_text, Goes, NextMan, EndsRun
<1> HIDE DEF p
<1>5. p = [i \in 1..9 |-> Goes(row, p, i)]
  BY <1>3, <1>4, Zenon
<1>6. \A i \in 1..9 : p[i] = Goes(row, p, i)
  BY <1>5
<1>7. 9 \in 1..9 /\ \A i \in 1..8 : i \in 1..9 /\ i # 9
  OBVIOUS
<1>8. /\ p[9] = <<>>
      /\ \A i \in 1..8 : row[i] # blank => p[i] = <<letter(row[i])>> \o p[i + 1]
      /\ \A i \in 1..8 : row[i] = blank =>
           p[i] = <<digits[NextMan(row, i) - i]>> \o p[NextMan(row, i)]
  BY <1>6, <1>7, Zenon DEF Goes
<1> QED BY <1>8 DEF p

LEMMA RowTextType ==
  ASSUME NEW row \in Row
  PROVE  \A i \in 1..9 : row_text(row)[i] \in Seq(Char)
<1> DEFINE p == row_text(row)
           T == {n \in 1..9 : \A i \in n..9 : p[i] \in Seq(Char)}
<1>1. /\ p[9] = <<>>
      /\ \A i \in 1..8 : row[i] # blank => p[i] = <<letter(row[i])>> \o p[i + 1]
      /\ \A i \in 1..8 : row[i] = blank =>
           p[i] = <<digits[NextMan(row, i) - i]>> \o p[NextMan(row, i)]
  BY RowEquation
<1> HIDE DEF p
<1>2. 9 \in T
  <2>1. \A i \in 9..9 : i = 9
    OBVIOUS
  <2>2. p[9] \in Seq(Char)
    BY <1>1
  <2> QED BY <2>1, <2>2
<1>3. ASSUME NEW n \in 1..8, n + 1 \in T PROVE n \in T
  <2>1. p[n] \in Seq(Char)
    <3>1. CASE row[n] # blank
      <4>1. row[n] \in Color \X Piece
        BY <3>1 DEF Row, Symbols
      <4>2. letter(row[n]) \in Char
        BY <4>1, LetterIsRead DEF Char
      <4>3. p[n] = <<letter(row[n])>> \o p[n + 1]
        BY <1>1, <3>1
      <4>4. n + 1 \in (n + 1)..9
        OBVIOUS
      <4>5. p[n + 1] \in Seq(Char)
        BY <1>3, <4>4
      <4> QED BY <4>2, <4>3, <4>5
    <3>2. CASE row[n] = blank
      <4>1. NextMan(row, n) \in (n + 1)..9
        BY <3>2, NextManEndsRun
      <4>2. digits[NextMan(row, n) - n] \in Char
        BY <4>1, DigitIsRead
      <4>3. p[n] = <<digits[NextMan(row, n) - n]>> \o p[NextMan(row, n)]
        BY <1>1, <3>2
      <4>4. p[NextMan(row, n)] \in Seq(Char)
        BY <4>1, <1>3
      <4> QED BY <4>2, <4>3, <4>4
    <3> QED BY <3>1, <3>2
  <2>2. \A i \in n..9 : i = n \/ i \in (n + 1)..9
    OBVIOUS
  <2> QED BY <1>3, <2>1, <2>2
<1>4. 1 \in T
  <2> HIDE DEF T
  <2>1. StepsBack(T)
    BY <1>2, <1>3 DEF StepsBack
  <2> QED BY <2>1, FromTheEnd
<1> QED BY <1>4 DEF p


-----------------------------------------------------------------------------
(* The text of all rows. *)

RowOf(b, i) == to_pretty_str(b).rows[i].symbols

LEMMA RowOfBoard ==
  ASSUME NEW b, b \in BoardType, NEW i \in 1..8
  PROVE  /\ RowOf(b, i) \in Row
         /\ \A j \in 1..8 : RowOf(b, i)[j] = occupiers_unicode_symbol(b, j - 1, 8 - i)
<1>1. RowOf(b, i) = [j \in 1..8 |-> occupiers_unicode_symbol(b, j - 1, 8 - i)]
  BY DEF RowOf, to_pretty_str, board_size
<1>2. ASSUME NEW j \in 1..8 PROVE occupiers_unicode_symbol(b, j - 1, 8 - i) \in Symbols
  BY SymbolShows, Zenon DEF Symbols
<1> HIDE DEF RowOf
<1> QED BY <1>1, <1>2 DEF Row

Texts(b) == rows_text(to_pretty_str(b).rows)

\* What comes after row i.
Below(b, i) == IF i = 8 THEN <<>> ELSE <<"/">> \o Texts(b)[i + 1]

LEMMA TextsEquation ==
  ASSUME NEW b, b \in BoardType
  PROVE  \A i \in 1..8 : Texts(b)[i] = row_text(RowOf(b, i))[1] \o Below(b, i)
<1> DEFINE First(i) == row_text(RowOf(b, i))[1]
           Body(f, i) == First(i) \o (IF i = 8 THEN <<>> ELSE <<"/">> \o f[i + 1])
           Exists(n) == \E f : f = [i \in n..8 |-> Body(f, i)]
           T == {n \in 1..9 : n = 9 \/ Exists(n)}
           p == Texts(b)
<1>1. ASSUME NEW n \in 1..8, n + 1 \in T PROVE n \in T
  <2>1. CASE n = 8
    <3> DEFINE f == [i \in 8..8 |-> First(i) \o <<>>]
    <3>1. f = [i \in 8..8 |-> Body(f, i)]
      <4> HIDE DEF First
      <4> QED OBVIOUS
    <3>2. Exists(8)
      <4> HIDE DEF f, Body
      <4> QED BY <3>1
    <3> HIDE DEF Exists
    <3> QED BY <2>1, <3>2
  <2>2. CASE n # 8
    <3>1. Exists(n + 1)
      <4> HIDE DEF Exists
      <4> QED BY <1>1, <2>2
    <3>2. PICK f : f = [i \in (n + 1)..8 |-> Body(f, i)]
      BY <3>1
    <3> DEFINE g == [i \in n..8 |-> Body(f, i)]
    <3>3. ASSUME NEW i \in (n + 1)..8 PROVE f[i] = g[i]
      <4> HIDE DEF Body
      <4>1. i \in n..8
        OBVIOUS
      <4> QED BY <3>2, <4>1
    <3>4. ASSUME NEW i \in n..8 PROVE Body(f, i) = Body(g, i)
      <4> HIDE DEF g, First
      <4>1. CASE i = 8 BY <4>1
      <4>2. CASE i # 8
        <5>1. i + 1 \in (n + 1)..8
          BY <4>2
        <5>2. f[i + 1] = g[i + 1]
          BY <3>3, <5>1
        <5> QED BY <5>2
      <4> QED BY <4>1, <4>2
    <3>5. g = [i \in n..8 |-> Body(g, i)]
      <4> HIDE DEF Body
      <4> QED BY <3>4
    <3>6. Exists(n)
      <4> HIDE DEF g, Body
      <4> QED BY <3>5
    <3> HIDE DEF Exists
    <3> QED BY <3>6
  <2> QED BY <2>1, <2>2
<1>2. Exists(1)
  <2> HIDE DEF Exists
  <2>1. 9 \in T
    OBVIOUS
  <2>2. 1 \in T
    <3> HIDE DEF T
    <3>1. StepsBack(T)
      BY <1>1, <2>1 DEF StepsBack
    <3> QED BY <3>1, FromTheEnd
  <2> QED BY <2>2
<1>3. p = CHOOSE f : f = [i \in 1..8 |-> Body(f, i)]
  BY Zenon DEF Texts, rows_text, RowOf
<1> HIDE DEF p, Body
<1>4. p = [i \in 1..8 |-> Body(p, i)]
  BY <1>2, <1>3, Zenon
<1>5. \A i \in 1..8 : p[i] = Body(p, i)
  BY <1>4
<1> QED BY <1>5, Zenon DEF p, Body, Below

LEMMA TextsType ==
  ASSUME NEW b, b \in BoardType
  PROVE  \A i \in 1..8 : Below(b, i) \in Seq(Char) /\ Texts(b)[i] \in Seq(Char)
<1> DEFINE T == {n \in 1..9 : n = 9 \/ (Below(b, n) \in Seq(Char) /\ Texts(b)[n] \in Seq(Char))}
<1>1. ASSUME NEW n \in 1..8, n + 1 \in T PROVE n \in T
  <2>1. Below(b, n) \in Seq(Char)
    <3>1. CASE n = 8
      BY <3>1 DEF Below
    <3>2. CASE n # 8
      <4>1. Texts(b)[n + 1] \in Seq(Char)
        BY <1>1, <3>2
      <4>2. "/" \in Char
        BY DEF Char
      <4> QED BY <3>2, <4>1, <4>2 DEF Below
    <3> QED BY <3>1, <3>2
  <2>2. row_text(RowOf(b, n))[1] \in Seq(Char)
    BY RowOfBoard, RowTextType
  <2>3. Texts(b)[n] = row_text(RowOf(b, n))[1] \o Below(b, n)
    BY TextsEquation
  <2>4. Texts(b)[n] \in Seq(Char)
    BY <2>1, <2>2, <2>3
  <2> QED BY <2>1, <2>4
<1>2. 9 \in T
  OBVIOUS
<1>3. \A n \in 1..9 : n \in T
  <2> HIDE DEF T
  <2>1. StepsBack(T)
    BY <1>1, <1>2 DEF StepsBack
  <2> QED BY <2>1, FromTheEnd
<1>4. ASSUME NEW i \in 1..8 PROVE Below(b, i) \in Seq(Char) /\ Texts(b)[i] \in Seq(Char)
  <2>1. i \in T /\ i # 9
    <3> HIDE DEF T
    <3> QED BY <1>3
  <2> QED BY <2>1
<1> QED BY <1>4

-----------------------------------------------------------------------------
(* The scan. *)

\* The squares that have been passed when the scan is at a rank and a file.
Passed(sq, rank, file) == rank_idx(sq) > rank \/ (rank_idx(sq) = rank /\ file_idx(sq) < file)

PassedMen(b, rank, file) ==
  [cp \in Color \X Piece |-> {sq \in b.bb[cp] : Passed(sq, rank, file)}]

Left(b, rank, file) == row_text(RowOf(b, 8 - rank))[file + 1] \o Below(b, 8 - rank)

Scans(s, text, b) ==
  /\ s.rank \in 0..7 /\ s.file \in 0..8
  /\ s = [bb |-> PassedMen(b, s.rank, s.file), rank |-> s.rank, file |-> s.file]
  /\ text = Left(b, s.rank, s.file)

\* One character and what follows it.
LEMMA FirstCharacter ==
  ASSUME NEW c \in Char, NEW s \in Seq(Char), NEW t \in Seq(Char)
  PROVE  LET u == (<<c>> \o s) \o t
         IN  u # <<>> /\ Head(u) = c /\ Tail(u) = s \o t
<1> DEFINE u == (<<c>> \o s) \o t
<1>1. <<c>> \o s \in Seq(Char) /\ Len(<<c>> \o s) = Len(s) + 1 /\ (<<c>> \o s)[1] = c
  OBVIOUS
<1>2. u \in Seq(Char) /\ Len(u) = Len(s) + 1 + Len(t) /\ u[1] = c
  BY <1>1
<1>3. \A i \in 1..(Len(s) + Len(t)) : u[i + 1] = (s \o t)[i]
  OBVIOUS
<1>4. Len(s \o t) = Len(s) + Len(t) /\ s \o t \in Seq(Char)
  OBVIOUS
<1> HIDE DEF u
<1>5. u # <<>> /\ Head(u) = c /\ Tail(u) \in Seq(Char) /\ Len(Tail(u)) = Len(s) + Len(t)
  BY <1>2
<1>6. \A i \in 1..(Len(s) + Len(t)) : Tail(u)[i] = u[i + 1]
  BY <1>2
<1>7. Tail(u) = s \o t
  <2> DEFINE v == Tail(u)
             w == s \o t
             n == Len(s) + Len(t)
  <2>1. v \in Seq(Char) /\ w \in Seq(Char) /\ Len(v) = n /\ Len(w) = n
    BY <1>4, <1>5
  <2>2. \A i \in 1..n : v[i] = w[i]
    BY <1>3, <1>6
  <2> HIDE DEF v, w, n
  <2>3. v = w
    BY <2>1, <2>2, SeqEqual
  <2> QED BY <2>3 DEF v, w
<1> QED BY <1>5, <1>7 DEF u


\* Where the scan stands is a square of the board, except at the end of a row.
LEMMA ScanSquare ==
  ASSUME NEW rank \in 0..7, NEW file \in 0..7
  PROVE  LET sq == coordinates_to_square(file, rank)
         IN  sq \in Square /\ rank_idx(sq) = rank /\ file_idx(sq) = file
  BY Coordinates

LEMMA OneSquareThere ==
  ASSUME NEW sq \in Square
  PROVE  /\ rank_idx(sq) \in 0..7 /\ file_idx(sq) \in 0..7
         /\ sq = coordinates_to_square(file_idx(sq), rank_idx(sq))
  BY Coordinates


LEMMA StartScans ==
  ASSUME NEW b, b \in BoardType
  PROVE  Scans(scan_start, placement(b), b)
<1>1. scan_start = [bb |-> zero_all_bitboards, rank |-> 7, file |-> 0]
  BY DEF scan_start, board_size
<1>2. zero_all_bitboards = PassedMen(b, 7, 0)
  <2>1. ASSUME NEW cp \in Color \X Piece, NEW sq \in b.bb[cp] PROVE ~Passed(sq, 7, 0)
    <3>1. sq \in Square
      BY <2>1 DEF BoardType, BitboardArray, Bitboard
    <3> QED BY <3>1, OneSquareThere DEF Passed
  <2> QED BY <2>1 DEF zero_all_bitboards, PassedMen
<1>3. placement(b) = Left(b, 7, 0)
  <2>1. Texts(b)[1] = row_text(RowOf(b, 1))[1] \o Below(b, 1)
    BY TextsEquation
  <2>2. 8 - 7 = 1 /\ 0 + 1 = 1
    OBVIOUS
  <2> QED BY <2>1, <2>2, Zenon DEF placement, Texts, Left
<1>4. scan_start.rank = 7 /\ scan_start.file = 0
  BY <1>1
<1> QED BY <1>1, <1>2, <1>3, <1>4 DEF Scans

\* A character that stands in front.
LEMMA InFront ==
  ASSUME NEW c \in Char, NEW s \in Seq(Char)
  PROVE  LET u == <<c>> \o s
         IN  u # <<>> /\ Head(u) = c /\ Tail(u) = s
<1> DEFINE e == <<>>
           v == <<c>> \o s
<1>1. e \in Seq(Char) /\ v \in Seq(Char) /\ v \o e = v /\ s \o e = s
  BY ConcatEmptySeq
<1>2. v \o e # <<>> /\ Head(v \o e) = c /\ Tail(v \o e) = s \o e
  BY <1>1, FirstCharacter
<1> QED BY <1>1, <1>2

\* The text that is left, in the three situations of the scan.
LEMMA LeftAtTheEnd ==
  ASSUME NEW b, b \in BoardType, NEW rank \in 0..7
  PROVE  /\ rank = 0 => Left(b, rank, 8) = <<>>
         /\ rank # 0 => /\ Left(b, rank, 8) # <<>> /\ Head(Left(b, rank, 8)) = "/"
                        /\ Tail(Left(b, rank, 8)) = Left(b, rank - 1, 0)
<1> DEFINE i == 8 - rank
<1>1. i \in 1..8 /\ 8 + 1 = 9 /\ 0 + 1 = 1
  OBVIOUS
<1>2. row_text(RowOf(b, i))[9] = <<>> /\ Below(b, i) \in Seq(Char)
  BY <1>1, RowOfBoard, RowEquation, TextsType
<1>3. Left(b, rank, 8) = Below(b, i)
  BY <1>1, <1>2, ConcatEmptySeq DEF Left
<1>4. CASE rank = 0
  <2>1. i = 8
    BY <1>4
  <2> QED BY <1>3, <1>4, <2>1 DEF Below
<1>5. CASE rank # 0
  <2>1. i # 8 /\ i + 1 \in 1..8 /\ 8 - (rank - 1) = i + 1
    BY <1>5
  <2> HIDE DEF i
  <2>2. Below(b, i) = <<"/">> \o Texts(b)[i + 1]
    BY <2>1 DEF Below
  <2>3. Texts(b)[i + 1] \in Seq(Char) /\ "/" \in Char
    BY <2>1, TextsType DEF Char
  <2>4. Below(b, i) # <<>> /\ Head(Below(b, i)) = "/" /\ Tail(Below(b, i)) = Texts(b)[i + 1]
    BY <2>2, <2>3, InFront
  <2>5. Texts(b)[i + 1] = row_text(RowOf(b, i + 1))[1] \o Below(b, i + 1)
    BY <2>1, TextsEquation
  <2>6. Left(b, rank - 1, 0) = row_text(RowOf(b, i + 1))[1] \o Below(b, i + 1)
    BY <1>1, <2>1, Zenon DEF Left
  <2> QED BY <1>3, <1>5, <2>4, <2>5, <2>6
<1> QED BY <1>4, <1>5

LEMMA LeftInARow ==
  ASSUME NEW b, b \in BoardType, NEW rank \in 0..7, NEW file \in 0..7
  PROVE  LET row == RowOf(b, 8 - rank)
             c   == row[file + 1]
             far == NextMan(row, file + 1) - (file + 1)
         IN  /\ Left(b, rank, file) # <<>>
             /\ c # blank => /\ Head(Left(b, rank, file)) = letter(c)
                             /\ Tail(Left(b, rank, file)) = Left(b, rank, file + 1)
             /\ c = blank => /\ Head(Left(b, rank, file)) = digits[far]
                             /\ Tail(Left(b, rank, file)) = Left(b, rank, file + far)
<1> DEFINE i == 8 - rank
           j == file + 1
           row == RowOf(b, i)
           far == NextMan(row, j) - j
           p == row_text(row)
<1>1. i \in 1..8 /\ j \in 1..8 /\ j + 1 \in 1..9
  OBVIOUS
<1>2. row \in Row /\ Below(b, i) \in Seq(Char)
  BY <1>1, RowOfBoard, TextsType
<1>3. \A n \in 1..9 : p[n] \in Seq(Char)
  BY <1>2, RowTextType
<1>4. Left(b, rank, file) = p[j] \o Below(b, i)
  BY DEF Left
<1> HIDE DEF row, p, i
<1>5. CASE row[j] # blank
  <2>1. p[j] = <<letter(row[j])>> \o p[j + 1]
    BY <1>1, <1>2, <1>5, RowEquation DEF p
  <2>2. row[j] \in Color \X Piece
    BY <1>1, <1>2, <1>5 DEF Row, Symbols
  <2>3. letter(row[j]) \in Char
    BY <2>2, LetterIsRead DEF Char
  <2>4. /\ Left(b, rank, file) # <<>> /\ Head(Left(b, rank, file)) = letter(row[j])
        /\ Tail(Left(b, rank, file)) = p[j + 1] \o Below(b, i)
    <3>1. p[j + 1] \in Seq(Char)
      BY <1>1, <1>3
    <3> DEFINE c == letter(row[j])
               r == p[j + 1]
               t == Below(b, i)
               u == (<<c>> \o r) \o t
    <3>2. c \in Char /\ r \in Seq(Char) /\ t \in Seq(Char) /\ Left(b, rank, file) = u
      BY <1>2, <1>4, <2>1, <2>3, <3>1
    <3> HIDE DEF c, r, t
    <3>3. u # <<>> /\ Head(u) = c /\ Tail(u) = r \o t
      BY <3>2, FirstCharacter
    <3> HIDE DEF u
    <3> QED BY <3>2, <3>3 DEF c, r, t
  <2>5. Left(b, rank, file + 1) = p[j + 1] \o Below(b, i)
    BY Zenon DEF Left, p, row, i
  <2> QED BY <1>5, <2>4, <2>5 DEF row, i
<1>6. CASE row[j] = blank
  <2>1. p[j] = <<digits[far]>> \o p[NextMan(row, j)]
    BY <1>1, <1>2, <1>6, RowEquation DEF p
  <2>2. NextMan(row, j) \in (j + 1)..9
    BY <1>1, <1>2, <1>6, NextManEndsRun
  <2>3. far \in 1..8 /\ (file + far) + 1 = NextMan(row, j) /\ NextMan(row, j) \in 1..9
    BY <1>1, <2>2
  <2>4. digits[far] \in Char
    BY <2>3, DigitIsRead
  <2>5. /\ Left(b, rank, file) # <<>> /\ Head(Left(b, rank, file)) = digits[far]
        /\ Tail(Left(b, rank, file)) = p[NextMan(row, j)] \o Below(b, i)
    <3>1. p[NextMan(row, j)] \in Seq(Char)
      BY <2>3, <1>3
    <3> DEFINE c == digits[far]
               r == p[NextMan(row, j)]
               t == Below(b, i)
               u == (<<c>> \o r) \o t
    <3>2. c \in Char /\ r \in Seq(Char) /\ t \in Seq(Char) /\ Left(b, rank, file) = u
      BY <1>2, <1>4, <2>1, <2>4, <3>1
    <3> HIDE DEF c, r, t
    <3>3. u # <<>> /\ Head(u) = c /\ Tail(u) = r \o t
      BY <3>2, FirstCharacter
    <3> HIDE DEF u
    <3> QED BY <3>2, <3>3 DEF c, r, t
  <2>6. Left(b, rank, file + far) = p[NextMan(row, j)] \o Below(b, i)
    BY <2>3, Zenon DEF Left, p, row, i
  <2> QED BY <1>6, <2>5, <2>6 DEF row, i
<1> QED BY <1>5, <1>6


-----------------------------------------------------------------------------
(* One turn of the loop. *)

LEMMA PlaceSlash ==
  ASSUME NEW s
  PROVE  place(s, "/") = [s EXCEPT !.rank = @ - 1, !.file = 0]
<1>1. ~Contains(digits, "/")
  BY OtherCharacters
<1> QED BY <1>1, Zenon DEF place

LEMMA PlaceDigit ==
  ASSUME NEW s, NEW n \in 1..8
  PROVE  place(s, digits[n]) = [s EXCEPT !.file = @ + offset(digits, digits[n]) + 1]
<1>1. Contains(digits, digits[n])
  BY DigitIsRead
<1>2. digits[n] # "/"
  BY <1>1, OtherCharacters
<1> QED BY <1>1, <1>2, Zenon DEF place

LEMMA PlaceLetter ==
  ASSUME NEW s, NEW cp \in Color \X Piece
  PROVE  place(s, letter(cp)) =
           [s EXCEPT !.bb[cp] = @ \cup {coordinates_to_square(s.file, s.rank)},
                     !.file = @ + 1]
<1> DEFINE c == letter(cp)
<1>1. c \in Letters /\ fen_piece(c) = cp
  BY LetterIsRead
<1> HIDE DEF c
<1>2. ~Contains(digits, c) /\ c # "/"
  BY <1>1, OtherCharacters
<1>3. place(s, c) =
        [s EXCEPT !.bb[fen_piece(c)] = @ \cup {coordinates_to_square(s.file, s.rank)},
                  !.file = @ + 1]
  BY <1>2 DEF place
<1> QED BY <1>1, <1>3 DEF c

\* The scan is a record of three values.
IsScan(s, bb, r, f) == s = [bb |-> bb, rank |-> r, file |-> f]

LEMMA ScanAfterSlash ==
  ASSUME NEW bb, NEW r, NEW f, NEW s, IsScan(s, bb, r, f)
  PROVE  [s EXCEPT !.rank = @ - 1, !.file = 0] = [bb |-> bb, rank |-> r - 1, file |-> 0]
<1> DEFINE t == [s EXCEPT !.rank = @ - 1]
           u == [t EXCEPT !.file = 0]
<1>1. t = [bb |-> bb, rank |-> r - 1, file |-> f]
  BY DEF IsScan
<1>2. u = [bb |-> bb, rank |-> r - 1, file |-> 0]
  <2> HIDE DEF t
  <2> QED BY <1>1
<1>3. u = [s EXCEPT !.rank = @ - 1, !.file = 0]
  OBVIOUS
<1> QED BY <1>2, <1>3

AddMan(bb, cp, sq)  == [bb EXCEPT ![cp] = @ \cup {sq}]
ScanMan(s, cp, sq)  == [s EXCEPT !.bb[cp] = @ \cup {sq}, !.file = @ + 1]

LEMMA ScanAfterLetter ==
  ASSUME NEW bb, NEW r, NEW f, NEW cp, NEW sq, NEW s, IsScan(s, bb, r, f)
  PROVE  IsScan(ScanMan(s, cp, sq), AddMan(bb, cp, sq), r, f + 1)
<1> DEFINE t == [s EXCEPT !.bb[cp] = @ \cup {sq}]
           u == [t EXCEPT !.file = @ + 1]
<1>1. t = [bb |-> [bb EXCEPT ![cp] = @ \cup {sq}], rank |-> r, file |-> f]
  BY DEF IsScan
<1>2. u = [bb |-> [bb EXCEPT ![cp] = @ \cup {sq}], rank |-> r, file |-> f + 1]
  <2> HIDE DEF t
  <2> QED BY <1>1
<1>3. u = [s EXCEPT !.bb[cp] = @ \cup {sq}, !.file = @ + 1]
  OBVIOUS
<1> HIDE DEF u
<1> QED BY <1>2, <1>3 DEF IsScan, ScanMan, AddMan

\* Each character keeps the scan in step with the board.
LEMMA CharacterKeepsScan ==
  ASSUME NEW b, b \in BoardType, Disjoint(b.bb), NEW s, NEW text, Scans(s, text, b), text # <<>>
  PROVE  /\ Scans(place(s, Head(text)), Tail(text), b)
         /\ coordinates_to_square(s.file, s.rank) \in Square
<1> DEFINE rank == s.rank
           file == s.file
           men  == PassedMen(b, rank, file)
<1>1. /\ rank \in 0..7 /\ file \in 0..8 /\ text = Left(b, rank, file)
      /\ s = [bb |-> men, rank |-> rank, file |-> file]
  BY DEF Scans
<1> HIDE DEF rank, file, men
<1>2. \A cp \in Color \X Piece : b.bb[cp] \in SUBSET Square
  BY DEF BoardType, BitboardArray, Bitboard
<1>3. CASE file = 8
  <2>1. rank # 0 /\ Head(text) = "/" /\ Tail(text) = Left(b, rank - 1, 0)
    BY <1>1, <1>3, LeftAtTheEnd
  <2>2. place(s, "/") = [bb |-> men, rank |-> rank - 1, file |-> 0]
    <3>1. place(s, "/") = [s EXCEPT !.rank = @ - 1, !.file = 0]
      BY PlaceSlash
    <3>2. [s EXCEPT !.rank = @ - 1, !.file = 0] = [bb |-> men, rank |-> rank - 1, file |-> 0]
      <4>1. IsScan(s, men, rank, file)
        BY <1>1 DEF IsScan
      <4> QED BY <4>1, ScanAfterSlash
    <3> QED BY <3>1, <3>2
  <2>3. men = PassedMen(b, rank - 1, 0)
    <3>1. ASSUME NEW sq \in Square PROVE Passed(sq, rank, 8) <=> Passed(sq, rank - 1, 0)
      BY <1>1, <2>1, OneSquareThere DEF Passed
    <3>2. \A cp \in Color \X Piece :
            {sq \in b.bb[cp] : Passed(sq, rank, 8)} = {sq \in b.bb[cp] : Passed(sq, rank - 1, 0)}
      BY <1>2, <3>1
    <3> QED BY <1>3, <3>2 DEF men, PassedMen
  <2>4. coordinates_to_square(file, rank) \in Square
    BY <1>1, <1>3, <2>1 DEF coordinates_to_square, Square, board_size
  <2>5. rank - 1 \in 0..7
    BY <1>1, <2>1
  <2> QED BY <2>1, <2>2, <2>3, <2>4, <2>5 DEF Scans, rank, file
<1>4. CASE file # 8
  <2> DEFINE row == RowOf(b, 8 - rank)
             c   == row[file + 1]
             far == NextMan(row, file + 1) - (file + 1)
             at1 == coordinates_to_square(file, rank)
  <2>1. file \in 0..7 /\ file + 1 \in 1..8 /\ 8 - rank \in 1..8
    BY <1>1, <1>4
  <2>2. at1 \in Square /\ rank_idx(at1) = rank /\ file_idx(at1) = file
    BY <1>1, <2>1, ScanSquare
  <2>3. /\ c # blank => Head(text) = letter(c) /\ Tail(text) = Left(b, rank, file + 1)
        /\ c = blank => Head(text) = digits[far] /\ Tail(text) = Left(b, rank, file + far)
    BY <1>1, <2>1, LeftInARow
  <2>4. row \in Row /\ \A j \in 1..8 : row[j] = occupiers_unicode_symbol(b, j - 1, rank)
    <3>1. 8 - (8 - rank) = rank
      BY <1>1
    <3> QED BY <2>1, <3>1, RowOfBoard
  <2>5. ASSUME NEW sq \in Square, NEW f \in (file + 1)..8
        PROVE  /\ Passed(sq, rank, file) => Passed(sq, rank, f)
               /\ Passed(sq, rank, f) => \/ Passed(sq, rank, file)
                                         \/ rank_idx(sq) = rank /\ file_idx(sq) \in file..(f - 1)
    BY <1>1, <2>1, OneSquareThere DEF Passed
  <2> HIDE DEF row
  <2>6. CASE c # blank
    <3>1. c = occupiers_unicode_symbol(b, file, rank)
      <4>1. (file + 1) - 1 = file
        BY <2>1
      <4> QED BY <2>1, <2>4, <4>1
    <3>2. c \in Color \X Piece /\ at1 \in b.bb[c]
      BY <2>6, <3>1, SymbolShows
    <3> HIDE DEF c
    <3>3. place(s, letter(c)) = [bb |-> [men EXCEPT ![c] = @ \cup {at1}], rank |-> rank, file |-> file + 1]
      <4>1. at1 = coordinates_to_square(s.file, s.rank)
        BY DEF file, rank
      <4>2. place(s, letter(c)) =
              [s EXCEPT !.bb[c] = @ \cup {coordinates_to_square(s.file, s.rank)},
                        !.file = @ + 1]
        BY <3>2, PlaceLetter
      <4> HIDE DEF at1
      <4>3. place(s, letter(c)) = [s EXCEPT !.bb[c] = @ \cup {at1}, !.file = @ + 1]
        BY <4>1, <4>2
      <4>4. [s EXCEPT !.bb[c] = @ \cup {at1}, !.file = @ + 1] =
              [bb |-> [men EXCEPT ![c] = @ \cup {at1}], rank |-> rank, file |-> file + 1]
        <5>1. IsScan(s, men, rank, file)
          BY <1>1 DEF IsScan
        <5>2. IsScan(ScanMan(s, c, at1), AddMan(men, c, at1), rank, file + 1)
          BY <5>1, ScanAfterLetter
        <5> QED BY <5>2, Zenon DEF IsScan, ScanMan, AddMan
      <4> QED BY <4>3, <4>4
    <3>4. [men EXCEPT ![c] = @ \cup {at1}] = PassedMen(b, rank, file + 1)
      <4>1. file + 1 \in (file + 1)..8
        BY <2>1
      <4>2. ASSUME NEW sq \in Square
            PROVE  Passed(sq, rank, file + 1) <=> Passed(sq, rank, file) \/ sq = at1
        <5>1. rank_idx(sq) = rank /\ file_idx(sq) \in file..((file + 1) - 1) => sq = at1
          <6>1. file_idx(sq) \in file..((file + 1) - 1) => file_idx(sq) = file
            BY <2>1, OneSquareThere
          <6> QED BY <6>1, OneSquareThere
        <5>2. Passed(at1, rank, file + 1)
          BY <1>1, <2>1, <2>2 DEF Passed
        <5> QED BY <2>5, <4>1, <5>1, <5>2
      <4>3. ASSUME NEW cp \in Color \X Piece
            PROVE  {sq \in b.bb[cp] : Passed(sq, rank, file + 1)} =
                   IF cp = c THEN {sq \in b.bb[cp] : Passed(sq, rank, file)} \cup {at1}
                   ELSE {sq \in b.bb[cp] : Passed(sq, rank, file)}
        <5>1. CASE cp = c
          BY <1>2, <3>2, <4>2, <5>1
        <5>2. CASE cp # c
          <6>1. at1 \notin b.bb[cp]
            BY <3>2, <5>2 DEF Disjoint
          <6> QED BY <1>2, <4>2, <5>2, <6>1
        <5> QED BY <5>1, <5>2
      <4> HIDE DEF at1
      <4> QED BY <3>2, <4>3 DEF men, PassedMen
    <3>5. file + 1 \in 0..8
      BY <2>1
    <3>6. /\ place(s, Head(text)) =
              [bb |-> PassedMen(b, rank, file + 1), rank |-> rank, file |-> file + 1]
          /\ Tail(text) = Left(b, rank, file + 1)
      <4> HIDE DEF at1
      <4> QED BY <2>3, <2>6, <3>3, <3>4
    <3>7. Scans(place(s, Head(text)), Tail(text), b)
      <4> HIDE DEF at1
      <4> QED BY <1>1, <3>5, <3>6 DEF Scans
    <3> QED BY <2>2, <3>7 DEF rank, file
  <2>7. CASE c = blank
    <3> HIDE DEF at1
    <3>1. NextMan(row, file + 1) \in ((file + 1) + 1)..9 /\ EndsRun(row, file + 1, NextMan(row, file + 1))
      BY <2>1, <2>4, <2>7, NextManEndsRun
    <3>2. far \in 1..8 /\ file + far \in (file + 1)..8 /\ NextMan(row, file + 1) = (file + far) + 1
      <4> DEFINE g == NextMan(row, file + 1)
      <4>1. g \in ((file + 1) + 1)..9
        BY <3>1
      <4> HIDE DEF g
      <4>2. g - (file + 1) \in 1..8 /\ file + (g - (file + 1)) \in (file + 1)..8
            /\ g = (file + (g - (file + 1))) + 1
        BY <2>1, <4>1
      <4> QED BY <4>2 DEF g
    <3> HIDE DEF far
    <3>3. place(s, digits[far]) = [bb |-> men, rank |-> rank, file |-> file + far]
      <4>1. offset(digits, digits[far]) = far - 1
        BY <3>2, DigitIsRead
      <4>2. file + (far - 1) + 1 = file + far
        BY <2>1, <3>2
      <4>3. place(s, digits[far]) = [s EXCEPT !.file = @ + offset(digits, digits[far]) + 1]
        BY <3>2, PlaceDigit
      <4> QED BY <1>1, <4>1, <4>2, <4>3
    <3>4. men = PassedMen(b, rank, file + far)
      <4>1. ASSUME NEW cp \in Color \X Piece, NEW sq \in b.bb[cp], rank_idx(sq) = rank,
                   file_idx(sq) \in file..((file + far) - 1)
            PROVE  FALSE
        <5> DEFINE k == file_idx(sq) + 1
        <5>1. sq \in Square
          BY <1>2, <4>1
        <5>2. k \in 1..8 /\ k \in (file + 1)..(NextMan(row, file + 1) - 1) /\ k - 1 = file_idx(sq)
          BY <2>1, <3>2, <4>1, <5>1, OneSquareThere
        <5>3. row[k] = blank
          BY <3>1, <5>2 DEF EndsRun
        <5>4. occupiers_unicode_symbol(b, file_idx(sq), rank) = blank
          BY <2>4, <5>2, <5>3
        <5>5. coordinates_to_square(file_idx(sq), rank) = sq
          BY <4>1, <5>1, OneSquareThere
        <5> QED BY <5>4, <5>5, <4>1, SymbolShows
      <4>2. ASSUME NEW cp \in Color \X Piece
            PROVE  {sq \in b.bb[cp] : Passed(sq, rank, file)} =
                   {sq \in b.bb[cp] : Passed(sq, rank, file + far)}
        BY <1>2, <2>5, <3>2, <4>1
      <4> QED BY <4>2 DEF men, PassedMen
    <3>5. file + far \in 0..8
      BY <2>1, <3>2
    <3> QED BY <1>1, <2>2, <2>3, <2>7, <3>3, <3>4, <3>5 DEF Scans, rank, file, at1
  <2> QED BY <2>6, <2>7
<1> QED BY <1>3, <1>4


-----------------------------------------------------------------------------
(* The other fields. *)

LEMMA SideIsRead ==
  ASSUME NEW b, b \in BoardType
  PROVE  /\ init_is_whites_move(side_text(b)) = b.side_to_move
         /\ init_is_whites_move_checks(side_text(b))
  BY DEF init_is_whites_move, init_is_whites_move_checks, side_text, BoardType, Color

LEMMA ContainsConcat ==
  ASSUME NEW s \in Seq(Right), NEW t \in Seq(Right), NEW r
  PROVE  s \o t \in Seq(Right) /\ (Contains(s \o t, r) <=> Contains(s, r) \/ Contains(t, r))
<1>1. s \o t \in Seq(Right) /\ Len(s \o t) = Len(s) + Len(t) /\ Len(s) \in Nat /\ Len(t) \in Nat
  BY ConcatProperties, LenProperties
<1>2. \A i \in 1..Len(s) : i \in 1..Len(s \o t) /\ (s \o t)[i] = s[i]
  BY <1>1, ConcatProperties
<1>3. \A i \in 1..Len(t) : Len(s) + i \in 1..Len(s \o t) /\ (s \o t)[Len(s) + i] = t[i]
  <2> SUFFICES ASSUME NEW i \in 1..Len(t)
               PROVE  Len(s) + i \in 1..Len(s \o t) /\ (s \o t)[Len(s) + i] = t[i]
    OBVIOUS
  <2>1. Len(s) + i \in 1..(Len(s) + Len(t)) /\ ~(Len(s) + i <= Len(s)) /\ (Len(s) + i) - Len(s) = i
    BY <1>1
  <2> QED BY <1>1, <2>1, ConcatProperties
<1>4. ASSUME NEW i \in 1..Len(s \o t)
      PROVE  i \in 1..Len(s) \/ \E j \in 1..Len(t) : i = Len(s) + j
  <2>1. i \in 1..Len(s) \/ (i - Len(s) \in 1..Len(t) /\ i = Len(s) + (i - Len(s)))
    BY <1>1
  <2> QED BY <2>1
<1> QED BY <1>1, <1>2, <1>3, <1>4 DEF Contains

LEMMA CastlingIsRead ==
  ASSUME NEW b, b \in BoardType
  PROVE  init_castling_rights(castling_text(b)) = b.castling
<1>1. b.castling \in SUBSET Right
  BY DEF BoardType
<1>2. CASE b.castling = {}
  <2>1. castling_text(b) = <<"-">>
    BY <1>2 DEF castling_text
  <2>2. \A r \in Right : ~Contains(<<"-">>, r)
    BY DEF Contains, Right
  <2> QED BY <1>2, <2>1, <2>2 DEF init_castling_rights
<1>3. CASE b.castling # {}
  <2> DEFINE flag(r) == IF r \in b.castling THEN <<r>> ELSE <<>>
             one   == flag("K")
             two   == flag("Q")
             three == flag("k")
             four  == flag("q")
             t2 == one \o two
             t3 == t2 \o three
             t4 == t3 \o four
  <2>1. ASSUME NEW r \in Right, NEW q
        PROVE  flag(r) \in Seq(Right) /\ (Contains(flag(r), q) <=> r \in b.castling /\ q = r)
    <3>1. CASE r \in b.castling
      <4>1. flag(r) = <<r>> /\ <<r>> \in Seq(Right)
        BY <3>1
      <4>2. Contains(<<r>>, q) <=> q = r
        BY DEF Contains
      <4> QED BY <3>1, <4>1, <4>2
    <3>2. CASE r \notin b.castling
      <4>1. flag(r) = <<>> /\ <<>> \in Seq(Right)
        BY <3>2
      <4>2. ~Contains(<<>>, q)
        BY DEF Contains
      <4> QED BY <3>2, <4>1, <4>2
    <3> QED BY <3>1, <3>2
  <2>2. castling_text(b) = t4
    BY <1>3, Zenon DEF castling_text
  <2> HIDE DEF flag
  <2>3. one \in Seq(Right) /\ two \in Seq(Right) /\ three \in Seq(Right) /\ four \in Seq(Right)
    BY <2>1 DEF Right
  <2>4. ASSUME NEW q
        PROVE  /\ Contains(one, q) <=> "K" \in b.castling /\ q = "K"
               /\ Contains(two, q) <=> "Q" \in b.castling /\ q = "Q"
               /\ Contains(three, q) <=> "k" \in b.castling /\ q = "k"
               /\ Contains(four, q) <=> "q" \in b.castling /\ q = "q"
    BY <2>1 DEF Right
  <2> HIDE DEF one, two, three, four
  <2>5. t2 \in Seq(Right) /\ \A q : Contains(t2, q) <=> Contains(one, q) \/ Contains(two, q)
    BY <2>3, ContainsConcat
  <2> HIDE DEF t2
  <2>6. t3 \in Seq(Right) /\ \A q : Contains(t3, q) <=> Contains(t2, q) \/ Contains(three, q)
    BY <2>3, <2>5, ContainsConcat
  <2> HIDE DEF t3
  <2>7. \A q : Contains(t4, q) <=> Contains(t3, q) \/ Contains(four, q)
    BY <2>3, <2>6, ContainsConcat
  <2> HIDE DEF t4
  <2>8. \A q \in Right : Contains(t4, q) <=> q \in b.castling
    BY <2>4, <2>5, <2>6, <2>7 DEF Right
  <2> QED BY <1>1, <2>2, <2>8 DEF init_castling_rights
<1> QED BY <1>2, <1>3

LEMMA OffsetInverts ==
  ASSUME NEW n \in 1..8
  PROVE  offset(files, files[n]) = n - 1 /\ offset(digits, digits[n]) = n - 1
<1>1. \A k \in 1..8 : files[k] = files[n] => k = n
  BY DEF files
<1>2. (CHOOSE k \in 1..8 : files[k] = files[n]) = n
  <2> HIDE DEF files
  <2> QED BY <1>1
<1> QED BY <1>2, DigitIsRead DEF offset

\* A square is read back from its name, which passes the checks.
LEMMA SquareIsRead ==
  ASSUME NEW sq \in Square
  PROVE  /\ str_to_square(square_to_str(sq)) = sq /\ square_to_str(sq) # <<"-">>
         /\ str_to_square_checks(square_to_str(sq))
<1> DEFINE f == file_idx(sq)
           r == rank_idx(sq)
<1>1. f \in 0..7 /\ r \in 0..7 /\ sq = coordinates_to_square(f, r)
  BY OneSquareThere
<1>2. f + 1 \in 1..8 /\ r + 1 \in 1..8 /\ (f + 1) - 1 = f /\ (r + 1) - 1 = r
  BY <1>1
<1>3. square_to_str(sq) = <<files[f + 1], digits[r + 1]>>
  BY DEF square_to_str
<1> HIDE DEF f, r
<1>4. offset(files, files[f + 1]) = f /\ offset(digits, digits[r + 1]) = r
  BY <1>2, OffsetInverts
<1>5. str_to_square(square_to_str(sq)) = coordinates_to_square(f, r)
  <2> DEFINE x == files[f + 1]
             y == digits[r + 1]
  <2> HIDE DEF x, y
  <2>1. str_to_square(<<x, y>>) = coordinates_to_square(offset(files, x), offset(digits, y))
    BY DEF str_to_square
  <2> QED BY <1>3, <1>4, <2>1 DEF x, y
<1>6. square_to_str(sq) # <<"-">>
  <2> DEFINE x == files[f + 1]
             y == digits[r + 1]
  <2> HIDE DEF x, y
  <2>1. <<x, y>> # <<"-">>
    OBVIOUS
  <2> QED BY <1>3, <2>1 DEF x, y
<1>7. str_to_square_checks(square_to_str(sq))
  <2> DEFINE x == files[f + 1]
             y == digits[r + 1]
  <2>1. Len(files) = 8 /\ Len(digits) = 8
    BY DEF files, digits
  <2>2. Contains(files, x) /\ Contains(digits, y)
    BY <1>2, <2>1 DEF Contains
  <2> HIDE DEF x, y
  <2>3. str_to_square_checks(<<x, y>>) <=> Contains(files, x) /\ Contains(digits, y)
    BY DEF str_to_square_checks
  <2> QED BY <1>3, <2>2, <2>3 DEF x, y
<1> QED BY <1>1, <1>5, <1>6, <1>7

LEMMA EnPassantIsRead ==
  ASSUME NEW b, b \in BoardType, EnPassantSound(b)
  PROVE  /\ init_en_passant(en_passant_text(b)) = b.en_passant_square_
         /\ en_passant_text(b) # <<"-">> => str_to_square_checks(en_passant_text(b))
<1>1. CASE b.en_passant_square_ = {}
  BY <1>1 DEF en_passant_text, init_en_passant
<1>2. CASE b.en_passant_square_ # {}
  <2>1. PICK sq : b.en_passant_square_ = {sq}
    BY <1>2, Zenon DEF EnPassantSound
  <2>2. sq \in Square
    BY <2>1 DEF BoardType, Bitboard
  <2>3. (CHOOSE q \in b.en_passant_square_ : TRUE) = sq
    BY <2>1
  <2>4. en_passant_text(b) = square_to_str(sq)
    BY <1>2, <2>3 DEF en_passant_text
  <2>5. init_en_passant(square_to_str(sq)) = {str_to_square(square_to_str(sq))}
    BY <2>2, SquareIsRead DEF init_en_passant
  <2> QED BY <2>1, <2>2, <2>4, <2>5, SquareIsRead
<1> QED BY <1>1, <1>2


-----------------------------------------------------------------------------
(* The finished board. *)

LEMMA AllMenPassed ==
  ASSUME NEW b, b \in BoardType, NEW s, Scans(s, <<>>, b)
  PROVE  s.bb = b.bb
<1> DEFINE rank == s.rank
           file == s.file
<1>1. rank \in 0..7 /\ file \in 0..8 /\ Left(b, rank, file) = <<>> /\ s.bb = PassedMen(b, rank, file)
  <2>1. rank \in 0..7 /\ file \in 0..8 /\ Left(b, rank, file) = <<>>
    BY DEF Scans
  <2>2. s = [bb |-> PassedMen(b, rank, file), rank |-> rank, file |-> file]
    BY DEF Scans
  <2> HIDE DEF rank, file
  <2>3. s.bb = PassedMen(b, rank, file)
    BY <2>2
  <2> QED BY <2>1, <2>3
<1> HIDE DEF rank, file
<1>2. file = 8
  <2> SUFFICES ASSUME file # 8 PROVE FALSE
    OBVIOUS
  <2>1. file \in 0..7
    BY <1>1
  <2> QED BY <1>1, <2>1, LeftInARow
<1>3. rank = 0
  BY <1>1, <1>2, LeftAtTheEnd
<1>4. ASSUME NEW cp \in Color \X Piece PROVE {sq \in b.bb[cp] : Passed(sq, 0, 8)} = b.bb[cp]
  <2>1. b.bb[cp] \in SUBSET Square
    BY DEF BoardType, BitboardArray, Bitboard
  <2>2. \A sq \in Square : Passed(sq, 0, 8)
    BY OneSquareThere DEF Passed
  <2> QED BY <2>1, <2>2
<1>5. b.bb = [cp \in Color \X Piece |-> b.bb[cp]]
  BY DEF BoardType, BitboardArray
<1> QED BY <1>1, <1>2, <1>3, <1>4, <1>5 DEF PassedMen

LEMMA FieldsAreRead ==
  ASSUME NEW b, b \in BoardType, EnPassantSound(b)
  PROVE  /\ fields_checks(side_text(b), en_passant_text(b))
         /\ with_fields(b.bb, side_text(b), castling_text(b), en_passant_text(b),
                        b.fifty_move_clock_, b.num_moves_) = b
<1>1. with_fields(b.bb, side_text(b), castling_text(b), en_passant_text(b),
                  b.fifty_move_clock_, b.num_moves_) =
      [ bb |-> b.bb, side_to_move |-> b.side_to_move, castling |-> b.castling,
        en_passant_square_ |-> b.en_passant_square_, fifty_move_clock_ |-> b.fifty_move_clock_,
        num_moves_ |-> b.num_moves_ ]
  BY SideIsRead, CastlingIsRead, EnPassantIsRead, Zenon DEF with_fields
<1>2. b = [ bb |-> b.bb, side_to_move |-> b.side_to_move, castling |-> b.castling,
            en_passant_square_ |-> b.en_passant_square_, fifty_move_clock_ |-> b.fifty_move_clock_,
            num_moves_ |-> b.num_moves_ ]
  BY DEF BoardType
<1>3. fields_checks(side_text(b), en_passant_text(b))
  BY SideIsRead, EnPassantIsRead, Zenon DEF fields_checks
<1> QED BY <1>1, <1>2, <1>3

-----------------------------------------------------------------------------
(* The constructor at work. *)

Inv ==
  /\ written \in Boards
  /\ Scans(scan, rest, written)
  /\ read = <<>> \/ (read = <<written>> /\ rest = <<>>)
  /\ aborted = FALSE

\* The scan and the rest of the placement are always in step: the Bitboards hold
\* exactly the men of the squares gone by, and the rest is the text of the others.
\* Hence init_bitboards ends with the men of the board, and the constructor with
\* the board.
THEOREM Invariance == Spec => []Inv
<1>1. Init => Inv
  <2> SUFFICES ASSUME Init PROVE Inv
    OBVIOUS
  <2>1. written \in Boards /\ written \in BoardType
    BY BoardsAssumption DEF Init, WellFormed
  <2>2. Scans(scan_start, placement(written), written)
    BY <2>1, StartScans
  <2> QED BY <2>1, <2>2 DEF Init, Inv
<1>2. Inv /\ [Next]_vars => Inv'
  <2> SUFFICES ASSUME Inv, [Next]_vars PROVE Inv'
    OBVIOUS
  <2>1. written \in BoardType /\ Disjoint(written.bb) /\ EnPassantSound(written)
    BY BoardsAssumption DEF Inv, WellFormed, PiecesDisjoint
  <2>2. CASE ReadCharacter
    <3>1. Scans(place(scan, Head(rest)), Tail(rest), written)
      BY <2>1, <2>2, CharacterKeepsScan DEF Inv, ReadCharacter
    <3>2. written' = written /\ read' = read /\ aborted' = aborted /\ read = <<>>
      BY <2>2 DEF ReadCharacter, Inv
    <3>3. scan' = place(scan, Head(rest)) /\ rest' = Tail(rest)
      BY <2>2 DEF ReadCharacter
    <3> QED BY <3>1, <3>2, <3>3 DEF Inv
  <2>3. CASE ReadOtherFields
    <3>1. written' = written /\ rest' = rest /\ scan' = scan /\ rest = <<>>
      BY <2>3 DEF ReadOtherFields
    <3>2. scan.bb = written.bb
      BY <2>1, <3>1, AllMenPassed DEF Inv
    <3>3. read' = <<with_fields(written.bb, side_text(written), castling_text(written),
                                en_passant_text(written), written.fifty_move_clock_,
                                written.num_moves_)>>
          /\ aborted' = aborted
      BY <2>1, <2>3, <3>2, FieldsAreRead DEF ReadOtherFields
    <3>4. read' = <<written>>
      BY <2>1, <3>3, FieldsAreRead
    <3> QED BY <3>1, <3>3, <3>4 DEF Inv
  <2>4. CASE UNCHANGED vars
    BY <2>4 DEF vars, Inv
  <2> QED BY <2>2, <2>3, <2>4 DEF Next
<1> QED BY <1>1, <1>2, PTL DEF Spec

\* Whatever well-formed board a FEN describes, no check of the constructor fails
\* and it builds that board.
THEOREM FenIsReadBack == Spec => []ReadsBack
<1>1. Inv => ReadsBack
  BY DEF Inv, ReadsBack
<1> QED BY <1>1, Invariance, PTL

\* No character of such a FEN makes the constructor shift out of the 64 bits.
THEOREM ShiftsStayDefined == Spec => []ShiftsAreDefined
<1>1. Inv => ShiftsAreDefined
  <2> SUFFICES ASSUME Inv, rest # <<>> PROVE coordinates_to_square(scan.file, scan.rank) \in Square
    BY DEF ShiftsAreDefined
  <2>1. written \in BoardType /\ Disjoint(written.bb)
    BY BoardsAssumption DEF Inv, WellFormed, PiecesDisjoint
  <2> QED BY <2>1, CharacterKeepsScan DEF Inv
<1> QED BY <1>1, Invariance, PTL


-----------------------------------------------------------------------------
(* The names of moves. *)

\* square_to_str gives every square a name of its own.
LEMMA NamesOfSquares ==
  ASSUME NEW x \in Square, NEW y \in Square, square_to_str(x) = square_to_str(y)
  PROVE  x = y
  BY SquareIsRead

LEMMA NameGivesSquares ==
  ASSUME NEW m \in MoveSet, NEW n \in MoveSet, move_to_pretty_str(m) = move_to_pretty_str(n)
  PROVE  m.src_square_ = n.src_square_ /\ m.dst_square_ = n.dst_square_
<1>1. /\ m.src_square_ \in Square /\ m.dst_square_ \in Square
      /\ n.src_square_ \in Square /\ n.dst_square_ \in Square
  BY DEF MoveSet
<1>3. \A sq : square_to_str(sq) = <<files[file_idx(sq) + 1], digits[rank_idx(sq) + 1]>>
  BY DEF square_to_str
<1>4. /\ square_to_str(m.src_square_) = square_to_str(n.src_square_)
      /\ square_to_str(m.dst_square_) = square_to_str(n.dst_square_)
  <2> DEFINE a(sq) == files[file_idx(sq) + 1]
             c(sq) == digits[rank_idx(sq) + 1]
  <2>1. \A sq : square_to_str(sq) = <<a(sq), c(sq)>>
    BY <1>3
  <2> HIDE DEF a, c
  <2>2. <<a(m.src_square_), c(m.src_square_)>> \o <<a(m.dst_square_), c(m.dst_square_)>> =
        <<a(n.src_square_), c(n.src_square_)>> \o <<a(n.dst_square_), c(n.dst_square_)>>
    BY <2>1 DEF move_to_pretty_str
  <2> DEFINE a1 == a(m.src_square_)
             a2 == c(m.src_square_)
             a3 == a(m.dst_square_)
             a4 == c(m.dst_square_)
             b1 == a(n.src_square_)
             b2 == c(n.src_square_)
             b3 == a(n.dst_square_)
             b4 == c(n.dst_square_)
  <2>3. <<a1, a2>> \o <<a3, a4>> = <<b1, b2>> \o <<b3, b4>>
    BY <2>2
  <2> HIDE DEF a1, a2, a3, a4, b1, b2, b3, b4
  <2>4. a1 = b1 /\ a2 = b2 /\ a3 = b3 /\ a4 = b4
    BY <2>3
  <2> QED BY <2>1, <2>4 DEF a1, a2, a3, a4, b1, b2, b3, b4
<1> QED BY <1>1, <1>4, NamesOfSquares

\* A pawn that captures changes its file.
LEMMA DiagonalsChangeFile ==
  ASSUME NEW side \in Color, NEW sq \in Square, NEW d \in diagonals(side, sq)
  PROVE  file_idx(d) # file_idx(sq)
<1> DEFINE f == file_idx(sq)
           r == rank_idx(sq)
<1>1. f \in 0..7 /\ r \in 0..7 /\ sq = coordinates_to_square(f, r)
  BY OneSquareThere
<1> HIDE DEF f, r
<1>2. /\ northeast_of(sq) = at(f + 1, r + 1) /\ northwest_of(sq) = at(f - 1, r + 1)
      /\ southeast_of(sq) = at(f + 1, r - 1) /\ southwest_of(sq) = at(f - 1, r - 1)
  BY <1>1, DiagonalSteps
<1>3. PICK g \in {f + 1, f - 1}, q \in {r + 1, r - 1} : d \in at(g, q)
  BY <1>2 DEF diagonals
<1>4. g \in 0..7 /\ q \in 0..7 /\ d = coordinates_to_square(g, q)
  BY <1>3 DEF at
<1>5. file_idx(d) = g /\ g # f
  BY <1>1, <1>3, <1>4, Coordinates
<1> QED BY <1>5 DEF f

\* A promotion starts from the last rank but one and ends on the last.
LEMMA PromotionArrives ==
  ASSUME NEW b, b \in BoardType, PawnsOffBackRanks(b), NEW side \in Color,
         NEW m \in append_pseudolegal_promotions(b, side)
  PROVE  m.src_square_ \in promotion_mask(side) /\ rank_idx(m.dst_square_) \notin 1..6
<1>1. PICK p \in pawns(b, side) \cap promotion_mask(side) :
          \E dst \in (forward(side, p) \ all_pieces(b)) \cup (diagonals(side, p) \cap enemies(b, side)),
             type \in promotion_move_types : m = Move(p, dst, "pawn", type)
  BY DEF append_pseudolegal_promotions
<1>2. PICK dst \in (forward(side, p) \ all_pieces(b)) \cup (diagonals(side, p) \cap enemies(b, side)),
           type \in promotion_move_types : m = Move(p, dst, "pawn", type)
  BY <1>1
<1>3. p \in Square /\ rank_idx(p) \in 1..6
  BY DEF BoardType, BitboardArray, Bitboard, pieces, pawns, Piece, PawnsOffBackRanks
<1>4. rank_idx(dst) = rank_idx(p) + up(side)
  BY <1>2, <1>3, Forward, Diagonals
<1>5. rank_idx(p) = IF side = "white" THEN 6 ELSE 1
  BY DEF promotion_mask, seventh_rank_mask, second_rank_mask, rank_mask
<1>6. rank_idx(dst) \notin 1..6
  BY <1>4, <1>5 DEF up, Color
<1>7. m.src_square_ = p /\ m.dst_square_ = dst
  BY <1>2 DEF Move
<1> QED BY <1>6, <1>7

LEMMA EnPassantChangesFile ==
  ASSUME NEW b, b \in BoardType, NEW side \in Color,
         NEW m \in append_pseudolegal_en_passant_moves(b, side)
  PROVE  file_idx(m.src_square_) # file_idx(m.dst_square_)
<1>1. PICK ep \in b.en_passant_square_ :
        \E p \in diagonals(flip_color(side), ep) \cap pawns(b, side) : m = Move(p, ep, "pawn", "en_passant")
  BY DEF append_pseudolegal_en_passant_moves
<1>2. PICK p \in diagonals(flip_color(side), ep) : m = Move(p, ep, "pawn", "en_passant")
  BY <1>1
<1>3. ep \in Square /\ flip_color(side) \in Color
  BY FlipColor DEF BoardType, Bitboard
<1>4. m.src_square_ = p /\ m.dst_square_ = ep
  BY <1>2 DEF Move
<1> QED BY <1>3, <1>4, DiagonalsChangeFile

\* What tells pawn moves apart.
PawnName(b, side, m) ==
  /\ PawnMove(b, side, m)
  /\ m.move_type_ \in promotion_move_types =>
       m.src_square_ \in promotion_mask(side) /\ rank_idx(m.dst_square_) \notin 1..6
  /\ m.move_type_ = "en_passant" => file_idx(m.src_square_) # file_idx(m.dst_square_)

LEMMA PawnsNamed ==
  ASSUME NEW b, b \in BoardType, PawnsOffBackRanks(b), NEW side \in Color,
         NEW m \in append_pseudolegal_pawn_moves(b, side)
  PROVE  PawnName(b, side, m)
<1>1. PawnMove(b, side, m)
  BY PawnMoves
<1>2. ASSUME m.move_type_ \in promotion_move_types
      PROVE  m.src_square_ \in promotion_mask(side) /\ rank_idx(m.dst_square_) \notin 1..6
  <2>1. m \in append_pseudolegal_promotions(b, side)
    BY <1>2 DEF append_pseudolegal_pawn_moves, append_pseudolegal_simple_pawn_moves,
         append_pseudolegal_two_step_pawn_moves, append_pseudolegal_pawn_captures,
         append_pseudolegal_en_passant_moves, Move, promotion_move_types
  <2> QED BY <2>1, PromotionArrives
<1>3. ASSUME m.move_type_ = "en_passant"
      PROVE  file_idx(m.src_square_) # file_idx(m.dst_square_)
  <2>1. m \in append_pseudolegal_en_passant_moves(b, side)
    BY <1>3 DEF append_pseudolegal_pawn_moves, append_pseudolegal_simple_pawn_moves,
         append_pseudolegal_two_step_pawn_moves, append_pseudolegal_pawn_captures,
         append_pseudolegal_promotions, Move, promotion_move_types
  <2> QED BY <2>1, EnPassantChangesFile
<1> QED BY <1>1, <1>2, <1>3 DEF PawnName


LEMMA PawnNamesDiffer ==
  ASSUME NEW b, WellFormed(b), NEW m, NEW n,
         PawnName(b, b.side_to_move, m), PawnName(b, b.side_to_move, n),
         m.src_square_ = n.src_square_, m.dst_square_ = n.dst_square_
  PROVE  m = n \/ {m.move_type_, n.move_type_} \subseteq promotion_move_types
<1> DEFINE side == b.side_to_move
           src == m.src_square_
           dst == m.dst_square_
           Promo(t) == t \in promotion_move_types
           Fits(t) ==
             /\ Promo(t) \/ t \in {"simple", "two_step_pawn", "capture", "en_passant"}
             /\ Promo(t) => src \in promotion_mask(side) /\ rank_idx(dst) \notin 1..6
             /\ t = "simple" => dst = src + 8 * up(side) /\ dst \notin all_pieces(b) /\ rank_idx(dst) \in 1..6
             /\ t = "two_step_pawn" => /\ dst = src + 16 * up(side) /\ dst \notin all_pieces(b)
                                       /\ src \in two_step_mask(side)
             /\ t = "capture" => dst \in enemies(b, side) /\ rank_idx(dst) \in 1..6
             /\ t = "en_passant" => dst \in b.en_passant_square_ /\ file_idx(src) # file_idx(dst)
<1>1. b \in BoardType /\ side \in Color /\ EnPassantSound(b)
  BY DEF WellFormed, BoardType
<1>2. /\ m \in MoveSet /\ n \in MoveSet /\ m.piece_moving_ = "pawn" /\ n.piece_moving_ = "pawn"
      /\ src \in Square /\ dst \in Square
  BY DEF PawnName, PawnMove, MoveSet
<1>3. Fits(m.move_type_) /\ Fits(n.move_type_)
  BY DEF PawnName, PawnMove, PawnStep, PawnJump, PawnCapture, PawnEnPassant, PawnPromotion,
         promotion_move_types
<1>4. dst \in enemies(b, side) => dst \in all_pieces(b)
  BY <1>1 DEF enemies, all_pieces, flip_color, Color
<1>5. dst \in b.en_passant_square_ => dst \notin all_pieces(b) /\ rank_idx(dst) \in 1..6
  BY <1>1, EnPassantVictim
<1>6. src \in promotion_mask(side) => src \notin two_step_mask(side)
  BY DEF promotion_mask, two_step_mask, seventh_rank_mask, second_rank_mask, rank_mask
<1>7. dst = src + 8 * up(side) => dst # src + 16 * up(side) /\ file_idx(src) = file_idx(dst)
  BY <1>2 DEF up, file_idx, Square, board_size
<1>8. dst = src + 16 * up(side) => file_idx(src) = file_idx(dst)
  BY <1>2 DEF up, file_idx, Square, board_size
<1>9. m.move_type_ = n.move_type_ \/ (Promo(m.move_type_) /\ Promo(n.move_type_))
  <2> DEFINE x == m.move_type_
             y == n.move_type_
  <2>1. Fits(x) /\ Fits(y)
    BY <1>3
  <2> SUFFICES x = y \/ (Promo(x) /\ Promo(y))
    OBVIOUS
  <2> HIDE DEF x, y, src, dst, side
  <2>2. CASE Promo(x)
    BY <1>4, <1>5, <1>6, <2>1, <2>2
  <2>3. CASE Promo(y)
    BY <1>4, <1>5, <1>6, <2>1, <2>3
  <2>4. CASE ~Promo(x) /\ ~Promo(y)
    BY <1>4, <1>5, <1>7, <1>8, <2>1, <2>4
  <2> QED BY <2>2, <2>3, <2>4
<1>10. m.move_type_ = n.move_type_ => m = n
  BY <1>2 DEF MoveSet
<1> QED BY <1>9, <1>10

\* A king's step is to a neighbouring file or to its own.
LEMMA KingStaysNear ==
  ASSUME NEW b, b \in BoardType, NEW side \in Color, NEW m \in append_pseudolegal_king_moves(b, side)
  PROVE  file_idx(m.dst_square_) \in {file_idx(m.src_square_) + d : d \in -1..1}
<1>1. PICK src \in pieces(b, side, "king") :
        \E dir \in all_directions : \E dst \in direction_to_function(dir, src) \ friends(b, side) :
          m = simple_or_capture(b, side, src, dst, "king")
  BY DEF append_pseudolegal_king_moves
<1>2. PICK dir \in all_directions : \E dst \in direction_to_function(dir, src) \ friends(b, side) :
        m = simple_or_capture(b, side, src, dst, "king")
  BY <1>1
<1>3. PICK dst \in direction_to_function(dir, src) : m = simple_or_capture(b, side, src, dst, "king")
  BY <1>2
<1>4. m.src_square_ = src /\ m.dst_square_ = dst
  BY <1>3 DEF simple_or_capture, Move
<1>5. src \in Square
  BY DEF BoardType, BitboardArray, Bitboard, pieces, Piece
<1> DEFINE f == file_idx(src)
           r == rank_idx(src)
<1>6. f \in 0..7 /\ r \in 0..7 /\ src = coordinates_to_square(f, r)
  BY <1>5, OneSquareThere
<1>7. dst \in at(f + file_step(dir), r + rank_step(dir))
  BY <1>3, <1>6, StepCoordinates
<1>8. file_idx(dst) = f + file_step(dir)
  BY <1>7, Coordinates DEF at
<1>9. file_step(dir) \in -1..1
  BY DEF file_step
<1> QED BY <1>4, <1>8, <1>9

LEMMA CastlingGoesFar ==
  ASSUME NEW b, WellFormed(b), NEW m \in append_castling_moves(b),
         NEW n \in pseudolegal_moves(b, b.side_to_move),
         m.src_square_ = n.src_square_, m.dst_square_ = n.dst_square_
  PROVE  FALSE
<1> DEFINE side == b.side_to_move
<1>1. b \in BoardType /\ side \in Color /\ PiecesDisjoint(b) /\ PawnsOffBackRanks(b)
  BY DEF WellFormed, BoardType
<1>2. /\ m.src_square_ = home_square(side, 4) /\ m.dst_square_ = home_square(side, king_file(m))
      /\ home_square(side, 4) \in b.bb[<<side, "king">>] /\ king_file(m) \in {2, 6}
  BY CastlingMoves DEF CastleFacts, king_file
<1>3. n.src_square_ \in b.bb[<<side, n.piece_moving_>>] /\ n.piece_moving_ \in Piece
  BY <1>1, PseudolegalFacts DEF MoveFacts, Movable, MoveSet, pieces
<1>4. n.piece_moving_ = "king"
  <2>1. <<side, "king">> \in Color \X Piece /\ <<side, n.piece_moving_>> \in Color \X Piece
    BY <1>1, <1>3 DEF Piece
  <2>2. <<side, "king">> = <<side, n.piece_moving_>>
    BY <1>1, <1>2, <1>3, <2>1 DEF PiecesDisjoint, Disjoint
  <2> QED BY <2>2
<1>5. n \in append_pseudolegal_king_moves(b, side)
  <2>1. n \in append_pseudolegal_pawn_moves(b, side) => n.piece_moving_ = "pawn"
    BY <1>1, PawnMoves DEF PawnMove
  <2>2. \A piece, directions : n \in append_pseudolegal_sliding_moves(b, side, directions, piece)
          => n.piece_moving_ = piece
    BY DEF append_pseudolegal_sliding_moves, simple_or_capture, Move
  <2>3. n \in append_pseudolegal_knight_moves(b, side) => n.piece_moving_ = "knight"
    BY <1>1, KnightMoves
  <2>4. /\ n \notin append_pseudolegal_bishop_moves(b, side)
        /\ n \notin append_pseudolegal_rook_moves(b, side)
        /\ n \notin append_pseudolegal_queen_moves(b, side)
    BY <1>4, <2>2 DEF append_pseudolegal_bishop_moves, append_pseudolegal_rook_moves,
                      append_pseudolegal_queen_moves
  <2> QED BY <1>4, <2>1, <2>3, <2>4 DEF pseudolegal_moves
<1>6. file_idx(home_square(side, king_file(m))) \in {file_idx(home_square(side, 4)) + d : d \in -1..1}
  BY <1>1, <1>2, <1>5, KingStaysNear
<1>7. ASSUME NEW f \in 0..7 PROVE file_idx(home_square(side, f)) = f
  BY Coordinates DEF home_square
<1>8. file_idx(home_square(side, king_file(m))) = king_file(m) /\ file_idx(home_square(side, 4)) = 4
  <2>1. king_file(m) \in 0..7
    BY <1>2
  <2> QED BY <1>7, <2>1
<1> QED BY <1>2, <1>6, <1>8

LEMMA CastlingNamesDiffer ==
  ASSUME NEW b, WellFormed(b), NEW m \in append_castling_moves(b), NEW n \in append_castling_moves(b),
         m.dst_square_ = n.dst_square_
  PROVE  m = n
<1> DEFINE side == b.side_to_move
           k == castle_kingside_move(side)
           q == castle_queenside_move(side)
<1>1. m \in {k, q} /\ n \in {k, q}
  BY DEF append_castling_moves
<1>2. k.dst_square_ = home_square(side, 6) /\ q.dst_square_ = home_square(side, 2)
  BY DEF castle_kingside_move, castle_queenside_move, Move
<1>3. home_square(side, 6) # home_square(side, 2)
  BY DEF home_square, coordinates_to_square, board_size
<1> HIDE DEF k, q
<1> QED BY <1>1, <1>2, <1>3

LEMMA MovesHaveNames ==
  ASSUME NEW b, WellFormed(b), NEW m \in legal_moves(b), NEW n \in legal_moves(b),
         m.src_square_ = n.src_square_, m.dst_square_ = n.dst_square_
  PROVE  m = n \/ {m.move_type_, n.move_type_} \subseteq promotion_move_types
<1> DEFINE side == b.side_to_move
<1>1. b \in BoardType /\ side \in Color /\ PiecesDisjoint(b) /\ PawnsOffBackRanks(b)
  BY DEF WellFormed, BoardType
<1>2. \A x \in legal_moves(b) : x \in pseudolegal_moves(b, side) \/ x \in append_castling_moves(b)
  BY DEF legal_moves
<1>3. CASE m \in append_castling_moves(b) \/ n \in append_castling_moves(b)
  BY <1>2, <1>3, CastlingGoesFar, CastlingNamesDiffer
<1>4. CASE m \in pseudolegal_moves(b, side) /\ n \in pseudolegal_moves(b, side)
  <2>1. \A x \in pseudolegal_moves(b, side) :
          /\ x \in MoveSet /\ x.src_square_ \in b.bb[<<side, x.piece_moving_>>]
          /\ x.piece_moving_ \in Piece
    BY <1>1, PseudolegalFacts DEF MoveFacts, Movable, MoveSet, pieces
  <2>2. m.piece_moving_ = n.piece_moving_
    <3>1. <<side, m.piece_moving_>> \in Color \X Piece /\ <<side, n.piece_moving_>> \in Color \X Piece
      BY <1>1, <1>4, <2>1
    <3>2. <<side, m.piece_moving_>> = <<side, n.piece_moving_>>
      BY <1>1, <1>4, <2>1, <3>1 DEF PiecesDisjoint, Disjoint
    <3> QED BY <3>2
  <2>3. \A x \in pseudolegal_moves(b, side) : OfficerMove(b, side, x) \/ PawnMove(b, side, x)
    BY <1>1, PseudolegalMoves
  <2>4. CASE m.piece_moving_ # "pawn"
    <3>1. m.move_type_ = n.move_type_
      BY <1>4, <2>2, <2>3, <2>4 DEF OfficerMove, PawnMove
    <3>2. m \in MoveSet /\ n \in MoveSet
      BY <1>4, <2>1
    <3>3. m = n
      BY <2>2, <3>1, <3>2 DEF MoveSet
    <3> QED BY <3>3
  <2>5. CASE m.piece_moving_ = "pawn"
    <3>1. \A x \in pseudolegal_moves(b, side) :
            x.piece_moving_ = "pawn" => x \in append_pseudolegal_pawn_moves(b, side)
      <4> SUFFICES ASSUME NEW x \in pseudolegal_moves(b, side), x.piece_moving_ = "pawn"
                   PROVE  x \in append_pseudolegal_pawn_moves(b, side)
        OBVIOUS
      <4>1. \A piece, directions : x \in append_pseudolegal_sliding_moves(b, side, directions, piece)
              => x.piece_moving_ = piece
        BY DEF append_pseudolegal_sliding_moves, simple_or_capture, Move
      <4>2. /\ x \notin append_pseudolegal_bishop_moves(b, side)
            /\ x \notin append_pseudolegal_rook_moves(b, side)
            /\ x \notin append_pseudolegal_queen_moves(b, side)
        BY <4>1 DEF append_pseudolegal_bishop_moves, append_pseudolegal_rook_moves,
                    append_pseudolegal_queen_moves
      <4>3. /\ x \notin append_pseudolegal_king_moves(b, side)
            /\ x \notin append_pseudolegal_knight_moves(b, side)
        BY <1>1, KingMoves, KnightMoves
      <4> QED BY <4>2, <4>3 DEF pseudolegal_moves
    <3>2. PawnName(b, side, m) /\ PawnName(b, side, n)
      BY <1>1, <1>4, <2>2, <2>5, <3>1, PawnsNamed
    <3> QED BY <3>2, PawnNamesDiffer
  <2> QED BY <2>4, <2>5
<1> QED BY <1>2, <1>3, <1>4

\* On every well-formed board, the printed name of a legal move belongs to no
\* other legal move, promotions of one pawn to one square apart.
THEOREM NamesAreUnique == Spec => []NamesTellMovesApart
<1>1. Inv => NamesTellMovesApart
  <2> SUFFICES ASSUME Inv, read # <<>>,
                      NEW m \in legal_moves(read[1]), NEW n \in legal_moves(read[1]),
                      move_to_pretty_str(m) = move_to_pretty_str(n)
               PROVE  m = n \/ {m.move_type_, n.move_type_} \subseteq promotion_move_types
    BY DEF NamesTellMovesApart
  <2>1. read[1] = written /\ WellFormed(written)
    BY BoardsAssumption DEF Inv
  <2>2. m \in legal_moves(written) /\ n \in legal_moves(written)
    BY <2>1
  <2>3. m \in MoveSet /\ n \in MoveSet
    BY <2>1, <2>2, LegalMovesType
  <2>4. m.src_square_ = n.src_square_ /\ m.dst_square_ = n.dst_square_
    BY <2>3, NameGivesSquares
  <2> QED BY <2>1, <2>2, <2>4, MovesHaveNames
<1> QED BY <1>1, Invariance, PTL
=============================================================================
