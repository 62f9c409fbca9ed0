---------------------------- MODULE PerftProofs ----------------------------
(***************************************************************************)
(* number_of_moves takes back every move and returns the number of lines,  *)
(* whatever the game.                                                      *)
(***************************************************************************)
EXTENDS Perft, FiniteSetTheorems, SequenceTheorems, WellFoundedInduction, TLAPS

CONSTANT Boards    \* the boards of the game

\* What number_of_moves takes for granted of a game: vectors of moves that lead
\* from boards to boards.
IsGame ==
  /\ Queries \subseteq Boards \X Nat
  /\ \A b \in Boards :
       /\ \E S : LegalMoves(b) \in Seq(S)
       /\ \A i \in 1..Len(LegalMoves(b)) : DoMove(b, LegalMoves(b)[i]) \in Boards

-----------------------------------------------------------------------------
(* What the three ways to change the stack do to it. *)


\* The running frame is replaced (Continue).
LEMMA ReplaceTop ==
  ASSUME NEW S, NEW s \in Seq(S), s # <<>>, NEW f
  PROVE  LET t == <<f>> \o Tail(s)
         IN  /\ t \in Seq(S \cup {f})
             /\ Len(t) = Len(s)
             /\ t[1] = f
             /\ \A i \in 2..Len(s) : t[i] = s[i]
<1> DEFINE T == S \cup {f}
           t == <<f>> \o Tail(s)
<1>1. Tail(s) \in Seq(T) /\ Len(Tail(s)) = Len(s) - 1 /\ Len(s) \in Nat \ {0}
  OBVIOUS
<1>2. <<f>> \in Seq(T) /\ Len(<<f>>) = 1
  OBVIOUS
<1>3. t \in Seq(T) /\ Len(t) = Len(s)
  BY <1>1, <1>2
<1>4. t[1] = f
  BY <1>1, <1>2
<1>5. ASSUME NEW i \in 2..Len(s) PROVE t[i] = s[i]
  BY <1>1, <1>2
<1> QED BY <1>3, <1>4, <1>5

\* A frame is put on top of the replaced one (a call).
LEMMA PushTop ==
  ASSUME NEW S, NEW s \in Seq(S), s # <<>>, NEW f, NEW g
  PROVE  LET t == <<g, f>> \o Tail(s)
         IN  /\ t \in Seq(S \cup {f, g})
             /\ Len(t) = Len(s) + 1
             /\ t[1] = g
             /\ t[2] = f
             /\ \A i \in 2..Len(s) : t[i + 1] = s[i]
<1> DEFINE T == S \cup {f, g}
           t == <<g, f>> \o Tail(s)
<1>1. Tail(s) \in Seq(T) /\ Len(Tail(s)) = Len(s) - 1 /\ Len(s) \in Nat \ {0}
  OBVIOUS
<1>2. <<g, f>> \in Seq(T) /\ Len(<<g, f>>) = 2
  OBVIOUS
<1>3. t \in Seq(T) /\ Len(t) = Len(s) + 1
  BY <1>1, <1>2
<1>4. t[1] = g /\ t[2] = f
  BY <1>1, <1>2
<1>5. ASSUME NEW i \in 2..Len(s) PROVE t[i + 1] = s[i]
  BY <1>1, <1>2
<1> QED BY <1>3, <1>4, <1>5

\* The running frame is dropped (Return).
LEMMA PopTop ==
  ASSUME NEW S, NEW s \in Seq(S), s # <<>>
  PROVE  /\ Tail(s) \in Seq(S)
         /\ Len(Tail(s)) = Len(s) - 1
         /\ \A i \in 1..(Len(s) - 1) : Tail(s)[i] = s[i + 1]
  OBVIOUS

-----------------------------------------------------------------------------
(* Lines. *)

\* Induction over numbers, in the form in which it is used here.
LEMMA LeastNumber ==
  ASSUME NEW T \in SUBSET Nat, T # {}
  PROVE  \E n \in T : \A k \in T : n <= k
<1> DEFINE R == OpToRel(<, Nat)
<1>1. IsWellFoundedOn(R, Nat)
  BY NatLessThanWellFounded, Zenon
<1>2. \E x \in T : \A y \in T : ~(<<y, x>> \in R)
  <2> HIDE DEF R
  <2> QED BY <1>1, WFMin
<1>3. ASSUME NEW x \in Nat, NEW y \in Nat, ~(y < x) PROVE x <= y
  BY <1>3
<1>4. ASSUME NEW x \in Nat, NEW y \in Nat, ~(<<y, x>> \in R) PROVE ~(y < x)
  BY <1>4, Zenon DEF OpToRel
<1> QED BY <1>2, <1>3, <1>4

\* The board after the move at a place of its list.
Step(b, i) == DoMove(b, LegalMoves(b)[i])

\* The boards on a line are the start and what each move makes of the one before.
LEMMA PathEquation ==
  ASSUME NEW b, NEW l, Len(l) \in Nat
  PROVE  /\ Path(b, l)[0] = b
         /\ \A i \in 1..Len(l) : Path(b, l)[i] = Step(Path(b, l)[i - 1], l[i])
<1> DEFINE Body(f, i) == IF i = 0 THEN b ELSE DoMove(f[i - 1], LegalMoves(f[i - 1])[l[i]])
           Exists(n) == \E f : f = [i \in 0..n |-> Body(f, i)]
           T == {n \in Nat : ~Exists(n)}
<1>1. Exists(Len(l))
  <2>1. SUFFICES ASSUME T # {} PROVE FALSE
    <3> HIDE DEF Exists
    <3> QED OBVIOUS
  <2>2. PICK n \in T : \A k \in T : n <= k
    <3>1. T \in SUBSET Nat
      OBVIOUS
    <3> HIDE DEF T
    <3> QED BY <2>1, <3>1, LeastNumber
  <2>3. n \in Nat /\ ~Exists(n)
    BY <2>2
  <2>4. CASE n = 0
    <3> DEFINE f == [i \in 0..0 |-> b]
    <3>1. f = [i \in 0..n |-> Body(f, i)]
      BY <2>4
    <3> HIDE DEF f
    <3> QED BY <3>1, <2>3
  <2>5. CASE n # 0
    <3>1. n - 1 \in Nat /\ n - 1 \notin T
      <4> HIDE DEF T
      <4> QED BY <2>2, <2>3, <2>5
    <3>2. PICK f : f = [i \in 0..(n - 1) |-> Body(f, i)]
      BY <3>1
    <3> DEFINE g == [i \in 0..n |-> Body(f, i)]
    <3>3. ASSUME NEW i \in 0..(n - 1) PROVE f[i] = Body(f, i) /\ g[i] = Body(f, i)
      <4>1. i \in 0..n
        BY <2>3
      <4> HIDE DEF Body
      <4> QED BY <3>2, <4>1
    <3>4. ASSUME NEW i \in 0..n PROVE Body(g, i) = Body(f, i)
      <4>1. CASE i = 0 BY <4>1
      <4>2. CASE i # 0
        <5>1. i - 1 \in 0..(n - 1)
          BY <4>2, <2>3
        <5>2. f[i - 1] = g[i - 1]
          <6> HIDE DEF Body, g, T
          <6> QED BY <5>1, <3>3
        <5> HIDE DEF g
        <5> QED BY <5>2
      <4> QED BY <4>1, <4>2
    <3>5. g = [i \in 0..n |-> Body(g, i)]
      <4> HIDE DEF Body
      <4> QED BY <3>4
    <3> HIDE DEF g
    <3> QED BY <3>5, <2>3
  <2> QED BY <2>4, <2>5
<1> DEFINE p == Path(b, l)
<1>2. p = CHOOSE f : f = [i \in 0..Len(l) |-> Body(f, i)]
  BY Zenon DEF Path
<1> HIDE DEF Body, p
<1>3. p = [i \in 0..Len(l) |-> Body(p, i)]
  BY <1>1, <1>2, Zenon
<1>4. \A i \in 0..Len(l) : p[i] = Body(p, i)
  BY <1>3
<1>5. p[0] = b /\ \A i \in 1..Len(l) : p[i] = Step(p[i - 1], l[i])
  BY <1>4 DEF Body, Step
<1> QED BY <1>5 DEF p

\* Two lines that go on with the same n moves from the same board, the second one
\* after o moves, pass through the same boards.
GoesOnAs(n, b2, l2, o, b, l) ==
  /\ n \in Nat /\ o \in Nat
  /\ Len(l) \in Nat /\ n <= Len(l)
  /\ Len(l2) \in Nat /\ o + n <= Len(l2)
  /\ Path(b2, l2)[o] = b
  /\ \A i \in 1..n : l2[o + i] = l[i]

LEMMA PathsAgree ==
  ASSUME NEW n, NEW o, NEW b, NEW l, NEW b2, NEW l2, GoesOnAs(n, b2, l2, o, b, l)
  PROVE  \A i \in 0..n : Path(b2, l2)[o + i] = Path(b, l)[i]
<1> DEFINE p == Path(b, l)
           p2 == Path(b2, l2)
           T == {i \in 0..n : p2[o + i] # p[i]}
<1>0. /\ n \in Nat /\ o \in Nat
      /\ Len(l) \in Nat /\ n <= Len(l)
      /\ Len(l2) \in Nat /\ o + n <= Len(l2)
      /\ p2[o] = b
      /\ \A i \in 1..n : l2[o + i] = l[i]
  BY DEF GoesOnAs
<1>1. p[0] = b /\ \A i \in 1..Len(l) : p[i] = Step(p[i - 1], l[i])
  BY <1>0, PathEquation
<1>2. \A i \in 1..Len(l2) : p2[i] = Step(p2[i - 1], l2[i])
  BY <1>0, PathEquation
<1> HIDE DEF p, p2
<1>4. T = {}
  <2>1. SUFFICES ASSUME T # {} PROVE FALSE
    OBVIOUS
  <2>2. PICK i \in T : \A k \in T : i <= k
    <3>1. T \in SUBSET Nat
      BY <1>0
    <3> HIDE DEF T
    <3> QED BY <2>1, <3>1, LeastNumber
  <2>3. i \in 0..n /\ p2[o + i] # p[i]
    BY <2>2
  <2>4. CASE i = 0
    <3>1. o + i = o
      BY <2>4, <1>0
    <3> QED BY <3>1, <2>3, <2>4, <1>0, <1>1
  <2>5. CASE i # 0
    <3>1. /\ i \in 1..n /\ i \in 1..Len(l) /\ i - 1 \in 0..n
          /\ o + i \in 1..Len(l2) /\ (o + i) - 1 = o + (i - 1)
      BY <2>3, <2>5, <1>0
    <3>2. i - 1 \notin T
      <4> HIDE DEF T
      <4> QED BY <3>1, <2>2, <1>0
    <3>3. p2[o + (i - 1)] = p[i - 1]
      BY <3>1, <3>2
    <3>4. p2[o + i] = Step(p2[o + (i - 1)], l2[o + i]) /\ p[i] = Step(p[i - 1], l[i])
      BY <3>1, <1>1, <1>2
    <3>5. l2[o + i] = l[i]
      BY <3>1, <1>0
    <3> QED BY <3>3, <3>4, <3>5, <2>3
  <2> QED BY <2>4, <2>5
<1>5. \A i \in 0..n : p2[o + i] = p[i]
  BY <1>4
<1> QED BY <1>5 DEF p, p2

\* The same from the first move on.
LEMMA PathsBeginAlike ==
  ASSUME NEW n \in Nat, NEW b, NEW l, Len(l) \in Nat, n <= Len(l),
         NEW l2, Len(l2) \in Nat, n <= Len(l2), \A i \in 1..n : l2[i] = l[i]
  PROVE  \A i \in 0..n : Path(b, l2)[i] = Path(b, l)[i]
<1>1. Path(b, l2)[0] = b
  BY PathEquation
<1>2. 0 \in Nat /\ 0 + n <= Len(l2) /\ \A i \in 1..n : l2[0 + i] = l[i]
  OBVIOUS
<1>3. \A i \in 0..n : Path(b, l2)[0 + i] = Path(b, l)[i]
  <2>1. GoesOnAs(n, b, l2, 0, b, l)
    BY <1>1, <1>2 DEF GoesOnAs
  <2> QED BY <2>1, PathsAgree
<1>4. \A i \in 0..n : 0 + i = i
  OBVIOUS
<1> QED BY <1>3, <1>4

\* The same after the first move.
IsTail(s, l) ==
  /\ Len(s) \in Nat
  /\ Len(l) = 1 + Len(s)
  /\ \A i \in 1..Len(s) : l[1 + i] = s[i]

LEMMA PathsGoOnAlike ==
  ASSUME NEW b, NEW s, NEW l, IsTail(s, l)
  PROVE  \A i \in 0..Len(s) : Path(b, l)[1 + i] = Path(Step(b, l[1]), s)[i]
<1> DEFINE c == Step(b, l[1])
           n == Len(s)
<1>1. Len(l) \in Nat /\ 1 \in 1..Len(l) /\ 1 - 1 = 0
  BY DEF IsTail
<1>2. Path(b, l)[0] = b /\ \A i \in 1..Len(l) : Path(b, l)[i] = Step(Path(b, l)[i - 1], l[i])
  BY <1>1, PathEquation
<1>3. Path(b, l)[1] = c
  BY <1>1, <1>2
<1>4. n \in Nat /\ 1 \in Nat /\ n <= Len(s) /\ 1 + n <= Len(l) /\ \A i \in 1..n : l[1 + i] = s[i]
  BY DEF IsTail
<1> HIDE DEF c, n
<1>5. \A i \in 0..n : Path(b, l)[1 + i] = Path(c, s)[i]
  <2>1. GoesOnAs(n, b, l, 1, c, s)
    BY <1>1, <1>3, <1>4 DEF GoesOnAs
  <2> QED BY <2>1, PathsAgree
<1> QED BY <1>5 DEF c, n

\* What a line of n moves is, without reference to shorter ones: each move is in the
\* list of the board it is played on.
IsLine(b, n, l) ==
  /\ l \in Seq(Nat)
  /\ Len(l) = n
  /\ \A i \in 1..n : l[i] \in 1..Len(LegalMoves(Path(b, l)[i - 1]))

\* The boards of a game have lists of moves.
LEMMA MoveLists ==
  ASSUME IsGame, NEW b \in Boards
  PROVE  /\ Len(LegalMoves(b)) \in Nat
         /\ DOMAIN LegalMoves(b) = 1..Len(LegalMoves(b))
         /\ \A i \in 1..Len(LegalMoves(b)) : Step(b, i) \in Boards
<1>1. PICK S : LegalMoves(b) \in Seq(S)
  BY DEF IsGame
<1> QED BY <1>1 DEF IsGame, Step

\* A line stays on the boards of the game.
LEMMA LinesStayInside ==
  ASSUME IsGame, NEW b \in Boards, NEW n \in Nat, NEW l, IsLine(b, n, l)
  PROVE  \A i \in 0..n : Path(b, l)[i] \in Boards
<1> DEFINE p == Path(b, l)
           T == {i \in 0..n : p[i] \notin Boards}
<1>1. p[0] = b /\ \A i \in 1..n : p[i] = Step(p[i - 1], l[i])
  <2>1. Len(l) = n /\ Len(l) \in Nat
    BY DEF IsLine
  <2> QED BY <2>1, PathEquation
<1>2. \A i \in 1..n : l[i] \in 1..Len(LegalMoves(p[i - 1]))
  BY DEF IsLine
<1> HIDE DEF p
<1>3. T = {}
  <2>1. SUFFICES ASSUME T # {} PROVE FALSE
    OBVIOUS
  <2>2. PICK i \in T : \A k \in T : i <= k
    <3>1. T \in SUBSET Nat
      OBVIOUS
    <3> HIDE DEF T
    <3> QED BY <2>1, <3>1, LeastNumber
  <2>3. i \in 0..n /\ p[i] \notin Boards
    BY <2>2
  <2>4. i \in 1..n /\ i - 1 \in 0..n
    BY <2>3, <1>1
  <2>5. i - 1 \notin T
    <3> HIDE DEF T
    <3> QED BY <2>2, <2>4
  <2>6. p[i - 1] \in Boards
    BY <2>4, <2>5
  <2> QED BY <2>3, <2>4, <2>6, <1>1, <1>2, MoveLists
<1> QED BY <1>3 DEF p

\* The first moves of a line are a line.
LEMMA LinesBegin ==
  ASSUME NEW b, NEW n \in Nat \ {0}, NEW l, IsLine(b, n, l)
  PROVE  LET s == SubSeq(l, 1, n - 1)
         IN  /\ IsLine(b, n - 1, s)
             /\ l[n] \in 1..Len(LegalMoves(Path(b, s)[n - 1]))
             /\ l = Append(s, l[n])
<1> DEFINE s == SubSeq(l, 1, n - 1)
<1>1. l \in Seq(Nat) /\ Len(l) = n /\ \A i \in 1..n : l[i] \in 1..Len(LegalMoves(Path(b, l)[i - 1]))
  BY DEF IsLine
<1>2. s \in Seq(Nat) /\ Len(s) = n - 1 /\ \A i \in 1..(n - 1) : s[i] = l[i]
  BY <1>1
<1>3. l = Append(s, l[n])
  <2> DEFINE a == Append(s, l[n])
  <2>1. l[n] \in Nat
    BY <1>1
  <2>2. a \in Seq(Nat) /\ Len(a) = n /\ a[n] = l[n] /\ \A i \in 1..(n - 1) : a[i] = l[i]
    <3> HIDE DEF s
    <3> QED BY <1>2, <2>1
  <2>3. \A i \in 1..n : a[i] = l[i]
    BY <2>2
  <2> HIDE DEF a
  <2>4. a = l
    BY <2>2, <2>3, <1>1, SeqEqual
  <2> QED BY <2>4 DEF a
<1> HIDE DEF s
<1>4. \A i \in 0..(n - 1) : Path(b, l)[i] = Path(b, s)[i]
  <2>1. Len(l) \in Nat /\ Len(s) \in Nat /\ n - 1 \in Nat /\ n - 1 <= Len(s) /\ n - 1 <= Len(l)
    BY <1>1, <1>2
  <2> QED BY <2>1, <1>2, PathsBeginAlike
<1>5. ASSUME NEW i \in 1..(n - 1) PROVE s[i] \in 1..Len(LegalMoves(Path(b, s)[i - 1]))
  <2>1. i \in 1..n /\ i - 1 \in 0..(n - 1)
    OBVIOUS
  <2> QED BY <2>1, <1>1, <1>2, <1>4
<1>6. n \in 1..n /\ n - 1 \in 0..(n - 1)
  OBVIOUS
<1> QED BY <1>1, <1>2, <1>3, <1>4, <1>5, <1>6 DEF IsLine, s

\* A line goes on with any move of the board it leads to.
LEMMA LinesGoOn ==
  ASSUME NEW b, NEW n \in Nat \ {0}, NEW s, IsLine(b, n - 1, s),
         NEW x \in Nat, x \in 1..Len(LegalMoves(Path(b, s)[n - 1]))
  PROVE  IsLine(b, n, Append(s, x))
<1> DEFINE l == Append(s, x)
<1>1. s \in Seq(Nat) /\ Len(s) = n - 1
      /\ \A i \in 1..(n - 1) : s[i] \in 1..Len(LegalMoves(Path(b, s)[i - 1]))
  BY DEF IsLine
<1>2. l \in Seq(Nat) /\ Len(l) = n /\ l[n] = x /\ \A i \in 1..(n - 1) : l[i] = s[i]
  BY <1>1
<1> HIDE DEF l
<1> DEFINE k == n - 1
<1>3. \A i \in 0..(n - 1) : Path(b, l)[i] = Path(b, s)[i]
  <2>1. /\ Len(l) \in Nat /\ Len(s) \in Nat /\ k \in Nat /\ k <= Len(s) /\ k <= Len(l)
        /\ \A i \in 1..k : l[i] = s[i]
    BY <1>1, <1>2
  <2> HIDE DEF k
  <2>2. \A i \in 0..k : Path(b, l)[i] = Path(b, s)[i]
    BY <2>1, PathsBeginAlike
  <2> QED BY <2>2 DEF k
<1>4. ASSUME NEW i \in 1..n PROVE l[i] \in 1..Len(LegalMoves(Path(b, l)[i - 1]))
  <2>1. CASE i = n BY <2>1, <1>2, <1>3
  <2>2. CASE i # n
    <3>1. i \in 1..(n - 1) /\ i - 1 \in 0..(n - 1)
      BY <2>2
    <3> QED BY <3>1, <1>1, <1>2, <1>3
  <2> QED BY <2>1, <2>2
<1> QED BY <1>2, <1>4 DEF IsLine, l

\* The lines of n moves, as a set.
LineSet(b, n) == {l \in Seq(Nat) : IsLine(b, n, l)}

\* The equation that defines Lines holds of these sets.
LongerLines(b, n, shorter) ==
  UNION { {Append(l, i) : i \in DOMAIN LegalMoves(Path(b, l)[n - 1])} : l \in shorter }

LEMMA LineSetEquation ==
  ASSUME IsGame, NEW b \in Boards
  PROVE  /\ LineSet(b, 0) = {<<>>}
         /\ \A n \in Nat \ {0} : LineSet(b, n) = LongerLines(b, n, LineSet(b, n - 1))
<1>1. LineSet(b, 0) = {<<>>}
  <2>1. ASSUME NEW l \in LineSet(b, 0) PROVE l = <<>>
    <3>1. l \in Seq(Nat) /\ Len(l) = 0
      BY DEF LineSet, IsLine
    <3> QED BY <3>1
  <2>2. <<>> \in LineSet(b, 0)
    <3>1. <<>> \in Seq(Nat) /\ Len(<<>>) = 0
      OBVIOUS
    <3> QED BY <3>1 DEF LineSet, IsLine
  <2> QED BY <2>1, <2>2
<1>2. ASSUME NEW n \in Nat \ {0}
      PROVE  LineSet(b, n) = LongerLines(b, n, LineSet(b, n - 1))
  <2>0. n - 1 \in Nat /\ n - 1 \in 0..(n - 1)
    OBVIOUS
  <2>1. ASSUME NEW s \in LineSet(b, n - 1)
        PROVE  /\ IsLine(b, n - 1, s)
               /\ DOMAIN LegalMoves(Path(b, s)[n - 1]) = 1..Len(LegalMoves(Path(b, s)[n - 1]))
               /\ Len(LegalMoves(Path(b, s)[n - 1])) \in Nat
    <3>1. IsLine(b, n - 1, s)
      BY DEF LineSet
    <3>2. Path(b, s)[n - 1] \in Boards
      BY <2>0, <3>1, LinesStayInside
    <3> QED BY <3>1, <3>2, MoveLists
  <2>2. ASSUME NEW l \in LineSet(b, n) PROVE l \in LongerLines(b, n, LineSet(b, n - 1))
    <3> DEFINE s == SubSeq(l, 1, n - 1)
    <3>1. IsLine(b, n, l)
      BY DEF LineSet
    <3>2. /\ IsLine(b, n - 1, s)
          /\ l[n] \in 1..Len(LegalMoves(Path(b, s)[n - 1]))
          /\ l = Append(s, l[n])
      BY <3>1, LinesBegin
    <3> HIDE DEF s
    <3>3. s \in LineSet(b, n - 1)
      BY <3>2 DEF LineSet, IsLine
    <3>4. l[n] \in DOMAIN LegalMoves(Path(b, s)[n - 1])
      BY <2>1, <3>2, <3>3
    <3> QED BY <3>2, <3>3, <3>4 DEF LongerLines
  <2>3. ASSUME NEW l \in LongerLines(b, n, LineSet(b, n - 1)) PROVE l \in LineSet(b, n)
    <3>1. PICK s \in LineSet(b, n - 1) :
            \E i \in DOMAIN LegalMoves(Path(b, s)[n - 1]) : l = Append(s, i)
      BY DEF LongerLines
    <3>2. PICK i \in DOMAIN LegalMoves(Path(b, s)[n - 1]) : l = Append(s, i)
      BY <3>1
    <3>3. IsLine(b, n - 1, s) /\ i \in 1..Len(LegalMoves(Path(b, s)[n - 1])) /\ i \in Nat
      BY <2>1, <3>1, <3>2
    <3>4. IsLine(b, n, l)
      BY <3>2, <3>3, LinesGoOn
    <3> QED BY <3>4 DEF LineSet, IsLine
  <2> QED BY <2>2, <2>3
<1> QED BY <1>1, <1>2

\* Lines is the set of the lines.
LEMMA LinesAreTheLines ==
  ASSUME IsGame, NEW b \in Boards, NEW d \in Nat
  PROVE  Lines(b, d) = LineSet(b, d)
<1> DEFINE Body(f, n) == IF n = 0 THEN {<<>>} ELSE LongerLines(b, n, f[n - 1])
           g == [n \in 0..d |-> LineSet(b, n)]
           p == CHOOSE f : f = [n \in 0..d |-> Body(f, n)]
<1>1. Lines(b, d) = p[d]
  BY Zenon DEF Lines, LongerLines
<1>2. LineSet(b, 0) = {<<>>}
      /\ \A n \in Nat \ {0} : LineSet(b, n) = LongerLines(b, n, LineSet(b, n - 1))
  BY LineSetEquation
<1>3. g = [n \in 0..d |-> Body(g, n)]
  <2>1. ASSUME NEW n \in 0..d PROVE LineSet(b, n) = Body(g, n)
    <3>1. CASE n = 0 BY <3>1, <1>2
    <3>2. CASE n # 0
      <4>1. n - 1 \in 0..d /\ n \in Nat \ {0}
        BY <3>2
      <4>2. g[n - 1] = LineSet(b, n - 1)
        BY <4>1
      <4> HIDE DEF g
      <4> QED BY <3>2, <4>1, <4>2, <1>2
    <3> QED BY <3>1, <3>2
  <2> HIDE DEF Body
  <2> QED BY <2>1
<1> HIDE DEF g
<1>4. p = [n \in 0..d |-> Body(p, n)]
  <2> HIDE DEF Body
  <2> QED BY <1>3, Zenon
<1> HIDE DEF p
<1>5. \A n \in 0..d : p[n] = Body(p, n)
  <2> HIDE DEF Body
  <2> QED BY <1>4
<1> DEFINE T == {n \in 0..d : p[n] # LineSet(b, n)}
<1>6. T = {}
  <2>1. SUFFICES ASSUME T # {} PROVE FALSE
    OBVIOUS
  <2>2. PICK n \in T : \A k \in T : n <= k
    <3>1. T \in SUBSET Nat
      OBVIOUS
    <3> HIDE DEF T
    <3> QED BY <2>1, <3>1, LeastNumber
  <2>3. n \in 0..d /\ p[n] # LineSet(b, n)
    BY <2>2
  <2>4. CASE n = 0 BY <2>3, <2>4, <1>2, <1>5
  <2>5. CASE n # 0
    <3>1. n - 1 \in 0..d /\ n \in Nat \ {0}
      BY <2>3, <2>5
    <3>2. n - 1 \notin T
      <4> HIDE DEF T
      <4> QED BY <3>1, <2>2
    <3>3. p[n - 1] = LineSet(b, n - 1)
      BY <3>1, <3>2
    <3>4. p[n] = LongerLines(b, n, p[n - 1])
      BY <2>3, <2>5, <1>5
    <3> QED BY <3>1, <3>3, <3>4, <2>3, <1>2
  <2> QED BY <2>4, <2>5
<1>7. p[d] = LineSet(b, d)
  BY <1>6
<1> QED BY <1>1, <1>7

-----------------------------------------------------------------------------
(* Counting by the first move. *)

\* The lines that begin with one of the first k moves.
First(task, k) == {l \in LineSet(task[1], task[2]) : l[1] <= k}

\* A move in front of a line.
Prepend(k, s) == <<k>> \o s

\* The move is legal, and the line can go on behind it.
CanBegin(b, n, k, s) ==
  /\ n \in Nat \ {0}
  /\ k \in Nat /\ k \in 1..Len(LegalMoves(b))
  /\ s \in LineSet(Step(b, k), n - 1)

\* It is a line.
LEMMA LinesPrepend ==
  ASSUME NEW b, NEW n, NEW k, NEW s, CanBegin(b, n, k, s)
  PROVE  /\ Prepend(k, s) \in LineSet(b, n)
         /\ Prepend(k, s)[1] = k
         /\ Tail(Prepend(k, s)) = s
<1> DEFINE l == <<k>> \o s
           m == n - 1
<1>0. n \in Nat \ {0} /\ k \in Nat /\ k \in 1..Len(LegalMoves(b)) /\ s \in LineSet(Step(b, k), m)
  BY DEF CanBegin
<1>1. s \in Seq(Nat) /\ Len(s) = m /\ m \in Nat
      /\ \A i \in 1..m : s[i] \in 1..Len(LegalMoves(Path(Step(b, k), s)[i - 1]))
  BY <1>0 DEF LineSet, IsLine
<1>2. l \in Seq(Nat) /\ Len(l) = n /\ l[1] = k /\ \A i \in 1..m : l[1 + i] = s[i]
  BY <1>0, <1>1
<1>3. Tail(l) = s
  <2>1. Tail(l) \in Seq(Nat) /\ Len(Tail(l)) = m /\ \A i \in 1..m : Tail(l)[i] = l[i + 1]
    <3> HIDE DEF l
    <3> QED BY <1>0, <1>1, <1>2
  <2>2. \A i \in 1..m : Tail(l)[i] = s[i]
    <3>1. \A i \in 1..m : i + 1 = 1 + i
      BY <1>1
    <3> HIDE DEF l, m
    <3> QED BY <2>1, <3>1, <1>2
  <2> HIDE DEF l, m
  <2> QED BY <2>1, <2>2, <1>1, SeqEqual
<1> HIDE DEF l
<1>4. Len(l) \in Nat /\ Len(s) \in Nat /\ Len(l) = 1 + Len(s) /\ Len(s) = m
      /\ \A i \in 1..Len(s) : l[1 + i] = s[i]
  BY <1>0, <1>1, <1>2
<1>5. Path(b, l)[0] = b /\ \A i \in 0..m : Path(b, l)[1 + i] = Path(Step(b, k), s)[i]
  <2>1. Path(b, l)[0] = b
    BY <1>4, PathEquation
  <2>2. \A i \in 0..Len(s) : Path(b, l)[1 + i] = Path(Step(b, l[1]), s)[i]
    <3>1. IsTail(s, l)
      BY <1>4 DEF IsTail
    <3> QED BY <3>1, PathsGoOnAlike
  <2> QED BY <2>1, <2>2, <1>2, <1>4
<1>6. ASSUME NEW i \in 1..n PROVE l[i] \in 1..Len(LegalMoves(Path(b, l)[i - 1]))
  <2>1. CASE i = 1
    <3>1. i - 1 = 0
      BY <2>1
    <3> QED BY <2>1, <3>1, <1>0, <1>2, <1>5
  <2>2. CASE i # 1
    <3>1. i - 1 \in 1..m /\ (i - 1) - 1 \in 0..m /\ 1 + (i - 1) = i /\ 1 + ((i - 1) - 1) = i - 1
      BY <2>2, <1>0
    <3>2. l[i] = s[i - 1]
      BY <3>1, <1>2
    <3>3. Path(b, l)[i - 1] = Path(Step(b, k), s)[(i - 1) - 1]
      BY <3>1, <1>5
    <3> QED BY <3>1, <3>2, <3>3, <1>1
  <2> QED BY <2>1, <2>2
<1>7. l \in LineSet(b, n)
  BY <1>2, <1>6 DEF LineSet, IsLine
<1> QED BY <1>2, <1>3, <1>7 DEF l, Prepend

\* What follows the first move of a line is a line.
LEMMA LinesContinue ==
  ASSUME NEW b, NEW n \in Nat \ {0}, NEW l \in LineSet(b, n)
  PROVE  /\ l[1] \in 1..Len(LegalMoves(b)) /\ l[1] \in Nat
         /\ Tail(l) \in LineSet(Step(b, l[1]), n - 1)
         /\ l = <<l[1]>> \o Tail(l)
<1> DEFINE s == Tail(l)
           c == Step(b, l[1])
           m == n - 1
<1>1. l \in Seq(Nat) /\ Len(l) = n /\ \A i \in 1..n : l[i] \in 1..Len(LegalMoves(Path(b, l)[i - 1]))
  BY DEF LineSet, IsLine
<1>2. s \in Seq(Nat) /\ Len(s) = m /\ m \in Nat /\ \A i \in 1..m : s[i] = l[i + 1]
  BY <1>1
<1>3. l = <<l[1]>> \o s
  <2> DEFINE k == <<l[1]>> \o s
  <2>1. l[1] \in Nat
    BY <1>1
  <2>2. k \in Seq(Nat) /\ Len(k) = n /\ k[1] = l[1] /\ \A i \in 1..m : k[1 + i] = s[i]
    <3> HIDE DEF s
    <3> QED BY <1>2, <2>1
  <2>3. ASSUME NEW i \in 1..n PROVE k[i] = l[i]
    <3>1. CASE i = 1 BY <3>1, <2>2
    <3>2. CASE i # 1
      <4>1. i - 1 \in 1..m /\ 1 + (i - 1) = i /\ (i - 1) + 1 = i
        BY <3>2
      <4> HIDE DEF k, s, m
      <4> QED BY <4>1, <2>2, <1>2
    <3> QED BY <3>1, <3>2
  <2> HIDE DEF k
  <2>4. k = l
    BY <2>2, <2>3, <1>1, SeqEqual
  <2> QED BY <2>4 DEF k
<1>4. IsTail(s, l)
  <2>1. \A i \in 1..m : i + 1 = 1 + i
    BY <1>2
  <2> HIDE DEF s
  <2> QED BY <1>1, <1>2, <2>1 DEF IsTail
<1> HIDE DEF s
<1>5. \A i \in 0..m : Path(b, l)[1 + i] = Path(c, s)[i]
  BY <1>2, <1>4, PathsGoOnAlike
<1>6. Path(b, l)[0] = b
  BY <1>1, PathEquation
<1>7. l[1] \in 1..Len(LegalMoves(b)) /\ l[1] \in Nat
  <2>1. 1 \in 1..n /\ 1 - 1 = 0
    OBVIOUS
  <2> QED BY <2>1, <1>1, <1>6
<1>8. ASSUME NEW i \in 1..m PROVE s[i] \in 1..Len(LegalMoves(Path(c, s)[i - 1]))
  <2>1. i + 1 \in 1..n /\ i - 1 \in 0..m /\ 1 + (i - 1) = (i + 1) - 1
    OBVIOUS
  <2>2. l[i + 1] \in 1..Len(LegalMoves(Path(b, l)[(i + 1) - 1]))
    BY <2>1, <1>1
  <2>3. Path(b, l)[(i + 1) - 1] = Path(c, s)[i - 1]
    BY <2>1, <1>5
  <2> QED BY <2>2, <2>3, <1>2
<1>9. s \in LineSet(c, n - 1)
  BY <1>2, <1>8 DEF LineSet, IsLine
<1> QED BY <1>3, <1>7, <1>9 DEF s

\* A call's answer: the number of its lines.
Answers(task, n) ==
  /\ IsFiniteSet(LineSet(task[1], task[2]))
  /\ n = Cardinality(LineSet(task[1], task[2]))

\* The sum over the first k moves.
SumIs(task, k, res) ==
  /\ IsFiniteSet(First(task, k))
  /\ res = Cardinality(First(task, k))

Tasks == Boards \X Nat

\* At the start nothing is counted.
LEMMA NothingCounted ==
  ASSUME NEW task \in Tasks, task[2] # 0
  PROVE  SumIs(task, 0, 0)
<1>1. ASSUME NEW l \in First(task, 0) PROVE FALSE
  <2>1. l \in LineSet(task[1], task[2]) /\ l[1] <= 0 /\ task[2] \in Nat \ {0}
    BY DEF First, Tasks
  <2>2. l[1] \in 1..Len(LegalMoves(task[1])) /\ l[1] \in Nat
    BY <2>1, LinesContinue
  <2> QED BY <2>1, <2>2
<1>2. First(task, 0) = {}
  BY <1>1
<1> QED BY <1>2, FS_EmptySet DEF SumIs

\* Adding the answer for the next move counts the lines that begin with it.
LEMMA CountNext ==
  ASSUME IsGame, NEW task \in Tasks, task[2] # 0,
         NEW k \in 1..Len(LegalMoves(task[1])), NEW res, SumIs(task, k - 1, res),
         NEW n, Answers(<<Step(task[1], k), task[2] - 1>>, n)
  PROVE  SumIs(task, k, res + n)
<1> DEFINE b == task[1]
           d == task[2]
           A == First(task, k - 1)
           B == {l \in LineSet(b, d) : l[1] = k}
           C == LineSet(Step(b, k), d - 1)
           f == [s \in C |-> Prepend(k, s)]
<1>1. b \in Boards /\ d \in Nat \ {0} /\ Len(LegalMoves(b)) \in Nat /\ k \in Nat
  <2>1. b \in Boards /\ d \in Nat \ {0}
    BY DEF Tasks
  <2> QED BY <2>1, MoveLists
<1>2. IsFiniteSet(A) /\ res = Cardinality(A) /\ IsFiniteSet(C) /\ n = Cardinality(C)
  BY DEF SumIs, Answers
<1>3. \A s \in C : Prepend(k, s) \in LineSet(b, d) /\ Prepend(k, s)[1] = k /\ Tail(Prepend(k, s)) = s
  <2>1. ASSUME NEW s \in C PROVE CanBegin(b, d, k, s)
    BY <1>1 DEF CanBegin
  <2> HIDE DEF b, d
  <2> QED BY <2>1, LinesPrepend
<1>4. \A l \in B : Tail(l) \in C /\ l = Prepend(k, Tail(l))
  BY <1>1, LinesContinue DEF Prepend
<1> HIDE DEF C
<1>5. f \in Surjection(C, B)
  <2>1. f \in [C -> B]
    BY <1>3
  <2>2. ASSUME NEW l \in B PROVE \E s \in C : f[s] = l
    BY <1>4
  <2> HIDE DEF f, B
  <2> QED BY <2>1, <2>2 DEF Surjection
<1>6. f \in Injection(C, B)
  <2>1. f \in [C -> B]
    BY <1>3
  <2>2. ASSUME NEW s \in C, NEW t \in C, f[s] = f[t] PROVE s = t
    <3>1. Tail(f[s]) = s /\ Tail(f[t]) = t
      BY <1>3
    <3> HIDE DEF f
    <3> QED BY <3>1, <2>2
  <2> HIDE DEF f, B
  <2> QED BY <2>1, <2>2 DEF Injection, IsInjective
<1>7. IsFiniteSet(B) /\ Cardinality(B) = n
  <2> HIDE DEF f, B
  <2> QED BY <1>2, <1>5, <1>6, FS_Surjection
<1>8. A \cap B = {} /\ First(task, k) = A \cup B
  <2>1. \A l \in LineSet(b, d) : l[1] \in Nat
    BY <1>1, LinesContinue
  <2>2. \A l \in LineSet(b, d) : (l[1] <= k <=> l[1] <= k - 1 \/ l[1] = k)
                                 /\ ~(l[1] <= k - 1 /\ l[1] = k)
    BY <2>1, <1>1
  <2> QED BY <2>2 DEF First
<1> HIDE DEF A, B
<1>9. IsFiniteSet(A \cup B) /\ Cardinality(A \cup B) = Cardinality(A) + Cardinality(B) - Cardinality(A \cap B)
  BY <1>2, <1>7, FS_Union
<1>10. Cardinality(A) \in Nat /\ Cardinality(B) \in Nat /\ Cardinality(A \cap B) = 0
  BY <1>2, <1>7, <1>8, FS_CardinalityType, FS_EmptySet
<1>11. Cardinality(A \cup B) = res + n
  BY <1>2, <1>7, <1>9, <1>10
<1> QED BY <1>8, <1>9, <1>11 DEF SumIs

\* After the last move all lines are counted.
LEMMA AllCounted ==
  ASSUME IsGame, NEW task \in Tasks, task[2] # 0, NEW res,
         SumIs(task, Len(LegalMoves(task[1])), res)
  PROVE  Answers(task, res)
<1>1. task[1] \in Boards /\ task[2] \in Nat \ {0}
  BY DEF Tasks
<1>2. \A l \in LineSet(task[1], task[2]) : l[1] <= Len(LegalMoves(task[1]))
  <2>1. Len(LegalMoves(task[1])) \in Nat
    BY <1>1, MoveLists
  <2>2. \A l \in LineSet(task[1], task[2]) :
          l[1] \in 1..Len(LegalMoves(task[1])) /\ l[1] \in Nat
    BY <1>1, LinesContinue
  <2> QED BY <2>1, <2>2
<1>3. First(task, Len(LegalMoves(task[1]))) = LineSet(task[1], task[2])
  BY <1>2 DEF First
<1> QED BY <1>3 DEF SumIs, Answers

\* The one line without moves.
LEMMA OneEmptyLine ==
  ASSUME IsGame, NEW task \in Tasks, task[2] = 0
  PROVE  Answers(task, 1)
<1>1. task[1] \in Boards
  BY DEF Tasks
<1>2. LineSet(task[1], task[2]) = {<<>>}
  BY <1>1, LineSetEquation
<1> QED BY <1>2, FS_Singleton DEF Answers

-----------------------------------------------------------------------------
(* The inductive invariant. *)

\* The move at a place of the list, as the generators push it.
Pushed(task, i) == [move |-> LegalMoves(task[1])[i], board_state_ |-> task[1]]

\* How many moves of the list have been taken from it.
Taken(f, task) == Len(LegalMoves(task[1])) - Len(f.moves)

\* In the loop: the moves still to do are the end of the list, each with the board
\* that was given, and so is the one in progress; res is the sum over those before.
InLoop(f, task) ==
  /\ task[2] # 0
  /\ \E S : f.moves \in Seq(S)
  /\ Taken(f, task) \in Nat
  /\ \A k \in 1..Len(f.moves) : f.moves[k] = Pushed(task, Taken(f, task) + k)
  /\ f.phase = "looping" => SumIs(task, Taken(f, task), f.res)
  /\ f.phase = "waiting" =>
       /\ Taken(f, task) # 0
       /\ Head(f.trying) = Pushed(task, Taken(f, task))
       /\ SumIs(task, Taken(f, task) - 1, f.res)

\* A frame that counts the lines of its task.
Serves(f, task) ==
  /\ task \in Tasks
  /\ DOMAIN f = {"phase", "board", "half_move_depth", "moves", "trying", "res"}
  /\ f.phase \in {"called", "looping", "waiting"}
  /\ f.half_move_depth = task[2]
  /\ f.board = IF f.phase = "waiting" THEN DoMove(task[1], Head(f.trying).move) ELSE task[1]
  /\ f.phase = "called" => f.res = 0
  /\ f.phase # "called" => InLoop(f, task)

\* What call number i has been asked for, by the user or by its caller; number 0 is
\* the one that has just returned.
TaskIn(s, root, i) ==
  IF i = Len(s) THEN root ELSE <<s[i + 1].board, s[i + 1].half_move_depth - 1>>

Working(s, root) ==
  /\ \E S : s \in Seq(S)
  /\ \A i \in 1..Len(s) : Serves(s[i], TaskIn(s, root, i))
  /\ \A i \in 2..Len(s) : s[i].phase = "waiting"

Inv ==
  /\ query \in Tasks
  /\ Working(stack, query)
  /\ stack = <<>> \/ top.phase = "waiting" => Answers(TaskIn(stack, query, 0), result)

\* The invariant contains both properties.
LEMMA InvImpliesTakenBack == Inv => EveryMoveIsTakenBack
<1> SUFFICES ASSUME Inv PROVE EveryMoveIsTakenBack
  OBVIOUS
<1>1. PICK S : stack \in Seq(S)
  BY DEF Inv, Working
<1>2. DOMAIN stack = 1..Len(stack)
  BY <1>1
<1>3. ASSUME NEW i \in DOMAIN stack
      PROVE  stack[i].board = IF stack[i].phase = "waiting"
                              THEN DoMove(Given(i), Head(stack[i].trying).move)
                              ELSE Given(i)
  <2>1. Serves(stack[i], TaskIn(stack, query, i))
    BY <1>2 DEF Inv, Working
  <2>2. TaskIn(stack, query, i)[1] = Given(i)
    BY DEF TaskIn, Given
  <2> QED BY <2>1, <2>2 DEF Serves
<1> QED BY <1>3 DEF EveryMoveIsTakenBack

LEMMA InvImpliesCounts == IsGame /\ Inv => CountsTheLines
<1> SUFFICES ASSUME IsGame, Inv PROVE CountsTheLines
  OBVIOUS
<1>0. query \in Tasks
  BY DEF Inv
<1>1. CASE stack = <<>>
  <2>1. TaskIn(stack, query, 0) = query
    BY <1>1 DEF TaskIn
  <2>2. Answers(query, result)
    BY <1>1, <2>1 DEF Inv
  <2>3. Lines(query[1], query[2]) = LineSet(query[1], query[2])
    BY <1>0, LinesAreTheLines DEF Tasks
  <2> QED BY <1>1, <2>2, <2>3 DEF CountsTheLines, At, Answers
<1>2. CASE stack # <<>> /\ top.phase = "waiting"
  <2> DEFINE task == TaskIn(stack, query, 1)
             n == Len(LegalMoves(task[1]))
  <2>1. PICK S : stack \in Seq(S)
    BY DEF Inv, Working
  <2>2. Len(stack) # 0 /\ 1 \in 1..Len(stack) /\ top = stack[1] /\ 0 + 1 = 1
    BY <1>2, <2>1 DEF top
  <2>3. Serves(top, task)
    BY <2>2 DEF Inv, Working
  <2> HIDE DEF task
  <2>4. TaskIn(stack, query, 0) = <<top.board, top.half_move_depth - 1>>
    BY <2>2 DEF TaskIn
  <2>5. Answers(<<top.board, top.half_move_depth - 1>>, result)
    BY <1>2, <2>4 DEF Inv
  <2>6. task \in Tasks /\ InLoop(top, task) /\ task[1] \in Boards /\ top.half_move_depth = task[2]
    BY <1>2, <2>3 DEF Serves, Tasks
  <2>7. Taken(top, task) \in 1..n
    <3>1. PICK R : top.moves \in Seq(R)
      BY <2>6 DEF InLoop
    <3>2. n \in Nat /\ Len(top.moves) \in Nat
      BY <2>6, <3>1, MoveLists
    <3>3. Taken(top, task) \in Nat /\ Taken(top, task) # 0
      BY <1>2, <2>6 DEF InLoop
    <3>4. Taken(top, task) = n - Len(top.moves)
      BY DEF Taken
    <3> HIDE DEF n
    <3> QED BY <3>2, <3>3, <3>4
  <2>8. top.board = Step(task[1], Taken(top, task))
    BY <1>2, <2>3, <2>6 DEF Serves, InLoop, Pushed, Step
  <2>9. top.board \in Boards
    BY <2>6, <2>7, <2>8, MoveLists
  <2>10. top.half_move_depth - 1 \in Nat
    BY <2>6 DEF InLoop, Tasks
  <2>11. Lines(top.board, top.half_move_depth - 1) = LineSet(top.board, top.half_move_depth - 1)
    BY <2>9, <2>10, LinesAreTheLines
  <2> QED BY <1>2, <2>5, <2>11 DEF CountsTheLines, Answers
<1>3. CASE stack # <<>> /\ top.phase # "waiting"
  BY <1>3 DEF CountsTheLines, At
<1> QED BY <1>1, <1>2, <1>3

\* The running frame goes on; what the others were asked for is not affected.
LEMMA ReplaceKeepsWorking ==
  ASSUME NEW s, NEW root, Working(s, root), s # <<>>,
         NEW f, Serves(f, TaskIn(s, root, 1))
  PROVE  Working(<<f>> \o Tail(s), root)
<1> DEFINE t == <<f>> \o Tail(s)
<1>1. PICK S : s \in Seq(S)
  BY DEF Working
<1>2. /\ t \in Seq(S \cup {f})
      /\ Len(t) = Len(s)
      /\ t[1] = f
      /\ \A i \in 2..Len(s) : t[i] = s[i]
  BY <1>1, ReplaceTop
<1>3. Len(s) \in Nat \ {0}
  BY <1>1
<1> HIDE DEF t
<1>4. ASSUME NEW i \in 1..Len(t) PROVE Serves(t[i], TaskIn(t, root, i))
  <2>1. TaskIn(t, root, i) = TaskIn(s, root, i)
    <3>1. CASE i = Len(t) BY <3>1, <1>2 DEF TaskIn
    <3>2. CASE i # Len(t)
      <4>1. i + 1 \in 2..Len(s)
        BY <3>2, <1>2, <1>3
      <4> QED BY <4>1, <3>2, <1>2 DEF TaskIn
    <3> QED BY <3>1, <3>2
  <2>2. CASE i = 1 BY <2>1, <2>2, <1>2
  <2>3. CASE i # 1
    <3>1. i \in 2..Len(s) /\ i \in 1..Len(s)
      BY <2>3, <1>2, <1>3
    <3> QED BY <3>1, <2>1, <1>2 DEF Working
  <2> QED BY <2>2, <2>3
<1>5. \A i \in 2..Len(t) : t[i].phase = "waiting"
  BY <1>2 DEF Working
<1> QED BY <1>2, <1>4, <1>5 DEF Working, t

\* A return: every frame keeps its caller.
LEMMA PopKeepsWorking ==
  ASSUME NEW s, NEW root, Working(s, root), s # <<>>
  PROVE  /\ Working(Tail(s), root)
         /\ TaskIn(Tail(s), root, 0) = TaskIn(s, root, 1)
<1> DEFINE t == Tail(s)
<1>1. PICK S : s \in Seq(S)
  BY DEF Working
<1>2. /\ t \in Seq(S)
      /\ Len(t) = Len(s) - 1
      /\ \A i \in 1..(Len(s) - 1) : t[i] = s[i + 1]
  BY <1>1, PopTop
<1>3. Len(s) \in Nat \ {0}
  BY <1>1
<1> HIDE DEF t
<1>4. ASSUME NEW i \in 0..Len(t) PROVE TaskIn(t, root, i) = TaskIn(s, root, i + 1)
  <2>1. CASE i = Len(t) BY <2>1, <1>2, <1>3 DEF TaskIn
  <2>2. CASE i # Len(t)
    <3>1. i + 1 \in 1..(Len(s) - 1) /\ i + 1 # Len(s)
      BY <2>2, <1>2, <1>3
    <3>2. t[i + 1] = s[(i + 1) + 1]
      BY <3>1, <1>2
    <3> QED BY <3>1, <3>2, <2>2 DEF TaskIn
  <2> QED BY <2>1, <2>2
<1>5. ASSUME NEW i \in 1..Len(t) PROVE Serves(t[i], TaskIn(t, root, i))
  <2>1. i + 1 \in 1..Len(s) /\ t[i] = s[i + 1] /\ i \in 0..Len(t)
    BY <1>2, <1>3
  <2>2. TaskIn(t, root, i) = TaskIn(s, root, i + 1)
    BY <2>1, <1>4
  <2> QED BY <2>1, <2>2 DEF Working
<1>6. ASSUME NEW i \in 2..Len(t) PROVE t[i].phase = "waiting"
  <2>1. i + 1 \in 2..Len(s) /\ t[i] = s[i + 1]
    BY <1>2, <1>3
  <2> QED BY <2>1 DEF Working
<1>7. TaskIn(t, root, 0) = TaskIn(s, root, 1)
  <2>1. 0 \in 0..Len(t) /\ 0 + 1 = 1
    BY <1>2, <1>3
  <2> QED BY <2>1, <1>4
<1> QED BY <1>2, <1>5, <1>6, <1>7 DEF Working, t

\* A call: the caller waits, and the new frame has the caller's task.
LEMMA PushKeepsWorking ==
  ASSUME NEW s, NEW root, Working(s, root), s # <<>>,
         NEW f, Serves(f, TaskIn(s, root, 1)), f.phase = "waiting",
         NEW g, Serves(g, <<f.board, f.half_move_depth - 1>>)
  PROVE  Working(<<g, f>> \o Tail(s), root)
<1> DEFINE t == <<g, f>> \o Tail(s)
<1>1. PICK S : s \in Seq(S)
  BY DEF Working
<1>2. /\ t \in Seq(S \cup {f, g})
      /\ Len(t) = Len(s) + 1
      /\ t[1] = g
      /\ t[2] = f
      /\ \A i \in 2..Len(s) : t[i + 1] = s[i]
  BY <1>1, PushTop
<1>3. Len(s) \in Nat \ {0}
  BY <1>1
<1> HIDE DEF t
<1>4. ASSUME NEW i \in 1..Len(s)
      PROVE  TaskIn(t, root, i + 1) = TaskIn(s, root, i)
  <2>1. CASE i = Len(s) BY <2>1, <1>2, <1>3 DEF TaskIn
  <2>2. CASE i # Len(s)
    <3>1. i + 1 \in 2..Len(s) /\ i + 1 # Len(t)
      BY <2>2, <1>2, <1>3
    <3>2. t[(i + 1) + 1] = s[i + 1]
      BY <3>1, <1>2
    <3> QED BY <3>1, <3>2, <2>2 DEF TaskIn
  <2> QED BY <2>1, <2>2
<1>5. ASSUME NEW i \in 1..Len(t)
      PROVE  Serves(t[i], TaskIn(t, root, i)) /\ (i # 1 => t[i].phase = "waiting")
  <2>1. CASE i = 1
    <3>1. 1 # Len(t) /\ 1 + 1 = 2 /\ TaskIn(t, root, 1) = <<f.board, f.half_move_depth - 1>>
      BY <1>2, <1>3 DEF TaskIn
    <3> QED BY <2>1, <3>1, <1>2
  <2>2. CASE i = 2
    <3>1. 1 \in 1..Len(s) /\ 1 + 1 = 2
      BY <1>3
    <3>2. TaskIn(t, root, 2) = TaskIn(s, root, 1)
      BY <3>1, <1>4
    <3> QED BY <2>2, <3>2, <1>2
  <2>3. CASE i \notin {1, 2}
    <3>1. i - 1 \in 1..Len(s) /\ i - 1 \in 2..Len(s) /\ i = (i - 1) + 1
      BY <2>3, <1>2, <1>3
    <3>2. t[(i - 1) + 1] = s[i - 1]
      BY <3>1, <1>2
    <3>3. TaskIn(t, root, (i - 1) + 1) = TaskIn(s, root, i - 1)
      BY <3>1, <1>4
    <3>4. Serves(s[i - 1], TaskIn(s, root, i - 1)) /\ s[i - 1].phase = "waiting"
      BY <3>1 DEF Working
    <3> QED BY <3>1, <3>2, <3>3, <3>4
  <2> QED BY <2>1, <2>2, <2>3
<1>6. \A i \in 2..Len(t) : i \in 1..Len(t) /\ i # 1
  BY <1>2, <1>3
<1> QED BY <1>2, <1>5, <1>6 DEF Working, t

-----------------------------------------------------------------------------
(* The steps. *)

\* What the running frame has been asked for, while there is one.
asked == TaskIn(stack, query, 1)

\* The running frame serves it.
LEMMA TopServes ==
  ASSUME Inv, stack # <<>>
  PROVE  Serves(top, asked) /\ TaskIn(stack, query, 0) = <<top.board, top.half_move_depth - 1>>
<1>1. PICK S : stack \in Seq(S)
  BY DEF Inv, Working
<1>2. top = stack[1] /\ 1 \in 1..Len(stack) /\ 0 + 1 = 1 /\ 0 # Len(stack)
  BY <1>1 DEF top
<1> QED BY <1>2 DEF Inv, Working, asked, TaskIn

\* A step inside the running call, that does not make it wait.
LEMMA ContinueKeepsInv ==
  ASSUME Inv, stack # <<>>, NEW f, Serves(f, asked), f.phase # "waiting", Continue(f)
  PROVE  Inv'
<1>1. Working(<<f>> \o Tail(stack), query)
  BY ReplaceKeepsWorking DEF Inv, asked
<1>2. stack' = <<f>> \o Tail(stack) /\ query' = query
  BY DEF Continue
<1>3. stack' # <<>> /\ top' = f
  <2>1. PICK S : stack \in Seq(S)
    BY DEF Inv, Working
  <2> DEFINE t == <<f>> \o Tail(stack)
  <2>2. t \in Seq(S \cup {f}) /\ Len(t) = Len(stack) /\ t[1] = f /\ Len(stack) # 0
    BY <2>1, ReplaceTop
  <2>3. t # <<>> /\ Head(t) = f
    <3> HIDE DEF t
    <3> QED BY <2>2
  <2> QED BY <2>3, <1>2 DEF top
<1> QED BY <1>1, <1>2, <1>3 DEF Inv

\* A return with the right number.
LEMMA ReturnKeepsInv ==
  ASSUME Inv, stack # <<>>, NEW n, Answers(asked, n), Return(n)
  PROVE  Inv'
<1>1. Working(Tail(stack), query) /\ TaskIn(Tail(stack), query, 0) = asked
  BY PopKeepsWorking DEF Inv, asked
<1>2. stack' = Tail(stack) /\ query' = query /\ result' = n
  BY DEF Return
<1>3. Working(stack', query') /\ TaskIn(stack', query', 0) = asked
  BY <1>1, <1>2
<1>4. Answers(TaskIn(stack', query', 0), result')
  BY <1>2, <1>3
<1> QED BY <1>2, <1>3, <1>4 DEF Inv

\* A call starts on the board it is given.
LEMMA CallServes ==
  ASSUME NEW task \in Tasks
  PROVE  Serves(call(task[1], task[2]), task)
  BY DEF call, Serves

\* The first call.
LEMMA InitImpliesInv == IsGame /\ Init => Inv
<1> SUFFICES ASSUME IsGame, Init PROVE Inv
  OBVIOUS
<1> DEFINE f == call(query[1], query[2])
<1>0. query \in Tasks
  BY DEF Init, IsGame, Tasks
<1>1. Serves(f, query) /\ f.phase = "called"
  BY <1>0, CallServes DEF call
<1>2. stack = <<f>>
  BY DEF Init
<1> HIDE DEF f
<1>3. stack \in Seq({f}) /\ Len(stack) = 1 /\ stack[1] = f /\ stack # <<>> /\ top = f
  BY <1>2 DEF top
<1>4. \E S : stack \in Seq(S)
  BY <1>3
<1>5. \A i \in 1..Len(stack) : Serves(stack[i], TaskIn(stack, query, i))
  BY <1>1, <1>3 DEF TaskIn
<1>6. Working(stack, query)
  BY <1>3, <1>4, <1>5 DEF Working
<1> QED BY <1>0, <1>1, <1>3, <1>6 DEF Inv

\* At depth 0 there is one line.
LEMMA ReturnOneKeepsInv ==
  ASSUME IsGame, Inv, ReturnOne PROVE Inv'
<1>1. stack # <<>> /\ top.half_move_depth = 0 /\ Return(1)
  BY DEF ReturnOne, At
<1>2. asked \in Tasks /\ asked[2] = 0
  BY <1>1, TopServes DEF Serves
<1>3. Answers(asked, 1)
  BY <1>2, OneEmptyLine
<1> QED BY <1>1, <1>3, ReturnKeepsInv

\* The list of the moves is a sequence, and all of them store the board.
LEMMA BoardIsStored ==
  ASSUME NEW S, NEW task, LegalMoves(task[1]) \in Seq(S)
  PROVE  LET t == with_board_state(LegalMoves(task[1]), task[1])
         IN  /\ \E T : t \in Seq(T)
             /\ Len(t) = Len(LegalMoves(task[1]))
             /\ \A k \in 1..Len(t) : t[k] = Pushed(task, k)
<1> DEFINE list == LegalMoves(task[1])
           e(i) == Pushed(task, i)
           T == {e(i) : i \in 1..Len(list)}
           t == with_board_state(list, task[1])
<1>1. Len(list) \in Nat /\ DOMAIN list = 1..Len(list)
  OBVIOUS
<1>2. t = [i \in 1..Len(list) |-> e(i)]
  BY <1>1 DEF with_board_state, Pushed
<1> HIDE DEF e, t
<1>4. t \in [1..Len(list) -> T]
  BY <1>2
<1> HIDE DEF T
<1>5. t \in Seq(T) /\ DOMAIN t = 1..Len(list)
  BY <1>1, <1>4, SeqDef
<1>6. Len(t) = Len(list)
  BY <1>1, <1>5, LenProperties
<1>7. \A k \in 1..Len(t) : t[k] = e(k)
  BY <1>2, <1>6
<1> QED BY <1>5, <1>6, <1>7 DEF t, e

\* Every generated move stores the board it was generated on.
LEMMA GenerateKeepsInv ==
  ASSUME IsGame, Inv, Generate PROVE Inv'
<1> DEFINE moves == with_board_state(LegalMoves(top.board), top.board)
           f == [top EXCEPT !.phase = "looping", !.moves = moves]
<1>1. stack # <<>> /\ top.phase = "called" /\ top.half_move_depth # 0 /\ Continue(f)
  BY DEF Generate, At
<1>2. /\ Serves(top, asked) /\ top.board = asked[1] /\ asked \in Tasks /\ asked[1] \in Boards
      /\ asked[2] # 0 /\ top.res = 0 /\ top.half_move_depth = asked[2]
  BY <1>1, TopServes DEF Serves, Tasks
<1>3. PICK S : LegalMoves(asked[1]) \in Seq(S)
  BY <1>2 DEF IsGame
<1>4. /\ \E T : moves \in Seq(T)
      /\ Len(moves) = Len(LegalMoves(asked[1])) /\ Len(moves) \in Nat
      /\ \A k \in 1..Len(moves) : moves[k] = Pushed(asked, k)
  <2>1. Len(LegalMoves(asked[1])) \in Nat
    BY <1>3
  <2> QED BY <1>2, <1>3, <2>1, BoardIsStored
<1> HIDE DEF moves
<1>5. /\ DOMAIN f = {"phase", "board", "half_move_depth", "moves", "trying", "res"}
      /\ f.board = asked[1] /\ f.phase = "looping" /\ f.moves = moves /\ f.res = 0
      /\ f.half_move_depth = asked[2]
  BY <1>2 DEF Serves
<1> HIDE DEF f
<1>6. Taken(f, asked) = 0
  BY <1>4, <1>5 DEF Taken
<1>7. \A k \in 1..Len(moves) : 0 + k = k
  OBVIOUS
<1>8. InLoop(f, asked)
  BY <1>2, <1>4, <1>5, <1>6, <1>7, NothingCounted DEF InLoop
<1>9. Serves(f, asked)
  BY <1>2, <1>5, <1>8 DEF Serves
<1> QED BY <1>1, <1>5, <1>9, ContinueKeepsInv

\* The move is done on the board that it stores.
LEMMA DoAndCountKeepsInv ==
  ASSUME IsGame, Inv, DoAndCount PROVE Inv'
<1> DEFINE m == Head(top.moves)
           moved == DoMove(top.board, m.move)
           g == call(moved, top.half_move_depth - 1)
           f == [top EXCEPT !.phase = "waiting", !.board = moved, !.trying = <<m>>,
                            !.moves = Tail(top.moves)]
           n == Len(LegalMoves(asked[1]))
           k == Taken(top, asked)
<1>1. /\ stack # <<>> /\ top.phase = "looping" /\ top.moves # <<>>
      /\ stack' = <<g, f>> \o Tail(stack) /\ query' = query
  BY DEF DoAndCount, At
<1>2. /\ Serves(top, asked) /\ top.board = asked[1] /\ asked \in Tasks /\ asked[1] \in Boards
      /\ top.half_move_depth = asked[2] /\ asked[2] \in Nat /\ InLoop(top, asked)
  BY <1>1, TopServes DEF Serves, Tasks
<1>3. /\ asked[2] # 0 /\ k \in Nat /\ SumIs(asked, k, top.res)
      /\ \A j \in 1..Len(top.moves) : top.moves[j] = Pushed(asked, k + j)
  BY <1>1, <1>2 DEF InLoop
<1>4. PICK S : top.moves \in Seq(S)
  BY <1>2 DEF InLoop
<1>5. /\ Tail(top.moves) \in Seq(S)
      /\ Len(Tail(top.moves)) = Len(top.moves) - 1
      /\ \A j \in 1..(Len(top.moves) - 1) : Tail(top.moves)[j] = top.moves[j + 1]
      /\ m = top.moves[1] /\ Len(top.moves) \in Nat \ {0}
  BY <1>1, <1>4, PopTop
<1>6. n \in Nat /\ k = n - Len(top.moves) /\ k + 1 \in 1..n /\ (k + 1) - 1 = k
  <2>1. n \in Nat /\ k = n - Len(top.moves)
    BY <1>2, MoveLists DEF Taken
  <2> HIDE DEF n, k
  <2> QED BY <2>1, <1>3, <1>5
<1>7. m = Pushed(asked, k + 1)
  BY <1>3, <1>5
<1>8. moved = Step(asked[1], k + 1) /\ moved \in Boards
  <2>1. m.move = LegalMoves(asked[1])[k + 1]
    BY <1>7 DEF Pushed
  <2>2. moved = Step(asked[1], k + 1)
    BY <2>1, <1>2 DEF Step
  <2> HIDE DEF n, k, m, moved
  <2> QED BY <2>2, <1>2, <1>6, MoveLists DEF n
<1> HIDE DEF m
<1>9. /\ DOMAIN f = {"phase", "board", "half_move_depth", "moves", "trying", "res"}
      /\ f.board = moved /\ f.phase = "waiting" /\ f.moves = Tail(top.moves)
      /\ Head(f.trying) = m /\ f.res = top.res /\ f.half_move_depth = asked[2]
  BY <1>2 DEF Serves
<1>10. f.board = DoMove(asked[1], Head(f.trying).move)
  BY <1>2, <1>9
<1>11. Serves(g, <<f.board, f.half_move_depth - 1>>)
  <2> DEFINE task == <<moved, asked[2] - 1>>
  <2>1. task \in Tasks /\ task[1] = moved /\ task[2] = top.half_move_depth - 1
    BY <1>2, <1>3, <1>8 DEF Tasks
  <2> HIDE DEF moved, task
  <2>2. Serves(call(task[1], task[2]), task)
    BY <2>1, CallServes
  <2> QED BY <2>1, <2>2, <1>9 DEF task
<1> HIDE DEF f, g, moved
<1>12. Taken(f, asked) = k + 1
  <2>1. Taken(f, asked) = n - Len(f.moves)
    BY DEF Taken
  <2>2. Len(f.moves) = Len(top.moves) - 1 /\ Len(top.moves) \in Nat
    BY <1>5, <1>9
  <2>3. n \in Nat /\ k = n - Len(top.moves)
    BY <1>6
  <2> HIDE DEF n, k
  <2> QED BY <2>1, <2>2, <2>3
<1> HIDE DEF n, k
<1>13. ASSUME NEW j \in 1..Len(f.moves) PROVE f.moves[j] = Pushed(asked, (k + 1) + j)
  <2>1. j + 1 \in 1..Len(top.moves) /\ f.moves[j] = top.moves[j + 1] /\ (k + 1) + j = k + (j + 1)
    BY <1>3, <1>5, <1>9
  <2> QED BY <2>1, <1>3
<1>14. InLoop(f, asked)
  <2>1. k + 1 \in Nat /\ k + 1 # 0
    BY <1>3
  <2>2. \E R : f.moves \in Seq(R)
    BY <1>5, <1>9
  <2>3. Head(f.trying) = Pushed(asked, k + 1) /\ SumIs(asked, (k + 1) - 1, f.res)
    BY <1>3, <1>6, <1>7, <1>9
  <2> QED BY <2>1, <2>2, <2>3, <1>3, <1>9, <1>12, <1>13 DEF InLoop
<1>15. Serves(f, asked)
  BY <1>2, <1>9, <1>10, <1>14 DEF Serves
<1>16. Working(<<g, f>> \o Tail(stack), query)
  BY <1>1, <1>9, <1>11, <1>15, PushKeepsWorking DEF Inv, asked
<1>17. stack' # <<>> /\ top'.phase = "called"
  <2>1. PICK R : stack \in Seq(R)
    BY DEF Inv, Working
  <2> DEFINE t == <<g, f>> \o Tail(stack)
  <2>2. t \in Seq(R \cup {f, g}) /\ Len(t) = Len(stack) + 1 /\ t[1] = g /\ Len(stack) \in Nat
    BY <1>1, <2>1, PushTop
  <2>3. t # <<>> /\ Head(t) = g
    <3> HIDE DEF t
    <3> QED BY <2>2
  <2>4. g.phase = "called"
    BY DEF g, call
  <2> QED BY <1>1, <2>3, <2>4 DEF top
<1> QED BY <1>1, <1>16, <1>17 DEF Inv

\* undo_move brings back the board that was given, and the lines that begin with the
\* move are added.
LEMMA AddAndUndoKeepsInv ==
  ASSUME IsGame, Inv, AddAndUndo PROVE Inv'
<1> DEFINE undone == undo_move(top.board, Head(top.trying))
           sum == top.res + result
           f == [top EXCEPT !.phase = "looping", !.trying = <<>>, !.res = sum,
                            !.board = undone]
           n == Len(LegalMoves(asked[1]))
           k == Taken(top, asked)
<1>1. stack # <<>> /\ top.phase = "waiting" /\ Continue(f)
  BY DEF AddAndUndo, At
<1>2. /\ Serves(top, asked) /\ asked \in Tasks /\ asked[1] \in Boards
      /\ top.half_move_depth = asked[2] /\ asked[2] \in Nat /\ InLoop(top, asked)
      /\ top.board = DoMove(asked[1], Head(top.trying).move)
  BY <1>1, TopServes DEF Serves, Tasks
<1>3. /\ asked[2] # 0 /\ k \in Nat /\ k # 0 /\ Head(top.trying) = Pushed(asked, k)
      /\ SumIs(asked, k - 1, top.res)
      /\ \A j \in 1..Len(top.moves) : top.moves[j] = Pushed(asked, k + j)
  BY <1>1, <1>2 DEF InLoop
<1>4. undone = asked[1] /\ top.board = Step(asked[1], k)
  BY <1>2, <1>3 DEF undo_move, Pushed, Step
<1>5. PICK S : top.moves \in Seq(S)
  BY <1>2 DEF InLoop
<1>6. k \in 1..n
  <2>1. n \in Nat /\ Len(top.moves) \in Nat /\ k = n - Len(top.moves)
    BY <1>2, <1>5, MoveLists DEF Taken
  <2> HIDE DEF n, k
  <2> QED BY <2>1, <1>3
<1>7. Answers(<<Step(asked[1], k), asked[2] - 1>>, result)
  BY <1>1, <1>2, <1>4, TopServes DEF Inv
<1>8. SumIs(asked, k, sum)
  <2> HIDE DEF k
  <2> QED BY <1>2, <1>3, <1>6, <1>7, CountNext DEF n, sum
<1> HIDE DEF undone, sum
<1>9. /\ DOMAIN f = {"phase", "board", "half_move_depth", "moves", "trying", "res"}
      /\ f.board = asked[1] /\ f.phase = "looping" /\ f.moves = top.moves /\ f.res = sum
      /\ f.half_move_depth = asked[2]
  BY <1>2, <1>4 DEF Serves
<1> HIDE DEF f
<1>10. Taken(f, asked) = k
  BY <1>9 DEF Taken
<1> HIDE DEF k, n
<1>11. InLoop(f, asked)
  BY <1>3, <1>5, <1>8, <1>9, <1>10 DEF InLoop
<1>12. Serves(f, asked)
  BY <1>2, <1>9, <1>11 DEF Serves
<1> QED BY <1>1, <1>9, <1>12, ContinueKeepsInv

\* All moves of the list have been counted.
LEMMA ReturnSumKeepsInv ==
  ASSUME IsGame, Inv, ReturnSum PROVE Inv'
<1>1. stack # <<>> /\ top.phase = "looping" /\ top.moves = <<>> /\ Return(top.res)
  BY DEF ReturnSum, At
<1>2. Serves(top, asked) /\ asked \in Tasks /\ asked[1] \in Boards /\ InLoop(top, asked)
  BY <1>1, TopServes DEF Serves, Tasks
<1>3. asked[2] # 0 /\ SumIs(asked, Taken(top, asked), top.res)
  BY <1>1, <1>2 DEF InLoop
<1>4. Taken(top, asked) = Len(LegalMoves(asked[1]))
  <2>1. Len(LegalMoves(asked[1])) \in Nat /\ Len(top.moves) = 0
    BY <1>1, <1>2, MoveLists
  <2> QED BY <2>1 DEF Taken
<1>5. Answers(asked, top.res)
  BY <1>2, <1>3, <1>4, AllCounted
<1> QED BY <1>1, <1>5, ReturnKeepsInv

LEMMA NextKeepsInv == IsGame /\ Inv /\ [Next]_vars => Inv'
<1> SUFFICES ASSUME IsGame, Inv, [Next]_vars PROVE Inv'
  OBVIOUS
<1>1. CASE ReturnOne       BY <1>1, ReturnOneKeepsInv
<1>2. CASE Generate        BY <1>2, GenerateKeepsInv
<1>3. CASE DoAndCount      BY <1>3, DoAndCountKeepsInv
<1>4. CASE AddAndUndo      BY <1>4, AddAndUndoKeepsInv
<1>5. CASE ReturnSum       BY <1>5, ReturnSumKeepsInv
<1>6. CASE UNCHANGED vars  BY <1>6 DEF Inv, vars, top
<1> QED BY <1>1, <1>2, <1>3, <1>4, <1>5, <1>6 DEF Next

-----------------------------------------------------------------------------
\* In every game, and on all levels of the recursion at once, number_of_moves does
\* each move on the board it was generated for and takes it back before it does the
\* next.
THEOREM MovesAreTakenBack == IsGame => (Spec => []EveryMoveIsTakenBack)
<1> SUFFICES ASSUME IsGame PROVE Spec => []EveryMoveIsTakenBack
  OBVIOUS
<1>1. Init => Inv
  BY InitImpliesInv
<1>2. Inv /\ [Next]_vars => Inv'
  BY NextKeepsInv
<1>3. Inv => EveryMoveIsTakenBack
  BY InvImpliesTakenBack
<1> QED BY <1>1, <1>2, <1>3, PTL DEF Spec

\* In every game, number_of_moves and each of its inner calls return the number of
\* lines of their length: none is left out, none counted twice.
THEOREM LinesAreCounted == IsGame => (Spec => []CountsTheLines)
<1> SUFFICES ASSUME IsGame PROVE Spec => []CountsTheLines
  OBVIOUS
<1>1. Init => Inv
  BY InitImpliesInv
<1>2. Inv /\ [Next]_vars => Inv'
  BY NextKeepsInv
<1>3. Inv => CountsTheLines
  BY InvImpliesCounts
<1> QED BY <1>1, <1>2, <1>3, PTL DEF Spec
=============================================================================
