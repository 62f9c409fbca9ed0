-------------------------- MODULE SimpleAtoiProofs --------------------------
(***************************************************************************)
(* SimpleAtoi accepts exactly the numerals of its type, whatever the       *)
(* limits of the type and the length of the text, and does not overflow.   *)
(***************************************************************************)
EXTENDS SimpleAtoi, SequenceTheorems, WellFoundedInduction, TLAPS

-----------------------------------------------------------------------------
(* Digits and numbers. *)

\* Induction over numbers, in the form in which it is used here.
LEMMA LeastNumber ==
  ASSUME NEW T \in SUBSET Nat, T # {}
  PROVE  \E n \in T : \A k \in T : n <= k
<1> DEFINE R == OpToRel(<, Nat)
<1>1. IsWellFoundedOn(R, Nat)
  BY NatLessThanWellFounded, Zenon
<1>2. \E x \in T : \A y \in T : ~(<<y, x>> \in R)
  <2> HIDE DEF R
  <2> QED BY <1>1, WFMin
<1>3. ASSUME NEW x \in Nat, NEW y \in Nat, ~(y < x) PROVE x <= y
  BY <1>3
<1>4. ASSUME NEW x \in Nat, NEW y \in Nat, ~(<<y, x>> \in R) PROVE ~(y < x)
  BY <1>4, Zenon DEF OpToRel
<1> QED BY <1>2, <1>3, <1>4

\* A character is a digit or worth more than any.
LEMMA DigitValue ==
  ASSUME NEW c
  PROVE  kAsciiToInt(c) \in 0..36
<1> DEFINE decimal == <<"0", "1", "2", "3", "4", "5", "6", "7", "8", "9">>
<1>1. CASE Contains(decimal, c)
  <2>1. \E i \in 1..10 : decimal[i] = c
    BY <1>1 DEF Contains
  <2> DEFINE k == CHOOSE i \in 1..10 : decimal[i] = c
  <2>2. k \in 1..10
    <3> HIDE DEF decimal
    <3> QED BY <2>1
  <2>3. kAsciiToInt(c) = k - 1
    BY <1>1 DEF kAsciiToInt
  <2> HIDE DEF k
  <2> QED BY <2>2, <2>3
<1>2. CASE ~Contains(decimal, c)
  BY <1>2 DEF kAsciiToInt
<1> QED BY <1>1, <1>2

\* The numbers of the first digits follow from one another.
LEMMA NumbersEquation ==
  ASSUME NEW t, Len(t) \in Nat
  PROVE  /\ Numbers(t)[0] = 0
         /\ \A n \in 1..Len(t) : Numbers(t)[n] = 10 * Numbers(t)[n - 1] + kAsciiToInt(t[n])
<1> DEFINE Body(f, i) == IF i = 0 THEN 0 ELSE 10 * f[i - 1] + kAsciiToInt(t[i])
           Exists(n) == \E f : f = [i \in 0..n |-> Body(f, i)]
           T == {n \in Nat : ~Exists(n)}
<1>1. Exists(Len(t))
  <2>1. SUFFICES ASSUME T # {} PROVE FALSE
    <3> HIDE DEF Exists
    <3> QED OBVIOUS
  <2>2. PICK n \in T : \A k \in T : n <= k
    <3>1. T \in SUBSET Nat
      OBVIOUS
    <3> HIDE DEF T
    <3> QED BY <2>1, <3>1, LeastNumber
  <2>3. n \in Nat /\ ~Exists(n)
    BY <2>2
  <2>4. CASE n = 0
    <3> DEFINE f == [i \in 0..0 |-> 0]
    <3>1. f = [i \in 0..n |-> Body(f, i)]
      BY <2>4
    <3> HIDE DEF f
    <3> QED BY <3>1, <2>3
  <2>5. CASE n # 0
    <3>1. n - 1 \in Nat /\ n - 1 \notin T
      <4> HIDE DEF T
      <4> QED BY <2>2, <2>3, <2>5
    <3>2. PICK f : f = [i \in 0..(n - 1) |-> Body(f, i)]
      BY <3>1
    <3> DEFINE g == [i \in 0..n |-> Body(f, i)]
    <3>3. ASSUME NEW i \in 0..(n - 1) PROVE f[i] = Body(f, i) /\ g[i] = Body(f, i)
      <4>1. i \in 0..n
        BY <2>3
      <4> HIDE DEF Body
      <4> QED BY <3>2, <4>1
    <3>4. ASSUME NEW i \in 0..n PROVE Body(g, i) = Body(f, i)
      <4>1. CASE i = 0 BY <4>1
      <4>2. CASE i # 0
        <5>1. i - 1 \in 0..(n - 1)
          BY <4>2, <2>3
        <5>2. f[i - 1] = g[i - 1]
          <6> HIDE DEF Body, g, T
          <6> QED BY <5>1, <3>3
        <5> HIDE DEF g
        <5> QED BY <5>2
      <4> QED BY <4>1, <4>2
    <3>5. g = [i \in 0..n |-> Body(g, i)]
      <4> HIDE DEF Body
      <4> QED BY <3>4
    <3> HIDE DEF g
    <3> QED BY <3>5, <2>3
  <2> QED BY <2>4, <2>5
<1> DEFINE p == Numbers(t)
<1>2. p = CHOOSE f : f = [i \in 0..Len(t) |-> Body(f, i)]
  BY Zenon DEF Numbers
<1> HIDE DEF Body, p
<1>3. p = [i \in 0..Len(t) |-> Body(p, i)]
  BY <1>1, <1>2, Zenon
<1>4. \A i \in 0..Len(t) : p[i] = Body(p, i)
  BY <1>3
<1>5. p[0] = 0 /\ \A i \in 1..Len(t) : p[i] = 10 * p[i - 1] + kAsciiToInt(t[i])
  BY <1>4 DEF Body
<1> QED BY <1>5 DEF p

\* More digits make a number larger.
LEMMA OneMoreDigit ==
  ASSUME NEW a \in Nat, NEW d \in 0..36
  PROVE  10 * a + d \in Nat /\ a <= 10 * a + d
  OBVIOUS

LEMMA NumbersGrow ==
  ASSUME NEW t, Len(t) \in Nat, NEW n \in 0..Len(t)
  PROVE  \A m \in n..Len(t) :
           Numbers(t)[n] \in Nat /\ Numbers(t)[m] \in Nat /\ Numbers(t)[n] <= Numbers(t)[m]
<1> DEFINE p == Numbers(t)
<1>1. p[0] = 0 /\ \A i \in 1..Len(t) : p[i] = 10 * p[i - 1] + kAsciiToInt(t[i])
  BY NumbersEquation
<1>2. \A c : kAsciiToInt(c) \in 0..36
  BY DigitValue
<1> HIDE DEF p
<1> DEFINE U == {i \in 0..Len(t) : p[i] \notin Nat}
           T == {i \in n..Len(t) : ~(p[n] <= p[i])}
<1>3. U = {}
  <2>1. SUFFICES ASSUME U # {} PROVE FALSE
    OBVIOUS
  <2>2. PICK i \in U : \A k \in U : i <= k
    <3>1. U \in SUBSET Nat
      OBVIOUS
    <3> HIDE DEF U
    <3> QED BY <2>1, <3>1, LeastNumber
  <2>3. i \in 1..Len(t) /\ i - 1 \in 0..Len(t) /\ p[i] \notin Nat
    BY <2>2, <1>1
  <2>4. i - 1 \notin U
    <3> HIDE DEF U
    <3> QED BY <2>2, <2>3
  <2>5. p[i - 1] \in Nat
    BY <2>3, <2>4
  <2>6. p[i] = 10 * p[i - 1] + kAsciiToInt(t[i]) /\ kAsciiToInt(t[i]) \in 0..36
    BY <2>3, <1>1, <1>2
  <2> QED BY <2>3, <2>5, <2>6, OneMoreDigit
<1>4. \A i \in 0..Len(t) : p[i] \in Nat
  BY <1>3
<1>5. T = {}
  <2>1. SUFFICES ASSUME T # {} PROVE FALSE
    OBVIOUS
  <2>2. PICK i \in T : \A k \in T : i <= k
    <3>1. T \in SUBSET Nat
      OBVIOUS
    <3> HIDE DEF T
    <3> QED BY <2>1, <3>1, LeastNumber
  <2>3. i \in n..Len(t) /\ ~(p[n] <= p[i]) /\ p[n] \in Nat
    BY <2>2, <1>4
  <2>4. i # n
    BY <2>3
  <2>5. i \in 1..Len(t) /\ i - 1 \in n..Len(t) /\ i - 1 \in 0..Len(t)
    BY <2>3, <2>4
  <2>6. i - 1 \notin T
    <3> HIDE DEF T
    <3> QED BY <2>2, <2>5
  <2>7. p[n] <= p[i - 1] /\ p[i - 1] \in Nat
    BY <2>5, <2>6, <1>4
  <2>8. p[i] = 10 * p[i - 1] + kAsciiToInt(t[i]) /\ kAsciiToInt(t[i]) \in 0..36
    BY <2>5, <1>1, <1>2
  <2>9. p[i] \in Nat /\ p[i - 1] <= p[i]
    BY <2>7, <2>8, OneMoreDigit
  <2> QED BY <2>3, <2>7, <2>9
<1>6. \A m \in n..Len(t) : p[n] \in Nat /\ p[m] \in Nat /\ p[n] <= p[m]
  BY <1>4, <1>5
<1> QED BY <1>6 DEF p

-----------------------------------------------------------------------------
(* The limits. *)

LEMMA Tenth ==
  ASSUME NEW m \in Nat
  PROVE  m \div 10 \in Nat /\ 10 * (m \div 10) <= m /\ m < 10 * (m \div 10) + 10
  OBVIOUS

\* The test before the multiplication, for a number v that is not negative.
LEMMA TestAbove ==
  ASSUME NEW v \in Nat
  PROVE  /\ v > vmax_over_base => 10 * v > vmax
         /\ ~(v > vmax_over_base) => 10 * v <= vmax
<1> DEFINE q == vmax \div 10
<1>1. vmax \in Nat /\ vmax_over_base = q
  BY LimitsAssumption DEF vmax_over_base, base
<1>2. q \in Nat /\ 10 * q <= vmax /\ vmax < 10 * q + 10
  BY <1>1, Tenth
<1> HIDE DEF q
<1> QED BY <1>1, <1>2

\* The same for -v.
LEMMA TestBelow ==
  ASSUME NEW v \in Nat
  PROVE  /\ -v < vmin_over_base => -(10 * v) < vmin
         /\ ~(-v < vmin_over_base) => vmin <= -(10 * v)
<1> DEFINE m == -vmin
           q == m \div 10
<1>1. m \in Nat /\ vmin = -m /\ vmin_over_base = -q
  BY LimitsAssumption DEF vmin_over_base, base
<1> HIDE DEF m
<1>2. q \in Nat /\ 10 * q <= m /\ m < 10 * q + 10
  BY <1>1, Tenth
<1> HIDE DEF q
<1> QED BY <1>1, <1>2

\* The test before the addition.
LEMMA SumInType ==
  ASSUME NEW c \in Nat, NEW d \in 0..36
  PROVE  /\ ~(c > vmax - d) => c + d \in vmin..vmax
         /\ ~(-c < vmin + d) => -c - d = -(c + d) /\ -c - d \in vmin..vmax
<1>1. vmin \in Int /\ vmax \in Int /\ vmin <= 0 /\ 0 <= vmax
  BY LimitsAssumption DEF base
<1>2. -c - d = -(c + d)
  OBVIOUS
<1> QED BY <1>1, <1>2

-----------------------------------------------------------------------------
(* The text without white space and sign. *)

HasSign(t) == trimmed(t) # <<>> /\ Head(trimmed(t)) \in {"-", "+"}
Neg(t)     == trimmed(t) # <<>> /\ Head(trimmed(t)) = "-"
Num(t)     == IF HasSign(t) THEN Tail(trimmed(t)) ELSE trimmed(t)

\* It is part of the text.
LEMMA NumIsText ==
  ASSUME NEW t, t \in Seq(Range(t))
  PROVE  Num(t) \in Seq(Range(t))
<1> DEFINE S == Range(t)
           solid == {i \in DOMAIN t : ~isspace(t[i])}
<1> HIDE DEF S
<1>1. t \in Seq(S) /\ Len(t) \in Nat /\ DOMAIN t = 1..Len(t)
  <2>1. t \in Seq(S)
    BY DEF S
  <2> QED BY <2>1
<1>2. trimmed(t) \in Seq(S)
  <2>1. CASE solid = {}
    <3>1. trimmed(t) = <<>>
      BY <2>1 DEF trimmed
    <3> QED BY <3>1
  <2>2. CASE solid # {}
    <3>1. solid \in SUBSET (1..Len(t)) /\ solid \in SUBSET Nat
      BY <1>1
    <3>2. trimmed(t) = SubSeq(t, Min(solid), Max(solid))
      BY <2>2 DEF trimmed
    <3> HIDE DEF solid
    <3>3. \E x \in solid : \A y \in solid : x <= y
      BY <2>2, <3>1, LeastNumber
    <3>4. \E x \in solid : \A y \in solid : x >= y
      <4> DEFINE T == {Len(t) - i : i \in solid}
      <4>1. T \in SUBSET Nat /\ T # {}
        <5>1. ASSUME NEW i \in solid PROVE Len(t) - i \in Nat
          <6>1. i \in 1..Len(t)
            BY <3>1
          <6> QED BY <6>1, <1>1
        <5>2. T # {}
          BY <2>2
        <5> QED BY <5>1, <5>2
      <4>2. PICK n \in T : \A k \in T : n <= k
        <5> HIDE DEF T
        <5> QED BY <4>1, LeastNumber
      <4>3. PICK x \in solid : n = Len(t) - x
        BY <4>2
      <4>4. ASSUME NEW y \in solid PROVE x >= y
        <5>1. Len(t) - y \in T
          OBVIOUS
        <5>2. n <= Len(t) - y
          BY <4>2, <5>1
        <5>3. x \in Nat /\ y \in Nat
          BY <3>1
        <5> QED BY <5>2, <5>3, <4>3, <1>1
      <4> QED BY <4>4
    <3>5. Min(solid) \in solid /\ \A y \in solid : Min(solid) <= y
      BY <3>3, Zenon DEF Min
    <3>6. Max(solid) \in solid
      BY <3>4, Zenon DEF Max
    <3>7. Min(solid) \in 1..Len(t) /\ Max(solid) \in 1..Len(t) /\ Min(solid) <= Max(solid)
      BY <3>1, <3>5, <3>6
    <3> DEFINE a == Min(solid)
               z == Max(solid)
    <3>8. a \in 1..Len(t) /\ z \in 1..Len(t) /\ a <= z
      BY <3>7
    <3> HIDE DEF a, z
    <3>9. SubSeq(t, a, z) \in Seq(S)
      BY <1>1, <3>8
    <3> QED BY <3>2, <3>9 DEF a, z
  <2> QED BY <2>1, <2>2
<1>3. CASE HasSign(t)
  <2> DEFINE u == trimmed(t)
  <2>1. u \in Seq(S) /\ u # <<>>
    BY <1>2, <1>3 DEF HasSign
  <2> HIDE DEF u
  <2>2. Tail(u) \in Seq(S)
    BY <2>1
  <2> QED BY <1>3, <2>2 DEF Num, u, S
<1>4. CASE ~HasSign(t)
  BY <1>2, <1>4 DEF Num, S
<1> QED BY <1>3, <1>4

\* The number with its sign.
Signed(t, a) == IF Neg(t) THEN -a ELSE a

LEMMA DenotedIsSigned ==
  ASSUME NEW t
  PROVE  Denoted(t) = IF IsNumeral(Num(t)) THEN {Signed(t, Numbers(Num(t))[Len(Num(t))])} ELSE {}
<1>1. HasSign(t) /\ Head(trimmed(t)) = "-" <=> Neg(t)
  BY DEF HasSign, Neg
<1>2. Denoted(t) = IF ~IsNumeral(Num(t)) THEN {}
                   ELSE {IF HasSign(t) /\ Head(trimmed(t)) = "-"
                         THEN -Numbers(Num(t))[Len(Num(t))] ELSE Numbers(Num(t))[Len(Num(t))]}
  BY Zenon DEF Denoted, HasSign, Num
<1> QED BY <1>1, <1>2 DEF Signed


-----------------------------------------------------------------------------
(* The loop.  The digits up to place n are consumed, and the value is what   *)
(* they denote, times the base when the next digit is about to be added.     *)

Reads(n) ==
  /\ rest \in Seq(Range(text))
  /\ Len(rest) = Len(Num(text)) - n
  /\ \A i \in 1..Len(rest) : rest[i] = Num(text)[n + i]
  /\ \A i \in 1..n : kAsciiToInt(Num(text)[i]) < base

Holds(n) ==
  LET a == Numbers(Num(text))[n]
  IN  value = Signed(text, IF scaled THEN 10 * a ELSE a)

Inv ==
  /\ text \in Texts
  /\ negative \in BOOLEAN /\ scaled \in BOOLEAN
  /\ NeverOverflows
  /\ outcome = "called" => value = 0 /\ scaled = FALSE
  /\ outcome = "digits" =>
       /\ Num(text) # <<>>
       /\ negative = Neg(text)
       /\ scaled => rest # <<>> /\ digit < base
       /\ \E n \in 0..Len(Num(text)) : Reads(n) /\ Holds(n)
  /\ AcceptsExactlyTheInts

\* What every text is like.
LEMMA TextIsRead ==
  ASSUME NEW t \in Texts
  PROVE  Num(t) \in Seq(Range(t)) /\ Len(Num(t)) \in Nat
<1>1. Num(t) \in Seq(Range(t))
  BY NumIsText, TextsAssumption
<1> QED BY <1>1

\* The next digit.
LEMMA NextDigit ==
  ASSUME text \in Texts, NEW n \in 0..Len(Num(text)), Reads(n), rest # <<>>
  PROVE  /\ n + 1 \in 1..Len(Num(text))
         /\ digit = kAsciiToInt(Num(text)[n + 1]) /\ digit \in 0..36
         /\ Numbers(Num(text))[n] \in Nat
         /\ Numbers(Num(text))[n + 1] = 10 * Numbers(Num(text))[n] + digit
         /\ Numbers(Num(text))[Len(Num(text))] \in Nat
         /\ Numbers(Num(text))[n + 1] <= Numbers(Num(text))[Len(Num(text))]
<1> DEFINE u == Num(text)
           p == Numbers(u)
<1>1. Len(u) \in Nat /\ n \in 0..Len(u)
  BY TextIsRead
<1>2. /\ rest \in Seq(Range(text)) /\ Len(rest) = Len(u) - n
      /\ \A i \in 1..Len(rest) : rest[i] = u[n + i]
  BY DEF Reads
<1> HIDE DEF u
<1>3. 1 \in 1..Len(rest) /\ Head(rest) = rest[1]
  BY <1>2
<1>4. n + 1 \in 1..Len(u) /\ Head(rest) = u[n + 1]
  BY <1>1, <1>2, <1>3
<1>5. digit = kAsciiToInt(u[n + 1]) /\ digit \in 0..36
  BY <1>4, DigitValue DEF digit
<1>6. p[n + 1] = 10 * p[n] + digit
  <2>1. p[n + 1] = 10 * p[(n + 1) - 1] + kAsciiToInt(u[n + 1])
    BY <1>1, <1>4, NumbersEquation
  <2>2. (n + 1) - 1 = n
    BY <1>1
  <2> QED BY <2>1, <2>2, <1>5
<1>7. p[n] \in Nat
  <2>1. n \in n..Len(u)
    BY <1>1
  <2> QED BY <2>1, <1>1, NumbersGrow
<1>8. p[Len(u)] \in Nat /\ p[n + 1] <= p[Len(u)]
  <2>1. n + 1 \in 0..Len(u) /\ Len(u) \in (n + 1)..Len(u)
    BY <1>1, <1>4
  <2> QED BY <2>1, <1>1, NumbersGrow
<1> HIDE DEF p
<1>9. /\ n + 1 \in 1..Len(u) /\ digit = kAsciiToInt(u[n + 1]) /\ digit \in 0..36
      /\ p[n] \in Nat /\ p[n + 1] = 10 * p[n] + digit
      /\ p[Len(u)] \in Nat /\ p[n + 1] <= p[Len(u)]
  BY <1>4, <1>5, <1>6, <1>7, <1>8
<1> QED BY <1>9, Zenon DEF u, p

\* A number out of the type is none that the text denotes in it.
LEMMA OutOfRange ==
  ASSUME NEW t, NEW a \in Nat, Denoted(t) \in {{}, {Signed(t, a)}},
         IF Neg(t) THEN -a < vmin ELSE a > vmax
  PROVE  Denoted(t) \cap (vmin..vmax) = {}
<1>1. Signed(t, a) \notin vmin..vmax
  BY LimitsAssumption DEF Signed
<1> QED BY <1>1

-----------------------------------------------------------------------------
(* Every step keeps the invariant. *)

LEMMA InitInv == Init => Inv
<1> SUFFICES ASSUME Init PROVE Inv
  OBVIOUS
<1>1. NeverOverflows
  BY LimitsAssumption DEF Init, NeverOverflows, base
<1> QED BY <1>1 DEF Init, Inv, AcceptsExactlyTheInts

LEMMA SignKeepsInv == Inv /\ safe_parse_sign_and_base => Inv'
<1> SUFFICES ASSUME Inv, safe_parse_sign_and_base PROVE Inv'
  OBVIOUS
<1> DEFINE u == Num(text)
<1>1. /\ text \in Texts /\ value = 0 /\ scaled = FALSE /\ NeverOverflows
      /\ text' = text /\ value' = value /\ scaled' = scaled
  BY DEF Inv, safe_parse_sign_and_base
<1>2. rest' = u /\ negative' = Neg(text) /\ outcome' = IF u = <<>> THEN "false" ELSE "digits"
  BY Zenon DEF safe_parse_sign_and_base, Num, HasSign, Neg
<1>3. u \in Seq(Range(text)) /\ Len(u) \in Nat
  BY <1>1, TextIsRead
<1>4. Neg(text) \in BOOLEAN
  BY DEF Neg
<1>5. Denoted(text) = {} \/ u # <<>>
  BY DenotedIsSigned DEF IsNumeral
<1>6. NeverOverflows'
  BY <1>1 DEF NeverOverflows
<1>7. AcceptsExactlyTheInts'
  BY <1>1, <1>2, <1>5 DEF AcceptsExactlyTheInts
<1>8. Reads(0)'
  <2>1. /\ rest' \in Seq(Range(text')) /\ Len(rest') = Len(Num(text')) - 0
        /\ \A i \in 1..Len(rest') : 0 + i = i
        /\ \A i \in 1..0 : FALSE
    BY <1>1, <1>2, <1>3
  <2>2. \A i \in 1..Len(rest') : rest'[i] = Num(text')[0 + i]
    BY <1>1, <1>2, <2>1
  <2> QED BY <2>1, <2>2 DEF Reads
<1>9. Holds(0)'
  <2>1. Numbers(u)[0] = 0
    BY <1>3, NumbersEquation
  <2>2. value' = Signed(text', 0)
    <3>1. \A z \in Int : z <= 0 /\ 0 <= z => -z = z
      OBVIOUS
    <3>2. value' = 0
      BY <1>1
    <3> DEFINE v == value'
    <3>3. v \in Int /\ v <= 0 /\ 0 <= v
      BY <3>2
    <3>4. -v = v
      <4> HIDE DEF v
      <4> QED BY <3>1, <3>3
    <3> QED BY <3>2, <3>4, Zenon DEF Signed
  <2> QED BY <2>1, <2>2, <1>1 DEF Holds
<1>10. 0 \in 0..Len(Num(text'))
  BY <1>1, <1>3
<1> QED BY <1>1, <1>2, <1>4, <1>6, <1>7, <1>8, <1>9, <1>10 DEF Inv


\* At a digit: the state in names that the arithmetic is about.
LEMMA AtADigit ==
  ASSUME Inv, outcome = "digits", rest # <<>>
  PROVE  /\ text \in Texts /\ negative = Neg(text)
         /\ \E n \in 0..Len(Num(text)), a \in Nat, b \in Nat :
              /\ Reads(n)
              /\ n + 1 \in 1..Len(Num(text))
              /\ digit = kAsciiToInt(Num(text)[n + 1]) /\ digit \in 0..36
              /\ a = Numbers(Num(text))[n]
              /\ Numbers(Num(text))[n + 1] = 10 * a + digit
              /\ value = Signed(text, IF scaled THEN 10 * a ELSE a)
              /\ b = Numbers(Num(text))[Len(Num(text))] /\ 10 * a + digit <= b
              /\ Denoted(text) \in {{}, {Signed(text, b)}}
<1>1. text \in Texts /\ negative = Neg(text)
  BY DEF Inv
<1>2. PICK n \in 0..Len(Num(text)) : Reads(n) /\ Holds(n)
  BY DEF Inv
<1>3. /\ n + 1 \in 1..Len(Num(text))
      /\ digit = kAsciiToInt(Num(text)[n + 1]) /\ digit \in 0..36
      /\ Numbers(Num(text))[n] \in Nat
      /\ Numbers(Num(text))[n + 1] = 10 * Numbers(Num(text))[n] + digit
      /\ Numbers(Num(text))[Len(Num(text))] \in Nat
      /\ Numbers(Num(text))[n + 1] <= Numbers(Num(text))[Len(Num(text))]
  BY <1>1, <1>2, NextDigit
<1> DEFINE a == Numbers(Num(text))[n]
           b == Numbers(Num(text))[Len(Num(text))]
<1>4. value = Signed(text, IF scaled THEN 10 * a ELSE a)
  BY <1>2 DEF Holds
<1>5. Denoted(text) \in {{}, {Signed(text, b)}}
  BY DenotedIsSigned
<1> QED BY <1>1, <1>2, <1>3, <1>4, <1>5

\* The answers inside the loop.
LEMMA ReturnKeepsInv ==
  ASSUME Inv, outcome = "digits", NEW v \in vmin..vmax,
         NEW res \in {"true", "false"}, Return(v, res),
         res = "true" => Denoted(text) = {v},
         res = "false" => Denoted(text) \cap (vmin..vmax) = {}
  PROVE  Inv'
<1>1. /\ value' = v /\ outcome' = res /\ text' = text
      /\ scaled' = scaled /\ negative' = negative
  BY DEF Return
<1>2. NeverOverflows' /\ AcceptsExactlyTheInts'
  BY <1>1 DEF NeverOverflows, AcceptsExactlyTheInts
<1>3. text \in Texts /\ negative \in BOOLEAN /\ scaled \in BOOLEAN
  BY DEF Inv
<1>4. outcome' # "called" /\ outcome' # "digits"
  BY <1>1
<1> QED BY <1>1, <1>2, <1>3, <1>4, Zenon DEF Inv

LEMMA LimitIsInType == limit \in vmin..vmax
  BY LimitsAssumption DEF limit, base

LEMMA NotADigitKeepsInv == Inv /\ NotADigit => Inv'
<1> SUFFICES ASSUME Inv, NotADigit PROVE Inv'
  OBVIOUS
<1>1. outcome = "digits" /\ rest # <<>> /\ digit >= base /\ Return(value, "false")
  BY DEF NotADigit, AtDigit
<1>2. PICK n \in 0..Len(Num(text)) :
        n + 1 \in 1..Len(Num(text)) /\ digit = kAsciiToInt(Num(text)[n + 1]) /\ digit \in 0..36
  BY <1>1, AtADigit
<1>3. text \in Texts
  BY DEF Inv
<1>4. n + 1 \in DOMAIN Num(text)
  BY <1>2, <1>3, TextIsRead
<1>5. ~(digit < base)
  BY <1>1, <1>2 DEF base
<1>6. ~IsNumeral(Num(text))
  BY <1>2, <1>4, <1>5 DEF IsNumeral
<1>7. Denoted(text) = {}
  BY <1>6, DenotedIsSigned
<1>8. value \in vmin..vmax
  BY DEF Inv, NeverOverflows
<1> QED BY <1>1, <1>7, <1>8, ReturnKeepsInv

LEMMA TooManyDigitsKeepsInv == Inv /\ TooManyDigits => Inv'
<1> SUFFICES ASSUME Inv, TooManyDigits PROVE Inv'
  OBVIOUS
<1>1. /\ outcome = "digits" /\ rest # <<>> /\ scaled = FALSE /\ too_many_digits
      /\ Return(limit, "false")
  BY DEF TooManyDigits, AtDigit, Inv
<1>2. negative = Neg(text)
  BY <1>1 DEF Inv
<1>3. PICK a \in Nat, b \in Nat :
        /\ value = Signed(text, IF scaled THEN 10 * a ELSE a)
        /\ digit \in 0..36 /\ 10 * a + digit <= b
        /\ Denoted(text) \in {{}, {Signed(text, b)}}
  BY <1>1, AtADigit
<1>4. value = Signed(text, a) /\ 10 * a <= b
  <2>1. 10 * a <= b
    BY <1>3
  <2> QED BY <1>1, <1>3, <2>1
<1>5. IF Neg(text) THEN -b < vmin ELSE b > vmax
  <2>1. CASE Neg(text)
    <3>1. -a < vmin_over_base
      BY <1>1, <1>2, <1>4, <2>1 DEF too_many_digits, Signed
    <3>2. -(10 * a) < vmin
      BY <3>1, TestBelow
    <3> QED BY <2>1, <3>2, <1>4, LimitsAssumption
  <2>2. CASE ~Neg(text)
    <3>1. a > vmax_over_base
      BY <1>1, <1>2, <1>4, <2>2 DEF too_many_digits, Signed
    <3>2. 10 * a > vmax
      BY <3>1, TestAbove
    <3> QED BY <2>2, <3>2, <1>4, LimitsAssumption
  <2> QED BY <2>1, <2>2
<1>6. Denoted(text) \cap (vmin..vmax) = {}
  BY <1>3, <1>5, OutOfRange
<1> QED BY <1>1, <1>6, LimitIsInType, ReturnKeepsInv

LEMMA TooLargeADigitKeepsInv == Inv /\ TooLargeADigit => Inv'
<1> SUFFICES ASSUME Inv, TooLargeADigit PROVE Inv'
  OBVIOUS
<1>1. /\ outcome = "digits" /\ scaled = TRUE /\ too_large_a_digit
      /\ Return(limit, "false")
  BY DEF TooLargeADigit, AtSum, Inv
<1>2. negative = Neg(text) /\ rest # <<>>
  BY <1>1 DEF Inv
<1>3. PICK a \in Nat, b \in Nat :
        /\ value = Signed(text, IF scaled THEN 10 * a ELSE a)
        /\ digit \in 0..36 /\ 10 * a + digit <= b
        /\ Denoted(text) \in {{}, {Signed(text, b)}}
  BY <1>1, <1>2, AtADigit
<1> DEFINE c == 10 * a
<1>4. c \in Nat /\ c + digit <= b /\ value = Signed(text, c)
  BY <1>1, <1>3
<1> HIDE DEF c
<1>5. IF Neg(text) THEN -b < vmin ELSE b > vmax
  <2>1. CASE Neg(text)
    <3>1. -c < vmin + digit
      BY <1>1, <1>2, <1>4, <2>1 DEF too_large_a_digit, Signed
    <3> QED BY <2>1, <3>1, <1>3, <1>4, LimitsAssumption
  <2>2. CASE ~Neg(text)
    <3>1. c > vmax - digit
      BY <1>1, <1>2, <1>4, <2>2 DEF too_large_a_digit, Signed
    <3> QED BY <2>2, <3>1, <1>3, <1>4, LimitsAssumption
  <2> QED BY <2>1, <2>2
<1>6. Denoted(text) \cap (vmin..vmax) = {}
  BY <1>3, <1>5, OutOfRange
<1> QED BY <1>1, <1>6, LimitIsInType, ReturnKeepsInv

LEMMA FinishKeepsInv == Inv /\ Finish => Inv'
<1> SUFFICES ASSUME Inv, Finish PROVE Inv'
  OBVIOUS
<1>1. /\ outcome = "digits" /\ rest = <<>> /\ Return(value, "true")
      /\ text \in Texts /\ Num(text) # <<>>
  BY DEF Finish, Inv
<1>2. scaled = FALSE
  BY <1>1 DEF Inv
<1>3. PICK n \in 0..Len(Num(text)) : Reads(n) /\ Holds(n)
  BY <1>1 DEF Inv
<1>4. Num(text) \in Seq(Range(text)) /\ Len(Num(text)) \in Nat
  BY <1>1, TextIsRead
<1>5. n = Len(Num(text))
  <2>1. Len(rest) = Len(Num(text)) - n /\ Len(rest) = 0
    BY <1>1, <1>3 DEF Reads
  <2> QED BY <2>1, <1>3, <1>4
<1>6. IsNumeral(Num(text))
  <2>1. DOMAIN Num(text) = 1..n
    BY <1>4, <1>5
  <2> QED BY <2>1, <1>1, <1>3 DEF Reads, IsNumeral
<1>7. value = Signed(text, Numbers(Num(text))[Len(Num(text))])
  BY <1>2, <1>3, <1>5 DEF Holds
<1>8. Denoted(text) = {value}
  BY <1>6, <1>7, DenotedIsSigned
<1>9. value \in vmin..vmax
  BY DEF Inv, NeverOverflows
<1> QED BY <1>1, <1>8, <1>9, ReturnKeepsInv


LEMMA ScaleKeepsInv == Inv /\ Scale => Inv'
<1> SUFFICES ASSUME Inv, Scale PROVE Inv'
  OBVIOUS
<1>1. /\ outcome = "digits" /\ rest # <<>> /\ scaled = FALSE /\ digit < base
      /\ ~too_many_digits /\ value' = value * base /\ scaled' = TRUE
      /\ text' = text /\ rest' = rest /\ negative' = negative /\ outcome' = outcome
  BY DEF Scale, AtDigit, Inv
<1>2. text \in Texts /\ negative = Neg(text) /\ negative \in BOOLEAN /\ Num(text) # <<>>
  BY <1>1 DEF Inv
<1>3. PICK n \in 0..Len(Num(text)), a \in Nat :
        /\ Reads(n) /\ a = Numbers(Num(text))[n]
        /\ value = Signed(text, IF scaled THEN 10 * a ELSE a)
  BY <1>1, AtADigit
<1>4. value = Signed(text, a)
  BY <1>1, <1>3
<1>5. value' = Signed(text, 10 * a)
  <2>1. a * 10 = 10 * a /\ (-a) * 10 = -(10 * a)
    OBVIOUS
  <2> QED BY <1>1, <1>4, <2>1 DEF Signed, base
<1>6. NeverOverflows'
  <2> DEFINE c == 10 * a
  <2>1. c \in Nat
    OBVIOUS
  <2>2. CASE Neg(text)
    <3>1. vmin <= -c
      BY <1>1, <1>2, <1>4, <2>2, TestBelow DEF too_many_digits, Signed
    <3>2. value' = -c
      BY <1>5, <2>2 DEF Signed
    <3> HIDE DEF c
    <3> QED BY <2>1, <3>1, <3>2, LimitsAssumption DEF NeverOverflows, base
  <2>3. CASE ~Neg(text)
    <3>1. c <= vmax
      BY <1>1, <1>2, <1>4, <2>3, TestAbove DEF too_many_digits, Signed
    <3>2. value' = c
      BY <1>5, <2>3 DEF Signed
    <3> HIDE DEF c
    <3> QED BY <2>1, <3>1, <3>2, LimitsAssumption DEF NeverOverflows, base
  <2> QED BY <2>2, <2>3
<1>7. Reads(n)'
  BY <1>1, <1>3 DEF Reads
<1>8. Holds(n)'
  BY <1>1, <1>3, <1>5 DEF Holds
<1>9. AcceptsExactlyTheInts'
  BY <1>1 DEF AcceptsExactlyTheInts
<1>10. digit' = digit
  BY <1>1 DEF digit
<1> QED BY <1>1, <1>2, <1>3, <1>6, <1>7, <1>8, <1>9, <1>10 DEF Inv

LEMMA AddKeepsInv == Inv /\ Add => Inv'
<1> SUFFICES ASSUME Inv, Add PROVE Inv'
  OBVIOUS
<1>1. /\ outcome = "digits" /\ scaled = TRUE /\ ~too_large_a_digit
      /\ value' = IF negative THEN value - digit ELSE value + digit
      /\ rest' = Tail(rest) /\ scaled' = FALSE
      /\ text' = text /\ negative' = negative /\ outcome' = outcome
  BY DEF Add, AtSum, Inv
<1>2. /\ text \in Texts /\ negative = Neg(text) /\ negative \in BOOLEAN
      /\ Num(text) # <<>> /\ rest # <<>> /\ digit < base
  BY <1>1 DEF Inv
<1>3. PICK n \in 0..Len(Num(text)), a \in Nat :
        /\ Reads(n) /\ n + 1 \in 1..Len(Num(text))
        /\ digit = kAsciiToInt(Num(text)[n + 1]) /\ digit \in 0..36
        /\ Numbers(Num(text))[n + 1] = 10 * a + digit
        /\ value = Signed(text, IF scaled THEN 10 * a ELSE a)
  BY <1>1, <1>2, AtADigit
<1> DEFINE c == 10 * a
           m == n + 1
<1>4. c \in Nat /\ value = Signed(text, c) /\ Numbers(Num(text))[n + 1] = c + digit
  BY <1>1, <1>3
<1> HIDE DEF c
<1>5. value' = Signed(text, c + digit) /\ NeverOverflows'
  <2>1. CASE Neg(text)
    <3>1. value = -c /\ ~(-c < vmin + digit) /\ value' = -c - digit
      BY <1>1, <1>2, <1>4, <2>1 DEF too_large_a_digit, Signed
    <3>2. value' = -(c + digit) /\ value' \in vmin..vmax
      BY <3>1, <1>3, <1>4, SumInType
    <3> QED BY <2>1, <3>2 DEF Signed, NeverOverflows
  <2>2. CASE ~Neg(text)
    <3>1. value = c /\ ~(c > vmax - digit) /\ value' = c + digit
      BY <1>1, <1>2, <1>4, <2>2 DEF too_large_a_digit, Signed
    <3>2. value' \in vmin..vmax
      BY <3>1, <1>3, <1>4, SumInType
    <3> QED BY <2>2, <3>1, <3>2 DEF Signed, NeverOverflows
  <2> QED BY <2>1, <2>2
<1>6. m \in 0..Len(Num(text)) /\ Len(Num(text)) \in Nat /\ n \in Nat
  BY <1>2, <1>3, TextIsRead
<1>7. Reads(m)'
  <2> DEFINE u == Num(text)
             S == Range(text)
  <2>1. /\ rest \in Seq(S) /\ Len(rest) = Len(u) - n
        /\ \A i \in 1..Len(rest) : rest[i] = u[n + i]
        /\ \A i \in 1..n : kAsciiToInt(u[i]) < base
    BY <1>3 DEF Reads
  <2> HIDE DEF u, S
  <2>2. /\ Tail(rest) \in Seq(S) /\ Len(Tail(rest)) = Len(rest) - 1
        /\ \A i \in 1..Len(Tail(rest)) : Tail(rest)[i] = rest[i + 1]
    BY <1>2, <2>1
  <2>3. Len(rest') = Len(u) - m
    BY <1>1, <1>6, <2>1, <2>2 DEF u
  <2>4. ASSUME NEW i \in 1..Len(rest') PROVE rest'[i] = u[m + i]
    <3>1. i + 1 \in 1..Len(rest) /\ n + (i + 1) = m + i
      BY <1>1, <1>6, <2>1, <2>2 DEF u
    <3>2. rest'[i] = rest[i + 1] /\ rest[i + 1] = u[n + (i + 1)]
      BY <1>1, <2>1, <2>2, <3>1
    <3> QED BY <3>1, <3>2
  <2>5. ASSUME NEW i \in 1..m PROVE kAsciiToInt(u[i]) < base
    <3>1. i \in 1..n \/ i = n + 1
      BY <1>6
    <3>2. kAsciiToInt(u[n + 1]) < base
      BY <1>2, <1>3 DEF u
    <3> QED BY <2>1, <3>1, <3>2
  <2>6. rest' \in Seq(S)
    BY <1>1, <2>2
  <2> HIDE DEF m
  <2> QED BY <1>1, <2>3, <2>4, <2>5, <2>6 DEF Reads, u, S
<1>8. Holds(m)'
  BY <1>1, <1>4, <1>5 DEF Holds
<1>9. AcceptsExactlyTheInts'
  BY <1>1 DEF AcceptsExactlyTheInts
<1> HIDE DEF m
<1> QED BY <1>1, <1>2, <1>5, <1>6, <1>7, <1>8, <1>9 DEF Inv

LEMMA NextKeepsInv == Inv /\ [Next]_vars => Inv'
<1> SUFFICES ASSUME Inv, [Next]_vars PROVE Inv'
  OBVIOUS
<1>1. CASE safe_parse_sign_and_base BY <1>1, SignKeepsInv
<1>2. CASE NotADigit BY <1>2, NotADigitKeepsInv
<1>3. CASE TooManyDigits BY <1>3, TooManyDigitsKeepsInv
<1>4. CASE Scale BY <1>4, ScaleKeepsInv
<1>5. CASE TooLargeADigit BY <1>5, TooLargeADigitKeepsInv
<1>6. CASE Add BY <1>6, AddKeepsInv
<1>7. CASE Finish BY <1>7, FinishKeepsInv
<1>8. CASE UNCHANGED vars
  BY <1>8 DEF vars, Inv, NeverOverflows, AcceptsExactlyTheInts, Reads, Holds, digit
<1> QED BY <1>1, <1>2, <1>3, <1>4, <1>5, <1>6, <1>7, <1>8 DEF Next

LEMMA InvHolds == Spec => []Inv
  BY InitInv, NextKeepsInv, PTL DEF Spec

\* The product and the sum stay in the type, after every multiplication and
\* every addition of the loops, whatever the limits of the type and however
\* long the text.
THEOREM NothingOverflows == Spec => []NeverOverflows
<1>1. Inv => NeverOverflows
  BY DEF Inv
<1> QED BY <1>1, InvHolds, PTL

\* SimpleAtoi answers true exactly for the numerals of the type, and the value
\* is then the number: for every text and all limits of the type.
THEOREM NumeralsAreRead == Spec => []AcceptsExactlyTheInts
<1>1. Inv => AcceptsExactlyTheInts
  BY DEF Inv
<1> QED BY <1>1, InvHolds, PTL
=============================================================================
