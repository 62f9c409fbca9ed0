---------------------------- MODULE BitsProofs ----------------------------
(***************************************************************************)
(* The loops over bits and the shifts are right for words of any width.    *)
(***************************************************************************)
EXTENDS Bits, FiniteSetTheorems, TLAPS

-----------------------------------------------------------------------------
(* Numbers. *)

\* Induction over numbers, in the form in which it is used here.
LEMMA LeastNumber ==
  ASSUME NEW T \in SUBSET Nat, T # {}
  PROVE  \E n \in T : \A k \in T : n <= k
<1> DEFINE R == OpToRel(<, Nat)
<1>1. IsWellFoundedOn(R, Nat)
  BY NatLessThanWellFounded, Zenon
<1>2. \E x \in T : \A y \in T : ~(<<y, x>> \in R)
  <2> HIDE DEF R
  <2> QED BY <1>1, WFMin
<1>3. ASSUME NEW x \in Nat, NEW y \in Nat, ~(y < x) PROVE x <= y
  BY <1>3
<1>4. ASSUME NEW x \in Nat, NEW y \in Nat, ~(<<y, x>> \in R) PROVE ~(y < x)
  BY <1>4, Zenon DEF OpToRel
<1> QED BY <1>2, <1>3, <1>4

\* What holds at 0 and is passed on holds everywhere below a bound.
LEMMA UpTo ==
  ASSUME NEW n \in Nat, NEW T, 0 \in T, \A k \in 0..(n - 1) : k \in T => k + 1 \in T
  PROVE  0..n \subseteq T
<1> DEFINE U == (0..n) \ T
<1>1. SUFFICES ASSUME U # {} PROVE FALSE
  OBVIOUS
<1>2. PICK k \in U : \A j \in U : k <= j
  <2>1. U \in SUBSET Nat
    OBVIOUS
  <2> HIDE DEF U
  <2> QED BY <1>1, <2>1, LeastNumber
<1>3. k # 0 /\ k \in 0..n
  OBVIOUS
<1>4. k - 1 \in 0..(n - 1) /\ k - 1 \notin U /\ (k - 1) + 1 = k
  BY <1>2, <1>3
<1> QED BY <1>2, <1>4

\* Division with remainder.
LEMMA Division ==
  ASSUME NEW w \in Nat, NEW a \in Nat \ {0}
  PROVE  /\ w \div a \in Nat /\ w % a \in 0..(a - 1)
         /\ w = a * (w \div a) + (w % a)
OBVIOUS

LEMMA Quotient ==
  ASSUME NEW a \in Nat \ {0}, NEW d \in Nat, NEW r \in 0..(a - 1)
  PROVE  (a * d + r) \div a = d /\ (a * d + r) % a = r
OBVIOUS

-----------------------------------------------------------------------------
(* Powers of two. *)

LEMMA WidthIsANumber == width \in Nat \ {0} /\ board_size \in 1..width
<1>1. \A n \in Nat \ {0} : n * n \in Nat \ {0} /\ n \in 1..(n * n)
  OBVIOUS
<1> QED BY <1>1, SizeAssumption DEF width

\* What the recursion does in one step.
Double(f, n) == IF n = 0 THEN 1 ELSE 2 * f[n - 1]

\* The recursion defines a function.
LEMMA PowersExist == \E f : f = [n \in 0..width |-> Double(f, n)]
<1> DEFINE T == {k \in Nat : \E f : f = [n \in 0..k |-> Double(f, n)]}
<1>1. 0 \in T
  <2> DEFINE f == [n \in 0..0 |-> 1]
  <2>1. \A n \in 0..0 : Double(f, n) = 1
    BY DEF Double
  <2>2. f = [n \in 0..0 |-> Double(f, n)]
    BY <2>1
  <2> HIDE DEF f
  <2> QED BY <2>2
<1>2. ASSUME NEW k \in Nat, k \in T PROVE k + 1 \in T
  <2>1. PICK f : f = [n \in 0..k |-> Double(f, n)]
    BY <1>2
  <2> DEFINE g == [n \in 0..(k + 1) |-> Double(f, n)]
  <2>2. ASSUME NEW n \in 0..k PROVE f[n] = g[n]
    <3>1. n \in 0..(k + 1)
      OBVIOUS
    <3>2. f[n] = Double(f, n) /\ g[n] = Double(f, n)
      BY <2>1, <3>1
    <3> QED BY <3>2
  <2>3. ASSUME NEW n \in 0..(k + 1) PROVE Double(f, n) = Double(g, n)
    <3> HIDE DEF g
    <3>1. n # 0 => n - 1 \in 0..k
      OBVIOUS
    <3> QED BY <2>2, <3>1 DEF Double
  <2>4. g = [n \in 0..(k + 1) |-> Double(g, n)]
    BY <2>3
  <2> HIDE DEF g
  <2> QED BY <2>4
<1>3. 0..width \subseteq T
  <2> HIDE DEF T
  <2> QED BY <1>1, <1>2, UpTo, WidthIsANumber
<1>4. width \in T
  BY <1>3, WidthIsANumber
<1> QED BY <1>4

LEMMA PowersDouble ==
  /\ pow2[0] = 1
  /\ \A n \in 0..(width - 1) : pow2[n + 1] = 2 * pow2[n]
<1> DEFINE two == CHOOSE f : f = [n \in 0..width |-> Double(f, n)]
<1>1. two = [n \in 0..width |-> Double(two, n)]
  BY PowersExist
<1>2. pow2 = [n \in 0..width |-> two[n]]
  BY Zenon DEF pow2, Double
<1> HIDE DEF two
<1>3. \A n \in 0..width : pow2[n] = Double(two, n)
  BY <1>1, <1>2
<1>4. \A n \in 0..width : Double(two, n) = Double(pow2, n)
  <2>1. \A n \in 0..width : n # 0 => n - 1 \in 0..width
    BY WidthIsANumber
  <2> QED BY <1>2, <2>1 DEF Double
<1>5. \A n \in 0..width : pow2[n] = Double(pow2, n)
  BY <1>3, <1>4
<1>6. 0 \in 0..width /\ \A n \in 0..(width - 1) : n + 1 \in 0..width /\ n + 1 # 0 /\ (n + 1) - 1 = n
  BY WidthIsANumber
<1> QED BY <1>5, <1>6 DEF Double

LEMMA PowersArePositive ==
  \A n \in 0..width : pow2[n] \in Nat \ {0}
<1> DEFINE T == {n \in Nat : pow2[n] \in Nat \ {0}}
<1>1. 0 \in T
  BY PowersDouble
<1>2. ASSUME NEW n \in 0..(width - 1), n \in T PROVE n + 1 \in T
  <2>1. pow2[n + 1] = 2 * pow2[n] /\ pow2[n] \in Nat \ {0}
    BY <1>2, PowersDouble
  <2> QED BY <2>1
<1>3. 0..width \subseteq T
  <2> HIDE DEF T
  <2> QED BY <1>1, <1>2, UpTo, WidthIsANumber
<1> QED BY <1>3

LEMMA PowersMultiply ==
  ASSUME NEW a \in 0..width, NEW b \in 0..(width - a)
  PROVE  pow2[a + b] = pow2[a] * pow2[b]
<1> DEFINE T == {n \in Nat : pow2[a + n] = pow2[a] * pow2[n]}
<1>1. 0 \in T
  <2>1. pow2[a] \in Nat /\ a + 0 = a
    BY PowersArePositive
  <2> QED BY <2>1, PowersDouble
<1>2. ASSUME NEW n \in 0..((width - a) - 1), n \in T PROVE n + 1 \in T
  <2>1. /\ n \in 0..(width - 1) /\ a + n \in 0..(width - 1)
        /\ n \in 0..width /\ a + (n + 1) = (a + n) + 1
    BY WidthIsANumber
  <2>2. pow2[n + 1] = 2 * pow2[n] /\ pow2[a + (n + 1)] = 2 * pow2[a + n]
    BY <2>1, PowersDouble
  <2>3. pow2[a + n] = pow2[a] * pow2[n] /\ pow2[a] \in Nat /\ pow2[n] \in Nat
    BY <1>2, <2>1, PowersArePositive
  <2>4. \A x \in Nat, y \in Nat : 2 * (x * y) = x * (2 * y)
    OBVIOUS
  <2>5. pow2[a + (n + 1)] = pow2[a] * pow2[n + 1]
    BY <2>2, <2>3, <2>4
  <2> QED BY <2>5
<1>3. 0..(width - a) \subseteq T
  <2>1. width - a \in Nat
    BY WidthIsANumber
  <2> HIDE DEF T
  <2> QED BY <1>1, <1>2, <2>1, UpTo
<1> QED BY <1>3

\* Powers grow with the exponent.
LEMMA PowersGrow ==
  ASSUME NEW a \in 0..width, NEW b \in 0..width, a < b
  PROVE  pow2[b] >= 2 * pow2[a]
<1>1. a + 1 \in 0..width /\ b - (a + 1) \in 0..(width - (a + 1)) /\ (a + 1) + (b - (a + 1)) = b
      /\ b - (a + 1) \in 0..width /\ a \in 0..(width - 1)
  BY WidthIsANumber
<1>2. pow2[b] = pow2[a + 1] * pow2[b - (a + 1)] /\ pow2[a + 1] = 2 * pow2[a]
  BY <1>1, PowersMultiply, PowersDouble
<1>3. pow2[b - (a + 1)] \in Nat \ {0} /\ pow2[a] \in Nat \ {0}
  BY <1>1, PowersArePositive
<1>4. \A x \in Nat, y \in Nat \ {0} : x * y >= x
  OBVIOUS
<1> QED BY <1>2, <1>3, <1>4

-----------------------------------------------------------------------------
(* Words and sets of bits. *)

LEMMA WordRange ==
  \A w : w \in Word <=> (w \in Nat /\ w < pow2[width])
<1>1. pow2[width] \in Nat \ {0}
  BY PowersArePositive, WidthIsANumber
<1> QED BY <1>1 DEF Word

\* A shift by n + 1 is a shift by n and one by 1.
LEMMA Halving ==
  ASSUME NEW w \in Nat, NEW n \in Bit
  PROVE  /\ w \div pow2[n] \in Nat /\ w \div pow2[n + 1] \in Nat
         /\ (w \div pow2[n]) \div 2 = w \div pow2[n + 1]
         /\ w \div pow2[n] = 2 * (w \div pow2[n + 1]) + ((w \div pow2[n]) % 2)
         /\ (w \div pow2[n]) % 2 \in 0..1
<1>1. n \in 0..width /\ n + 1 \in 0..width /\ n \in 0..(width - 1)
  BY WidthIsANumber DEF Bit
<1> DEFINE p == pow2[n]
           q == w \div p
           b == q % 2
           d == q \div 2
           r == w % p
<1>2. p \in Nat \ {0} /\ pow2[n + 1] = 2 * p /\ 2 * p \in Nat \ {0}
  BY <1>1, PowersArePositive, PowersDouble
<1> HIDE DEF p
<1>3. q \in Nat /\ r \in 0..(p - 1) /\ w = p * q + r
  BY <1>2, Division
<1> HIDE DEF q, r
<1>4. d \in Nat /\ b \in 0..1 /\ q = 2 * d + b
  BY <1>3, Division
<1> HIDE DEF d, b
<1>5. p * q = (2 * p) * d + p * b
  <2>1. \A x \in Nat, y \in Nat, z \in Nat : x * (2 * y + z) = (2 * x) * y + x * z
    OBVIOUS
  <2> QED BY <2>1, <1>2, <1>3, <1>4
<1>6. p * b + r \in 0..(2 * p - 1)
  <2>1. b = 0 \/ b = 1
    BY <1>4
  <2>2. CASE b = 0
    BY <1>2, <1>3, <2>2
  <2>3. CASE b = 1
    BY <1>2, <1>3, <2>3
  <2> QED BY <2>1, <2>2, <2>3
<1>7. p * q \in Nat /\ p * b \in Nat /\ (2 * p) * d \in Nat
  <2>1. \A x \in Nat, y \in Nat : x * y \in Nat
    OBVIOUS
  <2> QED BY <2>1, <1>2, <1>3, <1>4
<1>8. w = (2 * p) * d + (p * b + r)
  BY <1>3, <1>5, <1>7
<1>9. w \div (2 * p) = d
  BY <1>2, <1>4, <1>6, <1>8, Quotient
<1> QED BY <1>2, <1>3, <1>4, <1>9 DEF q, d, b, p

\* What the recursion of WordOf does in one step.
Horner(S, f, n) ==
  IF n = width THEN 0 ELSE 2 * f[n + 1] + (IF n \in S THEN 1 ELSE 0)

LEMMA HornerExists ==
  ASSUME NEW S
  PROVE  \E f : f = [n \in 0..width |-> Horner(S, f, n)]
<1> DEFINE T == {k \in 0..width : \E f : f = [n \in (width - k)..width |-> Horner(S, f, n)]}
<1>0. width \in Nat
  BY WidthIsANumber
<1>1. 0 \in T
  <2> DEFINE f == [n \in (width - 0)..width |-> 0]
  <2>1. \A n \in (width - 0)..width : Horner(S, f, n) = 0
    BY <1>0 DEF Horner
  <2>2. f = [n \in (width - 0)..width |-> Horner(S, f, n)]
    BY <2>1
  <2> HIDE DEF f
  <2> QED BY <2>2, <1>0
<1>2. ASSUME NEW k \in 0..(width - 1), k \in T PROVE k + 1 \in T
  <2>1. PICK f : f = [n \in (width - k)..width |-> Horner(S, f, n)]
    BY <1>2
  <2> DEFINE g == [n \in (width - (k + 1))..width |-> Horner(S, f, n)]
  <2>2. ASSUME NEW n \in (width - k)..width PROVE f[n] = g[n]
    <3>1. n \in (width - (k + 1))..width
      BY <1>0
    <3>2. f[n] = Horner(S, f, n) /\ g[n] = Horner(S, f, n)
      BY <2>1, <3>1
    <3> QED BY <3>2
  <2>3. ASSUME NEW n \in (width - (k + 1))..width PROVE Horner(S, f, n) = Horner(S, g, n)
    <3> HIDE DEF g
    <3>1. n # width => n + 1 \in (width - k)..width
      BY <1>0
    <3> QED BY <2>2, <3>1 DEF Horner
  <2>4. g = [n \in (width - (k + 1))..width |-> Horner(S, g, n)]
    BY <2>3
  <2> HIDE DEF g
  <2>5. k + 1 \in 0..width
    BY <1>0
  <2> QED BY <2>4, <2>5
<1>3. 0..width \subseteq T
  <2> HIDE DEF T
  <2> QED BY <1>0, <1>1, <1>2, UpTo
<1>4. width \in T /\ width - width = 0
  BY <1>0, <1>3
<1> QED BY <1>4

\* WordOf adds up the bits, from the highest down.
LEMMA HornerScheme ==
  ASSUME NEW S
  PROVE  \E f : /\ WordOf(S) = f[0]
                /\ f[width] = 0
                /\ \A n \in Bit : f[n] = 2 * f[n + 1] + (IF n \in S THEN 1 ELSE 0)
<1> DEFINE from == CHOOSE f : f = [n \in 0..width |-> Horner(S, f, n)]
<1>1. from = [n \in 0..width |-> Horner(S, from, n)]
  BY HornerExists
<1>2. WordOf(S) = from[0]
  BY Zenon DEF WordOf, Horner
<1> HIDE DEF from
<1>3. \A n \in 0..width : from[n] = Horner(S, from, n)
  BY <1>1
<1>4. width \in 0..width /\ \A n \in Bit : n \in 0..width /\ n # width
  BY WidthIsANumber DEF Bit
<1>5. \A n \in Bit : from[n] = 2 * from[n + 1] + (IF n \in S THEN 1 ELSE 0)
  BY <1>3, <1>4 DEF Horner
<1>6. from[width] = 0
  BY <1>3, <1>4 DEF Horner
<1> QED BY <1>2, <1>5, <1>6

\* A word is determined by its bits.
LEMMA WordIsBack ==
  ASSUME NEW w \in Word
  PROVE  WordOf(SetOf(w)) = w
<1>1. PICK f : /\ WordOf(SetOf(w)) = f[0]
               /\ f[width] = 0
               /\ \A n \in Bit : f[n] = 2 * f[n + 1] + (IF n \in SetOf(w) THEN 1 ELSE 0)
  BY HornerScheme
<1>2. w \in Nat /\ w < pow2[width] /\ width \in Nat /\ pow2[width] \in Nat \ {0}
  BY WordRange, WidthIsANumber, PowersArePositive
<1> DEFINE T == {k \in 0..width : f[width - k] = w \div pow2[width - k]}
<1>3. 0 \in T
  <2>1. w \div pow2[width] = 0
    <3>1. pow2[width] * 0 + w = w /\ w \in 0..(pow2[width] - 1)
      BY <1>2
    <3> QED BY <1>2, <3>1, Quotient
  <2>2. width - 0 = width
    BY <1>2
  <2> QED BY <1>1, <1>2, <2>1, <2>2
<1>4. ASSUME NEW k \in 0..(width - 1), k \in T PROVE k + 1 \in T
  <2> DEFINE n == width - (k + 1)
  <2>1. n \in Bit /\ n + 1 = width - k /\ k + 1 \in 0..width
    BY <1>2 DEF Bit
  <2>2. f[n + 1] = w \div pow2[n + 1]
    BY <1>4, <2>1
  <2> HIDE DEF n
  <2>3. n \in SetOf(w) <=> (w \div pow2[n]) % 2 = 1
    BY <2>1 DEF SetOf
  <2>4. (w \div pow2[n]) % 2 = IF n \in SetOf(w) THEN 1 ELSE 0
    <3>1. (w \div pow2[n]) % 2 \in 0..1
      BY <1>2, <2>1, Halving
    <3> QED BY <2>3, <3>1
  <2>5. f[n] = w \div pow2[n]
    BY <1>1, <1>2, <2>1, <2>2, <2>4, Halving
  <2> QED BY <2>1, <2>5 DEF n
<1>5. 0..width \subseteq T
  <2> HIDE DEF T
  <2> QED BY <1>2, <1>3, <1>4, UpTo
<1>6. f[0] = w \div pow2[0]
  <2>1. width \in T /\ width - width = 0
    BY <1>2, <1>5
  <2> QED BY <2>1
<1>7. w \div 1 = w
  BY <1>2
<1> QED BY <1>1, <1>6, <1>7, PowersDouble

\* Every set of bits has a word.
LEMMA SetIsBack ==
  ASSUME NEW S \in SUBSET Bit
  PROVE  WordOf(S) \in Word /\ SetOf(WordOf(S)) = S
<1>1. PICK f : /\ WordOf(S) = f[0]
               /\ f[width] = 0
               /\ \A n \in Bit : f[n] = 2 * f[n + 1] + (IF n \in S THEN 1 ELSE 0)
  BY HornerScheme
<1>2. width \in Nat
  BY WidthIsANumber
<1> DEFINE T == {k \in 0..width : f[width - k] \in Nat /\ f[width - k] < pow2[k]}
<1>3. 0 \in T
  BY <1>1, <1>2, PowersDouble
<1>4. ASSUME NEW k \in 0..(width - 1), k \in T PROVE k + 1 \in T
  <2> DEFINE n == width - (k + 1)
  <2>1. n \in Bit /\ n + 1 = width - k /\ k + 1 \in 0..width /\ k \in 0..width
    BY <1>2 DEF Bit
  <2>2. f[n + 1] \in Nat /\ f[n + 1] < pow2[k]
    BY <1>4, <2>1
  <2> HIDE DEF n
  <2>3. pow2[k + 1] = 2 * pow2[k] /\ pow2[k] \in Nat
    BY <2>1, PowersDouble, PowersArePositive
  <2>4. f[n] = 2 * f[n + 1] + (IF n \in S THEN 1 ELSE 0)
    BY <1>1, <2>1
  <2>5. f[n] \in Nat /\ f[n] < pow2[k + 1]
    BY <2>2, <2>3, <2>4
  <2> QED BY <2>1, <2>5 DEF n
<1>5. 0..width \subseteq T
  <2> HIDE DEF T
  <2> QED BY <1>2, <1>3, <1>4, UpTo
<1>6. \A n \in 0..width : f[n] \in Nat
  <2>1. \A n \in 0..width : width - n \in 0..width /\ width - (width - n) = n
    BY <1>2
  <2> QED BY <1>5, <2>1
<1>7. WordOf(S) \in Word
  <2>1. width \in T /\ width - width = 0
    BY <1>2, <1>5
  <2> QED BY <1>1, <2>1, WordRange
<1>8. \A n \in Bit : n \in 0..width /\ n + 1 \in 0..width
  BY <1>2 DEF Bit
<1>9. \A n \in Bit : f[n] \div 2 = f[n + 1] /\ f[n] % 2 = IF n \in S THEN 1 ELSE 0
  <2>1. ASSUME NEW n \in Bit PROVE f[n] \div 2 = f[n + 1] /\ f[n] % 2 = IF n \in S THEN 1 ELSE 0
    <3> DEFINE b == IF n \in S THEN 1 ELSE 0
    <3>1. b \in 0..(2 - 1) /\ f[n] = 2 * f[n + 1] + b /\ f[n + 1] \in Nat
      BY <1>1, <1>6, <1>8
    <3> HIDE DEF b
    <3>2. f[n] \div 2 = f[n + 1] /\ f[n] % 2 = b
      BY <3>1, Quotient
    <3> QED BY <3>2 DEF b
  <2> QED BY <2>1
<1> DEFINE w == f[0]
           U == {n \in 0..width : w \div pow2[n] = f[n]}
<1>10. w \in Nat
  BY <1>2, <1>6
<1>11. 0 \in U
  <2>1. w \div 1 = w
    BY <1>10
  <2> QED BY <1>2, <2>1, PowersDouble
<1>12. ASSUME NEW n \in 0..(width - 1), n \in U PROVE n + 1 \in U
  <2>1. n \in Bit
    BY DEF Bit
  <2>2. w \div pow2[n + 1] = f[n + 1]
    <3>1. w \div pow2[n] = f[n]
      BY <1>12
    <3> HIDE DEF w
    <3> QED BY <1>9, <1>10, <2>1, <3>1, Halving
  <2> QED BY <1>8, <2>1, <2>2
<1>13. 0..width \subseteq U
  <2> HIDE DEF U
  <2> QED BY <1>2, <1>11, <1>12, UpTo
<1>14. \A n \in Bit : (w \div pow2[n]) % 2 = IF n \in S THEN 1 ELSE 0
  BY <1>8, <1>9, <1>13
<1>15. SetOf(w) = S
  BY <1>14 DEF SetOf
<1> QED BY <1>1, <1>7, <1>15

LEMMA NoBits ==
  ASSUME NEW w \in Word
  PROVE  SetOf(w) = {} <=> w = 0
<1>1. 0 \in Word /\ SetOf(0) = {}
  <2>1. pow2[width] \in Nat \ {0} /\ 0 < pow2[width]
    BY WidthIsANumber, PowersArePositive
  <2>2. ASSUME NEW i \in Bit PROVE ~((0 \div pow2[i]) % 2 = 1)
    <3>1. pow2[i] \in Nat \ {0}
      BY WidthIsANumber, PowersArePositive DEF Bit
    <3>2. 0 \div pow2[i] = 0
      BY <3>1
    <3> QED BY <3>2
  <2> QED BY <2>1, <2>2, WordRange DEF SetOf
<1>2. SetOf(w) = {} => w = WordOf({}) /\ 0 = WordOf({})
  BY <1>1, WordIsBack
<1> QED BY <1>1, <1>2

\* A multiple of a power of two, shifted by less.
LEMMA ShiftedMultiple ==
  ASSUME NEW a \in Nat, NEW k \in 0..width, NEW i \in 0..k
  PROVE  (pow2[k] * a) \div pow2[i] = pow2[k - i] * a
<1>1. i \in 0..width /\ k - i \in 0..(width - i) /\ k - i \in 0..width /\ i + (k - i) = k
  BY WidthIsANumber
<1>2. pow2[k] = pow2[i] * pow2[k - i]
  BY <1>1, PowersMultiply
<1>3. pow2[i] \in Nat \ {0} /\ pow2[k - i] \in Nat
  BY <1>1, PowersArePositive
<1> DEFINE p == pow2[i]
           q == pow2[k - i]
<1>4. p \in Nat \ {0} /\ q \in Nat
  BY <1>3
<1> HIDE DEF p, q
<1>5. (p * q) * a = p * (q * a) + 0 /\ q * a \in Nat
  BY <1>4
<1>6. (p * (q * a) + 0) \div p = q * a
  <2>1. 0 \in 0..(p - 1)
    BY <1>4
  <2> QED BY <1>4, <1>5, <2>1, Quotient
<1> QED BY <1>2, <1>5, <1>6 DEF p, q

\* Every word but 0 is an odd multiple of a power of two.
LEMMA OddPart ==
  ASSUME NEW w \in Word, w # 0
  PROVE  \E k \in Bit, m \in Nat : w = pow2[k] * (2 * m + 1)
<1>1. w \in Nat /\ w < pow2[width] /\ width \in Nat \ {0} /\ pow2[width] \in Nat \ {0}
  BY WordRange, WidthIsANumber, PowersArePositive
<1> DEFINE T == {n \in 0..width : w % pow2[n] # 0}
<1>2. width \in T
  <2>1. w \in 0..(pow2[width] - 1) /\ pow2[width] * 0 + w = w
    BY <1>1
  <2>2. w % pow2[width] = w
    BY <1>1, <2>1, Quotient
  <2> QED BY <1>1, <2>2
<1>3. PICK n \in T : \A j \in T : n <= j
  <2>1. T \in SUBSET Nat
    BY <1>1
  <2> HIDE DEF T
  <2> QED BY <1>2, <2>1, LeastNumber
<1>4. n # 0
  <2>1. w % 1 = 0
    BY <1>1
  <2> QED BY <2>1, PowersDouble
<1> DEFINE k == n - 1
<1>5. k \in Bit /\ k \in 0..width /\ n = k + 1 /\ k < n
  BY <1>1, <1>4 DEF Bit
<1>6. w % pow2[k] = 0
  BY <1>3, <1>5
<1>7. w % pow2[k + 1] # 0
  BY <1>5
<1> HIDE DEF k
<1> DEFINE p == pow2[k]
           a == w \div p
<1>8. p \in Nat \ {0} /\ pow2[k + 1] = 2 * p
  BY <1>5, PowersArePositive, PowersDouble DEF Bit
<1> HIDE DEF p
<1>9. a \in Nat /\ w = p * a + 0
  BY <1>1, <1>6, <1>8, Division DEF p
<1> HIDE DEF a
<1>10. a % 2 = 1 /\ a \div 2 \in Nat /\ a = 2 * (a \div 2) + (a % 2)
  <2>1. a % 2 \in 0..(2 - 1) /\ a \div 2 \in Nat /\ a = 2 * (a \div 2) + (a % 2)
    BY <1>9, Division
  <2>2. CASE a % 2 = 0
    <3> DEFINE d == a \div 2
    <3>1. d \in Nat /\ a = 2 * d
      BY <2>1, <2>2
    <3> HIDE DEF d
    <3>2. w = (2 * p) * d + 0 /\ 0 \in 0..((2 * p) - 1) /\ 2 * p \in Nat \ {0}
      BY <1>8, <1>9, <3>1
    <3>3. w % (2 * p) = 0
      BY <3>1, <3>2, Quotient
    <3> QED BY <1>7, <1>8, <3>3
  <2> QED BY <2>1, <2>2
<1>11. w = p * (2 * (a \div 2) + 1)
  BY <1>8, <1>9, <1>10
<1> QED BY <1>5, <1>10, <1>11 DEF p

LEMMA Parity ==
  ASSUME NEW m \in Nat
  PROVE  (2 * m + 1) % 2 = 1 /\ (2 * m) % 2 = 0
OBVIOUS

\* Above its lowest bit a word and its predecessor agree, and below it the word
\* has no bits.
LEMMA Predecessor ==
  ASSUME NEW w \in Word, NEW k \in Bit, NEW m \in Nat, w = pow2[k] * (2 * m + 1)
  PROVE  /\ k \in SetOf(w) /\ \A i \in SetOf(w) : k <= i
         /\ w # 0 /\ minus_1(w) = w - 1 /\ w - 1 \in Word
         /\ SetOf(w) \cap SetOf(w - 1) = SetOf(w) \ {k}
<1>1. w \in Nat /\ w < pow2[width] /\ width \in Nat \ {0} /\ pow2[width] \in Nat \ {0}
  BY WordRange, WidthIsANumber, PowersArePositive
<1> DEFINE a == 2 * m + 1
<1>2. /\ k \in 0..width /\ a \in Nat \ {0} /\ a % 2 = 1 /\ a - 1 \in Nat /\ (a - 1) % 2 = 0
      /\ w = pow2[k] * a /\ pow2[k] \in Nat \ {0}
  <2>1. (a - 1) = 2 * m
    OBVIOUS
  <2>2. k \in 0..width
    BY <1>1 DEF Bit
  <2> QED BY <2>1, <2>2, Parity, PowersArePositive
<1> HIDE DEF a
<1>3. w # 0 /\ w - 1 \in Nat
  BY <1>1, <1>2
<1>4. w - 1 \in Word /\ minus_1(w) = w - 1
  <2>1. w - 1 \in 0..(pow2[width] - 1) /\ pow2[width] * 0 + (w - 1) = w - 1
    BY <1>1, <1>3
  <2>2. (pow2[width] * 0 + (w - 1)) % pow2[width] = w - 1
    BY <1>1, <2>1, Quotient
  <2> QED BY <2>1, <2>2 DEF Word, minus_1
<1>5. w \div pow2[k] = a
  <2>1. k \in 0..k /\ k - k = 0
    BY <1>2
  <2>2. (pow2[k] * a) \div pow2[k] = pow2[0] * a
    BY <1>2, <2>1, ShiftedMultiple
  <2> QED BY <1>2, <2>2, PowersDouble
<1>6. k \in SetOf(w)
  BY <1>2, <1>5 DEF SetOf
<1>7. ASSUME NEW i \in Bit, i < k PROVE i \notin SetOf(w)
  <2>0. i \in 0..(width - 1) /\ k \in 0..(width - 1) /\ width \in Nat
    BY <1>1 DEF Bit
  <2>1. i \in 0..k /\ (k - i) - 1 \in 0..(width - 1) /\ ((k - i) - 1) + 1 = k - i
    BY <1>7, <2>0
  <2>2. w \div pow2[i] = pow2[k - i] * a
    BY <1>2, <2>1, ShiftedMultiple
  <2> DEFINE c == pow2[(k - i) - 1]
  <2>3. pow2[k - i] = 2 * c /\ c \in Nat
    <3>1. (k - i) - 1 \in 0..width
      BY <1>1, <2>1
    <3>2. c \in Nat
      BY <3>1, PowersArePositive
    <3> QED BY <2>1, <3>2, PowersDouble
  <2> HIDE DEF c
  <2>4. (2 * c) * a = 2 * (c * a) /\ c * a \in Nat
    BY <1>2, <2>3
  <2>5. (2 * (c * a)) % 2 = 0
    BY <2>4, Parity
  <2> QED BY <2>2, <2>3, <2>4, <2>5 DEF SetOf
<1>8. \A i \in SetOf(w) : k <= i
  BY <1>7 DEF SetOf, Bit
<1>9. k \notin SetOf(w - 1)
  <2> DEFINE p == pow2[k]
  <2>1. p \in Nat \ {0} /\ w = p * a
    BY <1>2
  <2> HIDE DEF p
  <2>2. w - 1 = p * (a - 1) + (p - 1) /\ p - 1 \in 0..(p - 1)
    BY <1>2, <2>1
  <2>3. (p * (a - 1) + (p - 1)) \div p = a - 1
    BY <1>2, <2>1, <2>2, Quotient
  <2>4. ~(((w - 1) \div p) % 2 = 1)
    BY <1>2, <2>2, <2>3
  <2> QED BY <2>4 DEF SetOf, p
<1>10. ASSUME NEW i \in Bit, k < i PROVE (w - 1) \div pow2[i] = w \div pow2[i]
  <2> DEFINE p == pow2[i]
             d == w \div p
             r == w % p
  <2>0. i \in 0..(width - 1) /\ k \in 0..(width - 1) /\ width \in Nat
    BY <1>1 DEF Bit
  <2>1. /\ i \in 0..width /\ (i - k) - 1 \in 0..(width - 1) /\ ((i - k) - 1) + 1 = i - k
        /\ i - k \in 0..(width - k) /\ k + (i - k) = i
    BY <1>10, <2>0
  <2>2. p \in Nat \ {0}
    BY <2>1, PowersArePositive
  <2>3. p = pow2[k] * pow2[i - k]
    BY <1>2, <2>1, PowersMultiply
  <2> HIDE DEF p
  <2>4. d \in Nat /\ r \in 0..(p - 1) /\ w = p * d + r
    BY <1>1, <2>2, Division
  <2> HIDE DEF d, r
  <2>5. r # 0
    <3>1. SUFFICES ASSUME r = 0 PROVE FALSE
      OBVIOUS
    <3> DEFINE c == pow2[(i - k) - 1]
    <3>2. pow2[i - k] = 2 * c /\ c \in Nat
      <4>1. (i - k) - 1 \in 0..width
        BY <1>1, <2>1
      <4>2. c \in Nat
        BY <4>1, PowersArePositive
      <4> QED BY <2>1, <4>2, PowersDouble
    <3> HIDE DEF c
    <3>3. w = pow2[k] * (2 * (c * d)) /\ c * d \in Nat
      <4>1. \A x \in Nat, y \in Nat, z \in Nat : (x * (2 * y)) * z = x * (2 * (y * z)) /\ y * z \in Nat
        OBVIOUS
      <4>2. p * d = pow2[k] * (2 * (c * d)) /\ c * d \in Nat
        BY <1>2, <2>3, <2>4, <3>2, <4>1
      <4>3. w = p * d
        BY <2>2, <2>4, <3>1
      <4> QED BY <4>2, <4>3
    <3>4. \A x \in Nat \ {0}, y \in Nat, z \in Nat : x * y = x * z => y = z
      OBVIOUS
    <3>5. 2 * (c * d) = a
      <4>1. 2 * (c * d) \in Nat /\ pow2[k] * (2 * (c * d)) = pow2[k] * a
        BY <1>2, <3>3
      <4> QED BY <1>2, <3>4, <4>1
    <3>6. (2 * (c * d)) % 2 = 0
      BY <3>3, Parity
    <3> QED BY <1>2, <3>5, <3>6
  <2>6. w - 1 = p * d + (r - 1) /\ r - 1 \in 0..(p - 1)
    <3>1. p * d \in Nat
      BY <2>2, <2>4
    <3> QED BY <2>2, <2>4, <2>5, <3>1
  <2>7. (w - 1) \div p = d
    BY <2>2, <2>4, <2>6, Quotient
  <2> QED BY <2>7 DEF p, d
<1>11. ASSUME NEW i \in Bit PROVE (i \in SetOf(w) /\ i \in SetOf(w - 1)) <=> (i \in SetOf(w) /\ i # k)
  <2>1. CASE i < k
    BY <1>7, <2>1
  <2>2. CASE i = k
    BY <1>9, <2>2
  <2>3. CASE k < i
    BY <1>10, <2>3 DEF SetOf, Bit
  <2>4. i < k \/ i = k \/ k < i
    BY DEF Bit
  <2> QED BY <2>1, <2>2, <2>3, <2>4
<1>12. SetOf(w) \subseteq Bit
  BY DEF SetOf
<1>13. SetOf(w) \cap SetOf(w - 1) = SetOf(w) \ {k}
  BY <1>11, <1>12
<1> QED BY <1>3, <1>4, <1>6, <1>8, <1>13

\* bb & bb - 1 clears the lowest bit and no other.
LEMMA LowestBitCleared ==
  ASSUME NEW w \in Word, w # 0
  PROVE  /\ clear_lsb(w) \in Word
         /\ \E k \in SetOf(w) : /\ \A i \in SetOf(w) : k <= i
                                /\ SetOf(clear_lsb(w)) = SetOf(w) \ {k}
<1>1. PICK k \in Bit, m \in Nat : w = pow2[k] * (2 * m + 1)
  BY OddPart
<1>2. /\ k \in SetOf(w) /\ \A i \in SetOf(w) : k <= i
      /\ minus_1(w) = w - 1
      /\ SetOf(w) \cap SetOf(w - 1) = SetOf(w) \ {k}
  BY <1>1, Predecessor
<1>3. clear_lsb(w) = WordOf(SetOf(w) \ {k})
  BY <1>2, Zenon DEF clear_lsb, &
<1>4. SetOf(w) \ {k} \in SUBSET Bit
  BY DEF SetOf
<1>5. clear_lsb(w) \in Word /\ SetOf(clear_lsb(w)) = SetOf(w) \ {k}
  BY <1>3, <1>4, SetIsBack
<1> QED BY <1>2, <1>5

\* A power of two has one bit.
LEMMA PowerBits ==
  ASSUME NEW k \in Bit
  PROVE  pow2[k] \in Word /\ pow2[k] # 0 /\ SetOf(pow2[k]) = {k} /\ WordOf({k}) = pow2[k]
<1>1. k \in 0..width /\ width \in 0..width /\ k < width
  BY WidthIsANumber DEF Bit
<1>2. pow2[k] \in Nat \ {0} /\ pow2[width] >= 2 * pow2[k] /\ pow2[width] \in Nat
  BY <1>1, PowersArePositive, PowersGrow
<1>3. pow2[k] \in Word /\ pow2[k] # 0
  BY <1>2, WordRange
<1>4. k \in SetOf(pow2[k]) /\ \A i \in SetOf(pow2[k]) : k <= i
  <2>1. pow2[k] = pow2[k] * (2 * 0 + 1)
    BY <1>2
  <2> QED BY <1>3, <2>1, Predecessor
<1>5. ASSUME NEW i \in Bit, k < i PROVE i \notin SetOf(pow2[k])
  <2>1. i \in 0..width
    BY WidthIsANumber DEF Bit
  <2>2. pow2[i] \in Nat \ {0} /\ pow2[i] >= 2 * pow2[k]
    BY <1>1, <1>5, <2>1, PowersArePositive, PowersGrow
  <2>3. pow2[k] \in 0..(pow2[i] - 1) /\ pow2[i] * 0 + pow2[k] = pow2[k]
    BY <1>2, <2>2
  <2>4. (pow2[i] * 0 + pow2[k]) \div pow2[i] = 0
    BY <2>2, <2>3, Quotient
  <2>5. ~((pow2[k] \div pow2[i]) % 2 = 1)
    BY <2>3, <2>4
  <2> QED BY <2>5 DEF SetOf
<1>6. \A i \in SetOf(pow2[k]) : i \in Bit /\ ~(k < i)
  BY <1>5 DEF SetOf
<1>7. \A i \in SetOf(pow2[k]) : i = k
  BY <1>4, <1>6 DEF Bit
<1>8. SetOf(pow2[k]) = {k}
  BY <1>4, <1>7
<1>9. WordOf({k}) = pow2[k]
  BY <1>3, <1>8, WordIsBack
<1> QED BY <1>3, <1>8, <1>9

\* The lowest bit by itself, as bitboard_split takes it.
LEMMA LowestBitAlone ==
  ASSUME NEW w \in Word, NEW k \in SetOf(w), SetOf(clear_lsb(w)) = SetOf(w) \ {k}
  PROVE  w ^^ clear_lsb(w) = pow2[k]
<1>1. (SetOf(w) \cup SetOf(clear_lsb(w))) \ (SetOf(w) \cap SetOf(clear_lsb(w))) = {k}
  OBVIOUS
<1>2. w ^^ clear_lsb(w) = WordOf({k})
  BY <1>1, Zenon DEF ^^
<1>3. k \in Bit
  BY DEF SetOf
<1> QED BY <1>2, <1>3, PowerBits

LEMMA BitsAreFinite ==
  ASSUME NEW w
  PROVE  IsFiniteSet(SetOf(w)) /\ Cardinality(SetOf(w)) \in Nat
<1>1. IsFiniteSet(Bit)
  BY WidthIsANumber, FS_Interval DEF Bit
<1>2. SetOf(w) \in SUBSET Bit
  BY DEF SetOf
<1> QED BY <1>1, <1>2, FS_Subset, FS_CardinalityType

\* Clearing the lowest bit leaves one bit less.
LEMMA OneBitLess ==
  ASSUME NEW w, NEW v, NEW k \in SetOf(w), SetOf(v) = SetOf(w) \ {k}
  PROVE  Cardinality(SetOf(w)) = Cardinality(SetOf(v)) + 1
<1>1. Cardinality(SetOf(w) \ {k}) = Cardinality(SetOf(w)) - 1
  BY BitsAreFinite, FS_RemoveElement
<1> QED BY <1>1, BitsAreFinite

\* The highest bit is where the shifted word becomes 1.
LEMMA HighestBit ==
  ASSUME NEW w \in Word, NEW n \in Bit, w \div pow2[n] # 0, w \div pow2[n + 1] = 0
  PROVE  square_idx(w) = n
<1>1. w \in Nat /\ width \in Nat
  BY WordRange, WidthIsANumber
<1>2. (w \div pow2[n]) % 2 = 1
  BY <1>1, Halving
<1>3. n \in SetOf(w)
  BY <1>2 DEF SetOf
<1>4. w < pow2[n + 1] /\ n + 1 \in 0..width /\ pow2[n + 1] \in Nat \ {0}
  <2>1. n + 1 \in 0..width
    BY <1>1 DEF Bit
  <2>2. pow2[n + 1] \in Nat \ {0}
    BY <2>1, PowersArePositive
  <2> DEFINE p == pow2[n + 1]
  <2>3. p \in Nat \ {0} /\ w \div p = 0
    BY <2>2
  <2> HIDE DEF p
  <2>4. w = p * 0 + (w % p) /\ w % p \in 0..(p - 1)
    BY <1>1, <2>3, Division
  <2>5. w < p
    BY <1>1, <2>3, <2>4
  <2> QED BY <2>1, <2>2, <2>5 DEF p
<1>5. ASSUME NEW i \in Bit, n < i PROVE i \notin SetOf(w)
  <2>1. i \in 0..width /\ (n + 1 < i \/ n + 1 = i)
    BY <1>1, <1>5 DEF Bit
  <2>2. pow2[i] \in Nat \ {0} /\ pow2[i] >= pow2[n + 1]
    BY <1>4, <2>1, PowersArePositive, PowersGrow
  <2>3. w \in 0..(pow2[i] - 1) /\ pow2[i] * 0 + w = w
    BY <1>1, <1>4, <2>2
  <2>4. (pow2[i] * 0 + w) \div pow2[i] = 0
    BY <2>2, <2>3, Quotient
  <2>5. ~((w \div pow2[i]) % 2 = 1)
    BY <2>3, <2>4
  <2> QED BY <2>5 DEF SetOf
<1>6. SetOf(w) \subseteq Int /\ \A i \in SetOf(w) : n >= i
  BY <1>1, <1>5 DEF SetOf, Bit
<1>7. Max(SetOf(w)) = n
  BY <1>3, <1>6 DEF Max
<1>8. w # 0
  BY <1>3, NoBits
<1> QED BY <1>7, <1>8 DEF square_idx

-----------------------------------------------------------------------------
(* The loops. *)

\* pop_count has counted the bits that were cleared.
CountedSoFar ==
  /\ res \in Nat
  /\ res + Cardinality(SetOf(bb)) = Cardinality(SetOf(arg))

\* square_idx has shifted res + 1 times, the last time a word that was not 0.
ShiftedSoFar ==
  /\ res \in -1..(width - 1)
  /\ bb = arg \div pow2[res + 1]
  /\ res # -1 => arg \div pow2[res] # 0

\* bitboard_split has collected the bits that were cleared, all below the others.
SplitSoFar ==
  /\ res \in Seq(Word)
  /\ SetOf(bb) \subseteq SetOf(arg)
  /\ \A i \in DOMAIN res : \E sq \in SetOf(arg) : res[i] = pow2[sq]
  /\ \A i \in DOMAIN res : \A k \in SetOf(bb) : res[i] < pow2[k]
  /\ \A i \in DOMAIN res : i > 1 => res[i - 1] < res[i]
  /\ Len(res) + Cardinality(SetOf(bb)) = Cardinality(SetOf(arg))

Inv ==
  /\ arg \in Word /\ bb \in Word
  /\ fn \in {"pop_count", "square_idx", "bitboard_split"}
  /\ fn = "pop_count" => CountedSoFar
  /\ fn = "square_idx" => ShiftedSoFar
  /\ fn = "bitboard_split" => SplitSoFar

LEMMA InitInv == Init => Inv
<1> SUFFICES ASSUME Init PROVE Inv
  OBVIOUS
<1>1. arg \in Word /\ bb = arg /\ arg \in Nat /\ width \in Nat
  BY WordRange, WidthIsANumber DEF Init
<1>2. Cardinality(SetOf(arg)) \in Nat
  BY BitsAreFinite
<1>3. CASE fn = "pop_count" /\ res = 0
  BY <1>1, <1>2, <1>3 DEF Inv, CountedSoFar
<1>4. CASE fn = "square_idx" /\ res = -1
  <2>1. arg \div pow2[res + 1] = arg
    BY <1>1, <1>4, PowersDouble
  <2>2. ShiftedSoFar
    BY <1>1, <1>4, <2>1 DEF ShiftedSoFar
  <2> QED BY <1>1, <1>4, <2>2 DEF Inv
<1>5. CASE fn = "bitboard_split" /\ res = <<>>
  <2>1. SplitSoFar
    BY <1>1, <1>2, <1>5 DEF SplitSoFar
  <2> QED BY <1>1, <1>5, <2>1 DEF Inv
<1> QED BY <1>3, <1>4, <1>5 DEF Init

LEMMA PopCountKeeps ==
  ASSUME Inv, PopCount PROVE Inv'
<1>1. PICK k \in SetOf(bb) : SetOf(clear_lsb(bb)) = SetOf(bb) \ {k}
  BY LowestBitCleared DEF Inv, PopCount
<1>2. clear_lsb(bb) \in Word
  BY LowestBitCleared DEF Inv, PopCount
<1>3. /\ fn' = "pop_count" /\ fn = "pop_count" /\ bb' = clear_lsb(bb)
      /\ res' = res + 1 /\ arg' = arg /\ arg \in Word /\ CountedSoFar
  BY DEF Inv, PopCount
<1>4. Cardinality(SetOf(bb)) = Cardinality(SetOf(bb')) + 1
  BY <1>1, <1>3, OneBitLess
<1>5. CountedSoFar'
  <2>1. SetOf(arg') = SetOf(arg)
    BY <1>3
  <2>2. Cardinality(SetOf(bb')) \in Nat
    BY BitsAreFinite
  <2>3. res + Cardinality(SetOf(bb)) = Cardinality(SetOf(arg)) /\ res \in Nat
    BY <1>3 DEF CountedSoFar
  <2>4. res' \in Nat /\ res' + Cardinality(SetOf(bb')) = Cardinality(SetOf(arg'))
    BY <1>3, <1>4, <2>1, <2>2, <2>3
  <2> QED BY <2>4 DEF CountedSoFar
<1> QED BY <1>2, <1>3, <1>5 DEF Inv

LEMMA SquareIdxKeeps ==
  ASSUME Inv, SquareIdx PROVE Inv'
<1>1. /\ fn' = "square_idx" /\ fn = "square_idx" /\ bb' = bb \div pow2[1] /\ bb # 0
      /\ res' = res + 1 /\ arg' = arg /\ arg \in Word /\ bb \in Word /\ ShiftedSoFar
  BY DEF Inv, SquareIdx, shr
<1>2. /\ arg \in Nat /\ arg < pow2[width] /\ width \in Nat \ {0}
      /\ pow2[width] \in Nat \ {0} /\ pow2[1] = 2
  <2>1. 0 \in 0..(width - 1) /\ 0 + 1 = 1
    BY WidthIsANumber
  <2>2. pow2[0 + 1] = 2 * pow2[0] /\ pow2[0] = 1
    BY <2>1, PowersDouble
  <2> QED BY <1>1, <2>1, <2>2, WordRange, WidthIsANumber, PowersArePositive
<1>3. res \in -1..(width - 1) /\ bb = arg \div pow2[res + 1]
  BY <1>1 DEF ShiftedSoFar
<1>4. res + 1 # width
  <2>1. arg \in 0..(pow2[width] - 1) /\ pow2[width] * 0 + arg = arg
    BY <1>2
  <2>2. (pow2[width] * 0 + arg) \div pow2[width] = 0
    BY <1>2, <2>1, Quotient
  <2> QED BY <1>1, <1>3, <2>1, <2>2
<1>5. res + 1 \in Bit
  BY <1>2, <1>3, <1>4 DEF Bit
<1>6. bb \div 2 = arg \div pow2[(res + 1) + 1]
  BY <1>2, <1>3, <1>5, Halving
<1>7. bb' \in Word
  <2>1. bb \in Nat /\ bb < pow2[width]
    BY <1>1, WordRange
  <2>2. bb \div 2 \in Nat /\ bb \div 2 <= bb
    BY <2>1
  <2>3. bb \div 2 < pow2[width]
    BY <1>2, <2>1, <2>2
  <2> QED BY <1>1, <1>2, <2>2, <2>3, WordRange
<1>8. ShiftedSoFar'
  <2>1. res' \in -1..(width - 1) /\ res' = res + 1
    BY <1>1, <1>2, <1>5 DEF Bit
  <2>2. bb' = arg' \div pow2[res' + 1] /\ arg' \div pow2[res'] # 0
    BY <1>1, <1>2, <1>3, <1>6
  <2> QED BY <2>1, <2>2 DEF ShiftedSoFar
<1> QED BY <1>1, <1>7, <1>8 DEF Inv

LEMMA BitboardSplitKeeps ==
  ASSUME Inv, BitboardSplit PROVE Inv'
<1>1. PICK k \in SetOf(bb) : /\ \A i \in SetOf(bb) : k <= i
                             /\ SetOf(clear_lsb(bb)) = SetOf(bb) \ {k}
  BY LowestBitCleared DEF Inv, BitboardSplit
<1>2. clear_lsb(bb) \in Word
  BY LowestBitCleared DEF Inv, BitboardSplit
<1>3. /\ fn' = "bitboard_split" /\ fn = "bitboard_split" /\ bb' = clear_lsb(bb)
      /\ res' = Append(res, bb ^^ clear_lsb(bb)) /\ arg' = arg /\ arg \in Word
      /\ bb \in Word /\ SplitSoFar
  BY DEF Inv, BitboardSplit
<1>4. bb ^^ clear_lsb(bb) = pow2[k]
  BY <1>1, <1>3, LowestBitAlone
<1>5. k \in Bit /\ SetOf(bb) \subseteq Bit
  BY <1>1 DEF SetOf
<1>6. pow2[k] \in Word
  BY <1>5, PowerBits
<1>7. res \in Seq(Word) /\ res' = Append(res, pow2[k])
  BY <1>3, <1>4 DEF SplitSoFar
<1>8. /\ Len(res') = Len(res) + 1 /\ DOMAIN res' = 1..(Len(res) + 1) /\ DOMAIN res = 1..Len(res)
      /\ Len(res) \in Nat /\ res' \in Seq(Word)
      /\ \A i \in 1..Len(res) : res'[i] = res[i]
      /\ res'[Len(res) + 1] = pow2[k]
  BY <1>6, <1>7
<1>9. SetOf(bb') = SetOf(bb) \ {k} /\ SetOf(bb) \subseteq SetOf(arg) /\ SetOf(arg') = SetOf(arg)
  BY <1>1, <1>3 DEF SplitSoFar
<1>10. \A i \in DOMAIN res' : i \in DOMAIN res \/ i = Len(res) + 1
  BY <1>8
<1>11. \A i \in DOMAIN res' : \E sq \in SetOf(arg') : res'[i] = pow2[sq]
  <2>1. \A i \in DOMAIN res : \E sq \in SetOf(arg) : res[i] = pow2[sq]
    BY <1>3 DEF SplitSoFar
  <2>2. k \in SetOf(arg)
    BY <1>9
  <2> QED BY <1>8, <1>9, <1>10, <2>1, <2>2
<1>12. \A i \in DOMAIN res : res[i] < pow2[k]
  BY <1>1, <1>3 DEF SplitSoFar
<1>13. \A i \in DOMAIN res' : \A j \in SetOf(bb') : res'[i] < pow2[j]
  <2>1. \A i \in DOMAIN res : \A j \in SetOf(bb) : res[i] < pow2[j]
    BY <1>3 DEF SplitSoFar
  <2>2. ASSUME NEW j \in SetOf(bb') PROVE pow2[k] < pow2[j]
    <3>1. j \in SetOf(bb) /\ j # k
      BY <1>9
    <3>2. k <= j /\ j \in Bit
      BY <1>1, <1>5, <3>1
    <3>3. k \in 0..width /\ j \in 0..width /\ k < j
      BY <1>5, <3>1, <3>2, WidthIsANumber DEF Bit
    <3>4. pow2[j] >= 2 * pow2[k] /\ pow2[k] \in Nat \ {0} /\ pow2[j] \in Nat
      BY <3>3, PowersGrow, PowersArePositive
    <3> QED BY <3>4
  <2> QED BY <1>8, <1>9, <1>10, <2>1, <2>2
<1>14. \A i \in DOMAIN res' : i > 1 => res'[i - 1] < res'[i]
  <2>1. \A i \in DOMAIN res : i > 1 => res[i - 1] < res[i]
    BY <1>3 DEF SplitSoFar
  <2>2. ASSUME NEW i \in DOMAIN res, i > 1 PROVE res'[i - 1] < res'[i]
    <3>1. i - 1 \in DOMAIN res
      BY <1>8, <2>2
    <3> QED BY <1>8, <2>1, <2>2, <3>1
  <2>3. ASSUME Len(res) + 1 > 1 PROVE res'[(Len(res) + 1) - 1] < res'[Len(res) + 1]
    <3>1. (Len(res) + 1) - 1 = Len(res) /\ Len(res) \in DOMAIN res
      BY <1>8, <2>3
    <3> QED BY <1>8, <1>12, <3>1
  <2> QED BY <1>10, <2>2, <2>3
<1>15. Len(res') + Cardinality(SetOf(bb')) = Cardinality(SetOf(arg'))
  <2>1. Cardinality(SetOf(bb)) = Cardinality(SetOf(bb')) + 1
    BY <1>9, OneBitLess
  <2>2. Cardinality(SetOf(bb')) \in Nat
    BY BitsAreFinite
  <2>3. Len(res) + Cardinality(SetOf(bb)) = Cardinality(SetOf(arg))
    BY <1>3 DEF SplitSoFar
  <2> QED BY <1>8, <1>9, <2>1, <2>2, <2>3
<1>16. SplitSoFar'
  BY <1>8, <1>9, <1>11, <1>13, <1>14, <1>15 DEF SplitSoFar
<1> QED BY <1>2, <1>3, <1>16 DEF Inv

\* In a run of pop_count, square_idx or bitboard_split on a word of any width the
\* loop has dealt with exactly the bits it has removed from its local.
THEOREM Invariance == Spec => []Inv
<1>1. Inv /\ [Next]_vars => Inv'
  <2> SUFFICES ASSUME Inv, [Next]_vars PROVE Inv'
    OBVIOUS
  <2>1. CASE PopCount
    BY <2>1, PopCountKeeps
  <2>2. CASE SquareIdx
    BY <2>2, SquareIdxKeeps
  <2>3. CASE BitboardSplit
    BY <2>3, BitboardSplitKeeps
  <2>4. CASE UNCHANGED vars
    BY <2>4 DEF vars, Inv, CountedSoFar, ShiftedSoFar, SplitSoFar
  <2> QED BY <2>1, <2>2, <2>3, <2>4 DEF Next
<1> QED BY <1>1, InitInv, PTL DEF Spec

LEMMA InvImpliesAgreement == Inv => LoopsAgreeWithSets
<1> SUFFICES ASSUME Inv, bb = 0 PROVE LoopsAgreeWithSets
  BY DEF LoopsAgreeWithSets
<1>1. arg \in Word /\ bb \in Word
  BY DEF Inv
<1>2. SetOf(bb) = {} /\ Cardinality(SetOf(bb)) = 0
  <2>1. SetOf(bb) = {}
    BY <1>1, NoBits
  <2> QED BY <2>1, FS_EmptySet
<1>3. fn = "pop_count" \/ fn = "square_idx" \/ fn = "bitboard_split"
  BY DEF Inv
<1>4. CASE fn = "pop_count"
  <2>1. CountedSoFar
    BY <1>4 DEF Inv
  <2>2. res = Cardinality(SetOf(arg))
    BY <1>2, <2>1 DEF CountedSoFar
  <2> QED BY <1>4, <2>2 DEF LoopsAgreeWithSets
<1>5. CASE fn = "square_idx"
  <2>1. ShiftedSoFar
    BY <1>5 DEF Inv
  <2>2. arg \in Nat /\ width \in Nat
    BY <1>1, WordRange, WidthIsANumber
  <2>3. CASE res = -1
    <3>1. arg \div pow2[0] = 0
      BY <2>1, <2>3 DEF ShiftedSoFar
    <3>2. arg = 0
      BY <2>2, <3>1, PowersDouble
    <3>3. res = square_idx(arg)
      BY <2>3, <3>2 DEF square_idx
    <3> QED BY <1>5, <3>3 DEF LoopsAgreeWithSets
  <2>4. CASE res # -1
    <3>1. res \in Bit /\ arg \div pow2[res] # 0 /\ arg \div pow2[res + 1] = 0
      BY <2>1, <2>2, <2>4 DEF ShiftedSoFar, Bit
    <3>2. square_idx(arg) = res
      BY <1>1, <3>1, HighestBit
    <3> QED BY <1>5, <3>2 DEF LoopsAgreeWithSets
  <2> QED BY <2>3, <2>4
<1>6. CASE fn = "bitboard_split"
  <2>1. SplitSoFar
    BY <1>6 DEF Inv
  <2>2. Len(res) = Cardinality(SetOf(arg))
    BY <1>2, <2>1 DEF SplitSoFar
  <2>3. /\ \A i \in DOMAIN res : \E sq \in SetOf(arg) : res[i] = pow2[sq]
        /\ \A i \in DOMAIN res : i > 1 => res[i - 1] < res[i]
    BY <2>1 DEF SplitSoFar
  <2> QED BY <1>6, <2>2, <2>3 DEF LoopsAgreeWithSets
<1> QED BY <1>3, <1>4, <1>5, <1>6

\* pop_count returns the number of one-bits of any word, square_idx the highest
\* (-1 for the empty word), bitboard_split a word for each, in ascending order.
THEOREM LoopsAreRight == Spec => []LoopsAgreeWithSets
BY Invariance, InvImpliesAgreement, PTL

-----------------------------------------------------------------------------
(* The steps. *)

\* is_square tells the words with one bit, which are the powers of two.
LEMMA SquaresArePowers ==
  ASSUME NEW w \in Word
  PROVE  /\ is_square(w) <=> Cardinality(SetOf(w)) = 1
         /\ is_square(w) => \E s \in Bit : w = pow2[s]
<1>1. CASE w = 0
  <2>1. Cardinality(SetOf(w)) = 0
    BY <1>1, NoBits, FS_EmptySet
  <2> QED BY <1>1, <2>1 DEF is_square
<1>2. CASE w # 0
  <2>1. PICK k \in SetOf(w) : SetOf(clear_lsb(w)) = SetOf(w) \ {k}
    BY <1>2, LowestBitCleared
  <2>2. clear_lsb(w) \in Word
    BY <1>2, LowestBitCleared
  <2>3. Cardinality(SetOf(w)) = Cardinality(SetOf(clear_lsb(w))) + 1
    BY <2>1, OneBitLess
  <2>4. IsFiniteSet(SetOf(clear_lsb(w))) /\ Cardinality(SetOf(clear_lsb(w))) \in Nat
    BY BitsAreFinite
  <2>5. SetOf(clear_lsb(w)) = {} <=> Cardinality(SetOf(clear_lsb(w))) = 0
    BY <2>4, FS_EmptySet
  <2>6. is_square(w) <=> Cardinality(SetOf(w)) = 1
    BY <1>2, <2>2, <2>3, <2>4, <2>5, NoBits DEF is_square
  <2>7. ASSUME is_square(w) PROVE \E s \in Bit : w = pow2[s]
    <3>1. SetOf(w) = {k} /\ k \in Bit
      <4>1. SetOf(clear_lsb(w)) = {}
        BY <2>2, <2>7, NoBits DEF is_square
      <4>2. k \in Bit
        BY DEF SetOf
      <4> QED BY <2>1, <4>1, <4>2
    <3>2. w = WordOf({k}) /\ WordOf({k}) = pow2[k]
      BY <3>1, WordIsBack, PowerBits
    <3> QED BY <3>1, <3>2
  <2> QED BY <2>6, <2>7
<1> QED BY <1>1, <1>2

Edge == 0..(board_size - 1)

\* The square on rank r, c columns from the right.
At(r, c) == pow2[board_size * r + c]

LEMMA SquareNumbers ==
  ASSUME NEW r \in Edge, NEW c \in Edge
  PROVE  board_size * r + c \in Bit
<1> DEFINE n == board_size
<1>1. n \in Nat \ {0} /\ r \in 0..(n - 1) /\ c \in 0..(n - 1)
  BY SizeAssumption DEF Edge
<1> HIDE DEF n
<1>2. \A x \in Nat, y \in Nat : y <= x - 1 => x * y \in Nat /\ x * y + x <= x * x
  <2> TAKE x \in Nat, y \in Nat
  <2> HAVE y <= x - 1
  <2>1. x - (y + 1) \in Nat /\ x * (x - (y + 1)) \in Nat
    OBVIOUS
  <2>2. x * (x - (y + 1)) = x * x - (x * y + x)
    OBVIOUS
  <2>3. x * y \in Nat /\ x * x \in Nat
    OBVIOUS
  <2> QED BY <2>1, <2>2, <2>3
<1>3. n * r \in Nat /\ n * r + n <= n * n /\ n * n \in Nat
  BY <1>1, <1>2
<1>4. n * r + c \in 0..((n * n) - 1)
  BY <1>1, <1>3
<1> QED BY <1>4 DEF n, Bit, width

LEMMA SquareHasPlace ==
  ASSUME NEW s \in Bit
  PROVE  \E r \in Edge, c \in Edge : s = board_size * r + c
<1> DEFINE n == board_size
           r == s \div n
           c == s % n
<1>1. n \in Nat \ {0} /\ s \in 0..(n * n - 1) /\ s \in Nat /\ n * n \in Nat
  BY SizeAssumption, WidthIsANumber DEF Bit, width
<1> HIDE DEF n
<1>2. r \in Nat /\ c \in 0..(n - 1) /\ s = n * r + c
  BY <1>1, Division
<1> HIDE DEF r, c
<1>3. r < n
  <2>1. SUFFICES ASSUME r >= n PROVE FALSE
    BY <1>1, <1>2
  <2>2. n * (r - n) \in Nat /\ n * (r - n) = n * r - n * n /\ n * r \in Nat
    BY <1>1, <1>2, <2>1
  <2> QED BY <1>1, <1>2, <2>2
<1>4. r \in 0..(n - 1)
  BY <1>1, <1>2, <1>3
<1> QED BY <1>2, <1>4 DEF n, Edge

\* The coordinates of a square.
LEMMA PlaceOfSquare ==
  ASSUME NEW r \in Edge, NEW c \in Edge
  PROVE  /\ At(r, c) \in Word /\ At(r, c) # 0
         /\ rank_idx(At(r, c)) = r
         /\ file_idx(At(r, c)) = board_size - 1 - c
<1> DEFINE n == board_size
           s == n * r + c
<1>1. s \in Bit /\ At(r, c) = pow2[s]
  BY SquareNumbers DEF At
<1>2. n \in Nat \ {0} /\ r \in Nat /\ c \in 0..(n - 1)
  BY SizeAssumption DEF Edge
<1>3. s \div n = r /\ s % n = c
  <2> HIDE DEF n
  <2> QED BY <1>2, Quotient
<1> HIDE DEF s
<1>4. pow2[s] \in Word /\ pow2[s] # 0 /\ SetOf(pow2[s]) = {s}
  BY <1>1, PowerBits
<1>5. Max({s}) = s
  <2>1. s \in Int
    BY <1>1, WidthIsANumber DEF Bit
  <2> QED BY <2>1 DEF Max
<1>6. square_idx(At(r, c)) = s
  BY <1>1, <1>4, <1>5 DEF square_idx
<1> QED BY <1>1, <1>3, <1>4, <1>6 DEF rank_idx, file_idx

LEMMA NeighbourOfSquare ==
  ASSUME NEW r \in Edge, NEW c \in Edge, NEW df \in -1..1, NEW dr \in -1..1
  PROVE  Neighbour(At(r, c), df, dr) =
           IF c - df \in Edge /\ r + dr \in Edge THEN At(r + dr, c - df) ELSE 0
<1> DEFINE n == board_size
           w == At(r, c)
           file == file_idx(w) + df
           rank == rank_idx(w) + dr
<1>1. n \in Nat \ {0} /\ r \in 0..(n - 1) /\ c \in 0..(n - 1)
  BY SizeAssumption DEF Edge
<1>2. rank = r + dr /\ file = (n - 1 - c) + df
  BY PlaceOfSquare
<1>3. Neighbour(w, df, dr) =
        IF file \in 0..(n - 1) /\ rank \in 0..(n - 1)
        THEN pow2[rank * n + n - file - 1] ELSE 0
  BY DEF Neighbour
<1> HIDE DEF file, rank, n, w
<1>4. file \in 0..(n - 1) <=> c - df \in 0..(n - 1)
  BY <1>1, <1>2
<1>5. rank * n + n - file - 1 = n * (r + dr) + (c - df)
  <2>1. rank * n = n * (r + dr) /\ n * (r + dr) \in Int
    BY <1>1, <1>2
  <2> QED BY <1>1, <1>2, <2>1
<1> QED BY <1>2, <1>3, <1>4, <1>5 DEF At, Edge, n, w

\* A shift to the left by a rank leaves the board from the last rank.
LEMMA NorthOfSquare ==
  ASSUME NEW r \in Edge, NEW c \in Edge
  PROVE  north_of(At(r, c)) = IF r + 1 \in Edge THEN At(r + 1, c) ELSE 0
<1> DEFINE n == board_size
           s == n * r + c
<1>1. /\ n \in Nat \ {0} /\ n \in 0..width /\ r \in 0..(n - 1) /\ c \in 0..(n - 1)
      /\ width = n * n /\ width \in Nat /\ width \in 0..width
  BY SizeAssumption, WidthIsANumber DEF Edge, width
<1>2. s \in 0..(width - 1) /\ s \in 0..width
  BY <1>1, SquareNumbers DEF Bit
<1>3. pow2[s] \in Nat /\ pow2[n] \in Nat /\ pow2[width] \in Nat \ {0}
  BY <1>1, <1>2, PowersArePositive
<1>4. north_of(At(r, c)) = (pow2[s] * pow2[n]) % pow2[width]
  BY DEF north_of, shl, At
<1>5. CASE r + 1 \in Edge
  <2> DEFINE t == n * (r + 1) + c
  <2>1. t \in Bit /\ At(r + 1, c) = pow2[t]
    BY <1>5, SquareNumbers DEF At
  <2>2. t = s + n /\ n \in 0..(width - s)
    <3>1. t = s + n
      <4> HIDE DEF n
      <4> QED BY <1>1
    <3>2. t \in 0..(width - 1)
      BY <2>1 DEF Bit
    <3> HIDE DEF t, s, n
    <3> QED BY <1>1, <1>2, <3>1, <3>2
  <2> HIDE DEF s, n, t
  <2>3. pow2[s] * pow2[n] = pow2[t]
    BY <1>2, <2>2, PowersMultiply
  <2>4. pow2[t] \in 0..(pow2[width] - 1) /\ pow2[width] * 0 + pow2[t] = pow2[t]
    <3>1. pow2[t] \in Word
      BY <2>1, PowerBits
    <3>2. pow2[t] \in Nat /\ pow2[t] < pow2[width]
      BY <3>1, WordRange
    <3> QED BY <1>3, <3>2
  <2>5. (pow2[width] * 0 + pow2[t]) % pow2[width] = pow2[t]
    BY <1>3, <2>4, Quotient
  <2> QED BY <1>4, <1>5, <2>1, <2>3, <2>4, <2>5
<1>6. CASE r + 1 \notin Edge
  <2>1. r = n - 1
    BY <1>1, <1>6 DEF Edge
  <2>2. s = (width - n) + c /\ width - n \in 0..width /\ c \in 0..(width - (width - n))
        /\ c \in 0..width /\ n \in 0..(width - (width - n)) /\ (width - n) + n = width
    <3>1. n * r = width - n
      <4> HIDE DEF n
      <4> QED BY <1>1, <2>1
    <3> HIDE DEF n
    <3> QED BY <1>1, <3>1
  <2> HIDE DEF s, n
  <2>3. pow2[s] = pow2[width - n] * pow2[c] /\ pow2[width] = pow2[width - n] * pow2[n]
    BY <2>2, PowersMultiply
  <2>4. pow2[c] \in Nat /\ pow2[width - n] \in Nat
    BY <2>2, PowersArePositive
  <2>5. pow2[s] * pow2[n] = pow2[width] * pow2[c] + 0
    <3>1. \A x \in Nat, y \in Nat, z \in Nat : (x * y) * z = (x * z) * y + 0
      OBVIOUS
    <3> QED BY <1>3, <2>3, <2>4, <3>1
  <2>6. (pow2[width] * pow2[c] + 0) % pow2[width] = 0
    <3>1. 0 \in 0..(pow2[width] - 1)
      BY <1>3
    <3> QED BY <1>3, <2>4, <3>1, Quotient
  <2> QED BY <1>4, <1>6, <2>5, <2>6
<1> QED BY <1>5, <1>6

LEMMA ShiftedPower ==
  ASSUME NEW s \in 0..width, NEW k \in 0..width
  PROVE  pow2[s] \div pow2[k] = IF k <= s THEN pow2[s - k] ELSE 0
<1>1. pow2[s] \in Nat \ {0} /\ pow2[k] \in Nat \ {0} /\ width \in Nat
  BY PowersArePositive, WidthIsANumber
<1>2. CASE k <= s
  <2>1. k \in 0..s /\ s - k \in 0..width
    BY <1>1, <1>2
  <2>2. pow2[s - k] \in Nat
    BY <2>1, PowersArePositive
  <2>3. (pow2[s] * 1) \div pow2[k] = pow2[s - k] * 1
    BY <2>1, ShiftedMultiple
  <2>4. pow2[s] * 1 = pow2[s] /\ pow2[s - k] * 1 = pow2[s - k]
    BY <1>1, <2>2
  <2> QED BY <1>2, <2>3, <2>4
<1>3. CASE ~(k <= s)
  <2>1. s < k
    BY <1>3
  <2>2. pow2[k] >= 2 * pow2[s]
    BY <2>1, PowersGrow
  <2>3. pow2[s] \in 0..(pow2[k] - 1) /\ pow2[k] * 0 + pow2[s] = pow2[s]
    BY <1>1, <2>2
  <2>4. (pow2[k] * 0 + pow2[s]) \div pow2[k] = 0
    BY <1>1, <2>3, Quotient
  <2> QED BY <1>3, <2>3, <2>4
<1> QED BY <1>2, <1>3

LEMMA SouthOfSquare ==
  ASSUME NEW r \in Edge, NEW c \in Edge
  PROVE  south_of(At(r, c)) = IF r - 1 \in Edge THEN At(r - 1, c) ELSE 0
<1> DEFINE n == board_size
           s == n * r + c
<1>1. n \in Nat \ {0} /\ n \in 0..width /\ r \in 0..(n - 1) /\ c \in 0..(n - 1) /\ width \in Nat
  BY SizeAssumption, WidthIsANumber DEF Edge
<1>2. s \in 0..width
  BY <1>1, SquareNumbers DEF Bit
<1>3. south_of(At(r, c)) = IF n <= s THEN pow2[s - n] ELSE 0
  BY <1>1, <1>2, ShiftedPower DEF south_of, shr, At
<1>4. CASE r = 0
  <2>1. ~(n <= s) /\ r - 1 \notin Edge
    BY <1>1, <1>4 DEF Edge
  <2> QED BY <1>3, <2>1
<1>5. CASE r # 0
  <2>1. r - 1 \in Edge
    BY <1>1, <1>5 DEF Edge
  <2>2. n <= s /\ s - n = n * (r - 1) + c
    <3> HIDE DEF n
    <3>1. r - 1 \in Nat /\ n * r = n * (r - 1) + n /\ n * (r - 1) \in Nat
      BY <1>1, <1>5
    <3> QED BY <1>1, <3>1
  <2> QED BY <1>3, <2>1, <2>2 DEF At
<1> QED BY <1>4, <1>5

\* At the edge the code answers 0, elsewhere the shift stays on the rank.
LEMMA EastOfSquare ==
  ASSUME NEW r \in Edge, NEW c \in Edge
  PROVE  east_of(At(r, c)) = IF c - 1 \in Edge THEN At(r, c - 1) ELSE 0
<1> DEFINE n == board_size
           s == n * r + c
<1>1. /\ n \in Nat \ {0} /\ r \in Nat /\ c \in 0..(n - 1) /\ width \in Nat
      /\ 1 \in 0..width
  BY SizeAssumption, WidthIsANumber DEF Edge
<1>2. s \in 0..width
  BY <1>1, SquareNumbers DEF Bit
<1>3. file_idx(At(r, c)) = n - 1 - c
  BY PlaceOfSquare
<1>4. CASE c = 0
  <2>1. file_idx(At(r, c)) = n - 1 /\ c - 1 \notin Edge
    BY <1>1, <1>3, <1>4 DEF Edge
  <2> QED BY <2>1 DEF east_of
<1>5. CASE c # 0
  <2>1. file_idx(At(r, c)) # n - 1 /\ c - 1 \in Edge
    BY <1>1, <1>3, <1>5 DEF Edge
  <2>2. east_of(At(r, c)) = pow2[s] \div pow2[1]
    BY <2>1 DEF east_of, shr, At
  <2>3. 1 <= s /\ s - 1 = n * r + (c - 1)
    <3>1. n * r \in Nat
      BY <1>1
    <3> QED BY <1>1, <1>5, <3>1
  <2>4. pow2[s] \div pow2[1] = pow2[s - 1]
    <3> HIDE DEF s
    <3> QED BY <1>1, <1>2, <2>3, ShiftedPower
  <2> QED BY <2>1, <2>2, <2>3, <2>4 DEF At
<1> QED BY <1>4, <1>5

LEMMA WestOfSquare ==
  ASSUME NEW r \in Edge, NEW c \in Edge
  PROVE  west_of(At(r, c)) = IF c + 1 \in Edge THEN At(r, c + 1) ELSE 0
<1> DEFINE n == board_size
           s == n * r + c
<1>1. n \in Nat \ {0} /\ r \in Nat /\ c \in 0..(n - 1) /\ width \in Nat \ {0}
  BY SizeAssumption, WidthIsANumber DEF Edge
<1>2. file_idx(At(r, c)) = n - 1 - c
  BY PlaceOfSquare
<1>3. CASE c = n - 1
  <2>1. file_idx(At(r, c)) = 0 /\ c + 1 \notin Edge
    BY <1>1, <1>2, <1>3 DEF Edge
  <2> QED BY <2>1 DEF west_of
<1>4. CASE c # n - 1
  <2>1. file_idx(At(r, c)) # 0 /\ c + 1 \in Edge
    BY <1>1, <1>2, <1>4 DEF Edge
  <2>2. west_of(At(r, c)) = (pow2[s] * pow2[1]) % pow2[width]
    BY <2>1 DEF west_of, shl, At
  <2> DEFINE t == n * r + (c + 1)
  <2>3. t \in Bit /\ At(r, c + 1) = pow2[t]
    BY <2>1, SquareNumbers DEF At
  <2>4. s \in Bit
    BY SquareNumbers
  <2>5. t = s + 1
    <3>1. n * r \in Nat
      BY <1>1
    <3> QED BY <1>1, <3>1
  <2> HIDE DEF s, t
  <2>6. s \in 0..width /\ 1 \in 0..(width - s)
    BY <1>1, <2>3, <2>4, <2>5 DEF Bit
  <2>7. pow2[s] * pow2[1] = pow2[t]
    BY <2>5, <2>6, PowersMultiply
  <2>8. pow2[width] \in Nat \ {0}
    BY <1>1, PowersArePositive
  <2>9. pow2[t] \in 0..(pow2[width] - 1) /\ pow2[width] * 0 + pow2[t] = pow2[t]
    <3>1. pow2[t] \in Word
      BY <2>3, PowerBits
    <3>2. pow2[t] \in Nat /\ pow2[t] < pow2[width]
      BY <3>1, WordRange
    <3> QED BY <2>8, <3>2
  <2>10. (pow2[width] * 0 + pow2[t]) % pow2[width] = pow2[t]
    BY <2>8, <2>9, Quotient
  <2> QED BY <2>1, <2>2, <2>3, <2>7, <2>9, <2>10
<1> QED BY <1>3, <1>4

LEMMA AllSteps ==
  ASSUME NEW w \in Word
  PROVE  /\ is_square(w) <=> (Cardinality(SetOf(w)) = 1)
         /\ is_square(w) =>
              /\ north_of(w) = Neighbour(w, 0, 1)
              /\ south_of(w) = Neighbour(w, 0, -1)
              /\ east_of(w) = Neighbour(w, 1, 0)
              /\ west_of(w) = Neighbour(w, -1, 0)
              /\ northeast_of(w) = Neighbour(w, 1, 1)
              /\ northwest_of(w) = Neighbour(w, -1, 1)
              /\ southeast_of(w) = Neighbour(w, 1, -1)
              /\ southwest_of(w) = Neighbour(w, -1, -1)
<1>1. is_square(w) <=> (Cardinality(SetOf(w)) = 1)
  BY SquaresArePowers
<1>2. SUFFICES ASSUME is_square(w)
               PROVE  /\ north_of(w) = Neighbour(w, 0, 1)
                      /\ south_of(w) = Neighbour(w, 0, -1)
                      /\ east_of(w) = Neighbour(w, 1, 0)
                      /\ west_of(w) = Neighbour(w, -1, 0)
                      /\ northeast_of(w) = Neighbour(w, 1, 1)
                      /\ northwest_of(w) = Neighbour(w, -1, 1)
                      /\ southeast_of(w) = Neighbour(w, 1, -1)
                      /\ southwest_of(w) = Neighbour(w, -1, -1)
  BY <1>1
<1>3. PICK r \in Edge, c \in Edge : w = At(r, c)
  BY <1>2, SquaresArePowers, SquareHasPlace DEF At
<1>4. \A df \in -1..1, dr \in -1..1 :
        Neighbour(w, df, dr) = IF c - df \in Edge /\ r + dr \in Edge THEN At(r + dr, c - df) ELSE 0
  BY <1>3, NeighbourOfSquare
<1>5. /\ north_of(w) = IF r + 1 \in Edge THEN At(r + 1, c) ELSE 0
      /\ south_of(w) = IF r - 1 \in Edge THEN At(r - 1, c) ELSE 0
      /\ east_of(w) = IF c - 1 \in Edge THEN At(r, c - 1) ELSE 0
      /\ west_of(w) = IF c + 1 \in Edge THEN At(r, c + 1) ELSE 0
  BY <1>3, NorthOfSquare, SouthOfSquare, EastOfSquare, WestOfSquare
<1>6. /\ c - 0 = c /\ c - 1 = c + (-1) /\ c - (-1) = c + 1 /\ r + 0 = r /\ r + (-1) = r - 1
      /\ r \in Edge /\ c \in Edge /\ -1 \in -1..1 /\ 0 \in -1..1 /\ 1 \in -1..1
  BY SizeAssumption DEF Edge
<1>7. /\ north_of(w) = Neighbour(w, 0, 1) /\ south_of(w) = Neighbour(w, 0, -1)
      /\ east_of(w) = Neighbour(w, 1, 0) /\ west_of(w) = Neighbour(w, -1, 0)
  BY <1>4, <1>5, <1>6
<1>8. \A q \in Edge : /\ At(q, c) # 0
                      /\ east_of(At(q, c)) = IF c - 1 \in Edge THEN At(q, c - 1) ELSE 0
                      /\ west_of(At(q, c)) = IF c + 1 \in Edge THEN At(q, c + 1) ELSE 0
  BY PlaceOfSquare, EastOfSquare, WestOfSquare
<1>9. /\ northeast_of(w) = Neighbour(w, 1, 1) /\ northwest_of(w) = Neighbour(w, -1, 1)
  BY <1>4, <1>5, <1>6, <1>8 DEF northeast_of, northwest_of
<1>10. /\ southeast_of(w) = Neighbour(w, 1, -1) /\ southwest_of(w) = Neighbour(w, -1, -1)
  BY <1>4, <1>5, <1>6, <1>8 DEF southeast_of, southwest_of
<1> QED BY <1>7, <1>9, <1>10

\* On a board of any size the shifts of north_of ... southwest_of lead to the
\* neighbouring square and to 0 beyond the edge: nothing wraps around.
THEOREM StepsAreRight == Spec => []StepsLeadToNeighbours
<1>1. Inv => StepsLeadToNeighbours
  BY AllSteps DEF Inv, StepsLeadToNeighbours
<1> QED BY <1>1, Invariance, PTL
===========================================================================
