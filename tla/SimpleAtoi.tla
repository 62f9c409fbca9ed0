----------------------------- MODULE SimpleAtoi -----------------------------
(***************************************************************************)
(* absl::SimpleAtoi, which Board(fen) uses for the two counters: signed,   *)
(* base 10.  The type int is vmin..vmax; the digits are consumed in a loop *)
(* that must stop before the value leaves it.                              *)
(***************************************************************************)
EXTENDS Integers, SequencesExt

CONSTANTS
  Texts,         \* the arguments, sequences of characters
  vmin, vmax     \* std::numeric_limits<int>

ASSUME TextsAssumption == \A t \in Texts : t \in Seq(Range(t))

base == 10
ASSUME LimitsAssumption == vmin \in Int /\ vmax \in Int /\ vmin <= -base /\ base <= vmax

VARIABLES
  text,        \* the argument
  rest,        \* from `start` to `end`
  negative,
  value,       \* the local of the loop
  scaled,      \* value *= base is done, the digit is not added yet
  outcome      \* "called", "digits" in the loop, "true" or "false" when it returned

vars == <<text, rest, negative, value, scaled, outcome>>

-----------------------------------------------------------------------------
isspace(c) == c = " "

\* What is not a decimal digit has a value of 10 or more.
kAsciiToInt(c) ==
  LET decimal == <<"0", "1", "2", "3", "4", "5", "6", "7", "8", "9">>
  IN  IF Contains(decimal, c) THEN (CHOOSE i \in 1..10 : decimal[i] = c) - 1 ELSE 36

\* The text without the white space around it.
trimmed(t) ==
  LET solid == {i \in DOMAIN t : ~isspace(t[i])}
  IN  IF solid = {} THEN <<>> ELSE SubSeq(t, Min(solid), Max(solid))

\* Division rounds towards zero; vmin % base is not positive.
vmax_over_base == vmax \div base
vmin_over_base == -((-vmin) \div base)

digit == kAsciiToInt(Head(rest))

\* *value_p = v; return res;
Return(v, res) ==
  /\ value' = v
  /\ outcome' = res
  /\ UNCHANGED <<text, rest, negative, scaled>>

-----------------------------------------------------------------------------
Init ==
  /\ text \in Texts
  /\ rest = <<>>
  /\ negative = FALSE
  /\ value = 0
  /\ scaled = FALSE
  /\ outcome = "called"

safe_parse_sign_and_base ==
  /\ outcome = "called"
  /\ LET t    == trimmed(text)
         sign == t # <<>> /\ Head(t) \in {"-", "+"}
         tail == IF sign THEN Tail(t) ELSE t
     IN  /\ negative' = (t # <<>> /\ Head(t) = "-")
         /\ rest' = tail
         /\ outcome' = IF tail = <<>> THEN "false" ELSE "digits"
  /\ UNCHANGED <<text, value, scaled>>

-----------------------------------------------------------------------------
(* The loops of safe_parse_positive_int and safe_parse_negative_int, which   *)
(* adds by subtracting.                                                      *)

limit == IF negative THEN vmin ELSE vmax

\* Faulty variant: no test before the multiplication.
too_many_digits_never == FALSE

too_many_digits == IF negative THEN value < vmin_over_base ELSE value > vmax_over_base

\* Faulty variant: the negative numbers end where the positive ones do.
too_large_a_digit_symmetric ==
  IF negative THEN value < -vmax + digit ELSE value > vmax - digit

too_large_a_digit == IF negative THEN value < vmin + digit ELSE value > vmax - digit

AtDigit == outcome = "digits" /\ rest # <<>> /\ ~scaled
AtSum   == outcome = "digits" /\ scaled

NotADigit ==
  /\ AtDigit /\ digit >= base
  /\ Return(value, "false")

TooManyDigits ==
  /\ AtDigit /\ digit < base /\ too_many_digits
  /\ Return(limit, "false")

\* value *= base;
Scale ==
  /\ AtDigit /\ digit < base /\ ~too_many_digits
  /\ value' = value * base
  /\ scaled' = TRUE
  /\ UNCHANGED <<text, rest, negative, outcome>>

TooLargeADigit ==
  /\ AtSum /\ too_large_a_digit
  /\ Return(limit, "false")

\* value += digit; or value -= digit;
Add ==
  /\ AtSum /\ ~too_large_a_digit
  /\ value' = IF negative THEN value - digit ELSE value + digit
  /\ rest' = Tail(rest)
  /\ scaled' = FALSE
  /\ UNCHANGED <<text, negative, outcome>>

Finish ==
  /\ outcome = "digits" /\ rest = <<>>
  /\ Return(value, "true")

Next ==
  \/ safe_parse_sign_and_base
  \/ NotADigit
  \/ TooManyDigits
  \/ Scale
  \/ TooLargeADigit
  \/ Add
  \/ Finish

Spec == Init /\ [][Next]_vars

-----------------------------------------------------------------------------
(* Properties. *)

\* The product and the sum stay in the type, after every multiplication and
\* every addition: signed overflow would be undefined.
NeverOverflows == value \in vmin..vmax

IsNumeral(t) == t # <<>> /\ \A i \in DOMAIN t : kAsciiToInt(t[i]) < base

\* The numbers that the first digits denote, one digit after the other.
Numbers(t) ==
  LET upto[n \in 0..Len(t)] == IF n = 0 THEN 0 ELSE 10 * upto[n - 1] + kAsciiToInt(t[n])
  IN  upto

\* The number that a text denotes, if any, in unbounded arithmetic.
Denoted(t) ==
  LET solid  == trimmed(t)
      signed == solid # <<>> /\ Head(solid) \in {"-", "+"}
      num    == IF signed THEN Tail(solid) ELSE solid
      abs    == Numbers(num)[Len(num)]
  IN  IF ~IsNumeral(num) THEN {}
      ELSE {IF signed /\ Head(solid) = "-" THEN -abs ELSE abs}

\* The answer is true exactly for the numerals of the type, up to both ends of
\* it, and the value is then the number; a counter is never silently wrong.
AcceptsExactlyTheInts ==
  /\ outcome = "true" => Denoted(text) = {value}
  /\ outcome = "false" => Denoted(text) \cap (vmin..vmax) = {}
=============================================================================
