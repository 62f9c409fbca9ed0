---------------------------- MODULE MCSimpleAtoi ----------------------------
(***************************************************************************)
(* All short texts over a few characters, for a type of 8 bits.            *)
(***************************************************************************)
EXTENDS SimpleAtoi

Characters == {"0", "1", "2", "7", "8", "9", "-", "+", " ", "x"}
MCvmin  == -128
MCTexts == UNION {[1..n -> Characters] : n \in 0..4}
=============================================================================
