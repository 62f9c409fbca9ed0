------------------------------ MODULE MCPerft ------------------------------
(***************************************************************************)
(* number_of_moves on two kinds of games: all those with three positions   *)
(* and at most two moves in each, to depth 3, and chess from the boards of *)
(* perft.cc, to depth 2, the endgame to depth 3.                           *)
(***************************************************************************)
EXTENDS Perft, PerftTable, Evaluation

Node == 1..3
MoveLists == {<<>>} \cup {<<a>> : a \in Node} \cup {<<a, b>> : a, b \in Node}

isSmall(b)         == "game" \in DOMAIN b
MCLegalMoves(b)    == IF isSmall(b) THEN b.game[b.node] ELSE ChessLegalMoves(b)
MCDoMove(b, m)     == IF isSmall(b) THEN [b EXCEPT !.node = m] ELSE do_move(b, m)

SmallQueries == { <<[game |-> g, node |-> 1], d>> : g \in [Node -> MoveLists], d \in 0..3 }
ChessQueries ==
  {<<boards[i], d>> : i \in DOMAIN boards, d \in 0..2} \cup {<<boards[3], 3>>}
MCQueries == SmallQueries \cup ChessQueries

\* In chess, the count is the one that perft.cc expects: generating, doing and undoing
\* together reach every line once.
AgreesWithTheTable ==
  stack = <<>> =>
    \A i \in DOMAIN boards :
      query[1] = boards[i] => int64(result) = num_nodes[i][query[2] + 1]
=============================================================================
