---------------------------- MODULE MCPerftMain ----------------------------
(***************************************************************************)
(* number_of_moves may be right, off by one, or off by 2^32.               *)
(***************************************************************************)
EXTENDS PerftMain

MCCounts(idx, d) ==
  LET n == num_nodes[idx + 1][d + 1]
  IN  {n, <<n[1], n[2], n[3] + 1>>, <<n[1] + 1, n[2], n[3]>>}
=============================================================================
