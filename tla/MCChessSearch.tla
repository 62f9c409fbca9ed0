--------------------------- MODULE MCChessSearch ---------------------------
(***************************************************************************)
(* Endgames for TLC.                                                       *)
(***************************************************************************)
EXTENDS ChessSearch, PerftTable

\* 7k/8/6K1/8/8/8/8/4R3 w: mate in one.
MateInOne ==
  BoardOf(<<"7", "k", "/", "8", "/", "6", "K", "1", "/", "8", "/", "8", "/",
            "8", "/", "8", "/", "4", "R", "3">>, "w", <<"-">>, <<"-">>, 0, 1)

\* 4k3/8/3p4/2n1p3/3P1N2/8/8/4K3 w: captures and recaptures in the centre.
Exchange ==
  BoardOf(<<"4", "k", "3", "/", "8", "/", "3", "p", "4", "/", "2", "n", "1", "p", "3", "/",
            "3", "P", "1", "N", "2", "/", "8", "/", "8", "/", "4", "K", "3">>,
          "w", <<"-">>, <<"-">>, 0, 1)

\* 1n2k3/P7/8/8/8/8/6pP/4K2R b K: promotions, with and without a capture.
Race ==
  BoardOf(<<"1", "n", "2", "k", "3", "/", "P", "7", "/", "8", "/", "8", "/", "8", "/",
            "8", "/", "6", "p", "P", "/", "4", "K", "2", "R">>, "b", <<"K">>, <<"-">>, 0, 1)

\* Position 3 of perft.cc.
Endgame == boards[3]

MCQueries ==
  {<<MateInOne, 2>>, <<Exchange, 0>>, <<Exchange, 2>>, <<Race, 1>>, <<Endgame, 1>>}
=============================================================================
