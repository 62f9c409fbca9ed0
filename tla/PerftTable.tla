----------------------------- MODULE PerftTable -----------------------------
(***************************************************************************)
(* The positions of perft.cc and the numbers it expects.                   *)
(***************************************************************************)
EXTENDS Fen

boards ==
  << StartBoard,
    \* r3k2r/p1ppqpb1/bn2pnp1/3PN3/1p2P3/2N2Q1p/PPPBBPPP/R3K2R w KQkq - 0 1
    BoardOf(<<"r", "3", "k", "2", "r", "/", "p", "1", "p", "p", "q", "p", "b", "1", "/",
              "b", "n", "2", "p", "n", "p", "1", "/", "3", "P", "N", "3", "/",
              "1", "p", "2", "P", "3", "/", "2", "N", "2", "Q", "1", "p", "/",
              "P", "P", "P", "B", "B", "P", "P", "P", "/", "R", "3", "K", "2", "R">>,
            "w", <<"K", "Q", "k", "q">>, <<"-">>, 0, 1),
    \* 8/2p5/3p4/KP5r/1R3p1k/8/4P1P1/8 w - - 0 1
    BoardOf(<<"8", "/", "2", "p", "5", "/",
              "3", "p", "4", "/", "K", "P", "5", "r", "/",
              "1", "R", "3", "p", "1", "k", "/", "8", "/",
              "4", "P", "1", "P", "1", "/", "8">>,
            "w", <<"-">>, <<"-">>, 0, 1),
    \* r3k2r/Pppp1ppp/1b3nbN/nP6/BBP1P3/q4N2/Pp1P2PP/R2Q1RK1 w kq - 0 1
    BoardOf(<<"r", "3", "k", "2", "r", "/", "P", "p", "p", "p", "1", "p", "p", "p", "/",
              "1", "b", "3", "n", "b", "N", "/", "n", "P", "6", "/",
              "B", "B", "P", "1", "P", "3", "/", "q", "4", "N", "2", "/",
              "P", "p", "1", "P", "2", "P", "P", "/", "R", "2", "Q", "1", "R", "K", "1">>,
            "w", <<"k", "q">>, <<"-">>, 0, 1),
    \* rnbq1k1r/pp1Pbppp/2p5/8/2B5/8/PPP1NnPP/RNBQK2R w KQ - 1 8
    BoardOf(<<"r", "n", "b", "q", "1", "k", "1", "r", "/", "p", "p", "1", "P", "b", "p", "p", "p", "/",
              "2", "p", "5", "/", "8", "/",
              "2", "B", "5", "/", "8", "/",
              "P", "P", "P", "1", "N", "n", "P", "P", "/", "R", "N", "B", "Q", "K", "2", "R">>,
            "w", <<"K", "Q">>, <<"-">>, 1, 8),
    \* r4rk1/1pp1qppp/p1np1n2/2b1p1B1/2B1P1b1/P1NP1N2/1PP1QPPP/R4RK1 w - - 0 10
    BoardOf(<<"r", "4", "r", "k", "1", "/", "1", "p", "p", "1", "q", "p", "p", "p", "/",
              "p", "1", "n", "p", "1", "n", "2", "/", "2", "b", "1", "p", "1", "B", "1", "/",
              "2", "B", "1", "P", "1", "b", "1", "/", "P", "1", "N", "P", "1", "N", "2", "/",
              "1", "P", "P", "1", "Q", "P", "P", "P", "/", "R", "4", "R", "K", "1">>,
            "w", <<"-">>, <<"-">>, 0, 10),
    \* n1n5/PPPk4/8/8/8/8/4Kppp/5N1N b - - 0 1
    BoardOf(<<"n", "1", "n", "5", "/", "P", "P", "P", "k", "4", "/",
              "8", "/", "8", "/",
              "8", "/", "8", "/",
              "4", "K", "p", "p", "p", "/", "5", "N", "1", "N">>,
            "b", <<"-">>, <<"-">>, 0, 1) >>

\* A 64 bit number as h * 2^32 + m * 2^16 + l, because TLC counts to 2^31 - 1.
int64(n)  == <<0, n \div 65536, n % 65536>>
minus_one == <<-1, 65535, 65535>>

num_nodes ==
  << << int64(1), int64(20), int64(400), int64(8902), int64(197281), int64(4865609),
        int64(119060324), <<0, 48765, 38820>> >>,          \* 3195901860
     << int64(1), int64(48), int64(2039), int64(97862), int64(4085603), int64(193690690),
        <<1, 57017, 14277>>, minus_one >>,         \* 8031647685
     << int64(1), int64(14), int64(191), int64(2812), int64(43238), int64(674624),
        int64(11030083), int64(178633661) >>,
     << int64(1), int64(6), int64(264), int64(9467), int64(422333), int64(15833292),
        int64(706045033), minus_one >>,
     << int64(1), int64(44), int64(1486), int64(62379), int64(2103487), int64(89941194),
        minus_one, minus_one >>,
     << int64(1), int64(46), int64(2079), int64(89890), int64(3894594), int64(164075551),
        <<1, 40101, 24705>>, <<66, 56780, 19130>> >>,   \* 6923051137, 287188994746
     << int64(1), int64(24), int64(496), int64(9483), int64(182838), int64(3605103),
        int64(71179139), minus_one >> >>
=============================================================================
