------------------------------- MODULE MCGame -------------------------------
(***************************************************************************)
(* Games from a few FENs, and families of positions around one delicate    *)
(* move, with a piece standing on every possible square.                   *)
(***************************************************************************)
EXTENDS GameRules, PerftTable

\* Position 3 of perft.cc: pins, checks and en passant captures that uncover a
\* check along the rank.
Endgame == boards[3]

\* r3k2r/8/8/8/8/8/8/R3K2R w KQkq -: all castling rights, and rooks that
\* capture each other on the corners.
Rooks ==
  BoardOf(<<"r", "3", "k", "2", "r", "/", "8", "/", "8", "/", "8", "/",
            "8", "/", "8", "/", "8", "/", "R", "3", "K", "2", "R">>,
          "w", <<"K", "Q", "k", "q">>, <<"-">>, 0, 1)

\* Position 7 of perft.cc: promotions, with and without a capture.
Promotions == boards[7]

\* 4k2r/6P1/8/1pP5/8/8/8/R3K3 w Qk b6: an e.p. square from the FEN, a pawn
\* that can promote by capturing the rook black could castle with.
Mixed ==
  BoardOf(<<"4", "k", "2", "r", "/", "6", "P", "1", "/", "8", "/",
            "1", "p", "P", "5", "/", "8", "/", "8", "/", "8", "/",
            "R", "3", "K", "3">>, "w", <<"Q", "k">>, <<"b", "6">>, 0, 1)

Games == {StartBoard, Endgame, Rooks, Promotions, Mixed}
-----------------------------------------------------------------------------
\* A board from a set of <<colour, piece, square>>.
BoardWith(men, side, castling, ep) ==
  [ bb |-> [cp \in Color \X Piece |->
              {man[3] : man \in {x \in men : <<x[1], x[2]>> = cp}}],
    side_to_move |-> side, castling |-> castling, en_passant_square_ |-> ep,
    fifty_move_clock_ |-> 0, num_moves_ |-> 1 ]

\* Black may castle to both sides; one more man, of either colour and any
\* kind, stands anywhere.
CastlingMen ==
  { <<"black", "king", home_square("black", 4)>>,
    <<"black", "rook", home_square("black", 0)>>,
    <<"black", "rook", home_square("black", 7)>>,
    <<"white", "king", home_square("white", 4)>> }

CastlingFamily ==
  { b \in { BoardWith(CastlingMen \cup {<<c, p, sq>>}, "black", {"k", "q"}, {}) :
              c \in Color, p \in Piece \ {"king"}, sq \in Square }
      : WellFormed(b) }

\* White has just played d2-d4 next to the black pawn on e4; the black king
\* and a white queen stand anywhere, so that the two pawns that leave the
\* fourth rank may open any line.
EnPassantMen ==
  { <<"white", "king", home_square("white", 7)>>,
    <<"white", "pawn", coordinates_to_square(3, 3)>>,
    <<"black", "pawn", coordinates_to_square(4, 3)>> }

EnPassantFamily ==
  { b \in { BoardWith(EnPassantMen \cup { <<"black", "king", k>>, <<"white", "queen", q>> },
                      "black", {}, {coordinates_to_square(3, 2)}) :
              k \in Square, q \in Square }
      : WellFormed(b) }

\* From the families, where black is to move, MaxPly = 4 allows one half-move.
GamesAndFamilies == Games \cup CastlingFamily \cup EnPassantFamily
=============================================================================
