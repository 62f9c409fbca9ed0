------------------------------ MODULE MCSearch ------------------------------
(***************************************************************************)
(* Small games for TLC.  A game is a graph with ordered moves, some of     *)
(* them captures, and a score at each node; a board is a node of a game    *)
(* and the side to move.  Captures lead to nodes with fewer men, as they   *)
(* do in chess (CaptureAccounting).                                        *)
(***************************************************************************)
EXTENDS SearchMinimax

Scores == {-1, 0, 1}
Lost   == 2          \* 1000: worse than any score of a node with moves

quiet(to) == [to |-> to, capture |-> FALSE]
takes(to) == [to |-> to, capture |-> TRUE]

Moves ==
  [ \* a complete binary tree of quiet moves whose leaves go on for ever
    tree |-> [n \in 1..15 |-> IF n < 8 THEN <<quiet(2 * n), quiet(2 * n + 1)>>
                                       ELSE <<quiet(n)>>],
    \* the same two levels deep, of captures, with a quiet move in between
    captures |-> [n \in 1..7 |-> IF n < 4 THEN <<takes(2 * n), quiet(n), takes(2 * n + 1)>>
                                          ELSE <<quiet(n)>>],
    \* circles of quiet moves, captures out of them, and an end of the game
    circles |-> << <<quiet(2), takes(3)>>, <<takes(4), quiet(1)>>,
                   <<takes(5), quiet(4)>>, <<quiet(3), takes(5)>>, <<>> >> ]

MCLegalMoves(b)        == Moves[b.game][b.node]
isCapture(m)           == m.capture
MCLegalCaptureMoves(b) == SelectSeq(MCLegalMoves(b), isCapture)
MCDoMove(b, m)         == [b EXCEPT !.node = m.to, !.white = ~@]
MCWhiteToMove(b)       == b.white
MCStaticEvaluation(b)  ==
  IF MCLegalMoves(b) = <<>> THEN IF b.white THEN -Lost ELSE Lost
  ELSE IF b.game = "tree" /\ b.node < 8 THEN 0
  ELSE b.score[b.node]

BoardsOf(game, scores) ==
  [game : {game}, score : scores, node : DOMAIN Moves[game], white : BOOLEAN]

MCBoards ==
  BoardsOf("tree", [8..15 -> Scores])
    \cup BoardsOf("captures", [1..7 -> Scores])
    \cup BoardsOf("circles", [1..4 -> Scores])

\* What the theorems about the search suppose holds of these games; captures run
\* out because they lead to nodes with larger numbers.
ASSUME SmallGamesAreGames ==
  /\ IsGame
  /\ ScoresInside
  /\ \A b \in Boards : \A m \in Promise!Range(LegalCaptureMoves(b)) : DoMove(b, m).node > b.node

\* All scores at the nodes where they matter; in the tree, where white and
\* black are mirror images, white begins.
GamesOf(game, scores, starting, depths) ==
  { <<[game |-> game, score |-> s, node |-> 1, white |-> w], d>> :
      s \in scores, w \in starting, d \in depths }

MCQueries ==
  GamesOf("tree", [8..15 -> Scores], {TRUE}, {3})
    \cup GamesOf("captures", [1..7 -> Scores], BOOLEAN, {0, 1})
    \cup GamesOf("circles", [1..4 -> Scores], BOOLEAN, 0..4)
=============================================================================
