----------------------------- MODULE GameRules -----------------------------
(***************************************************************************)
(* Game implements Rules.  The refinement mapping reads the twelve         *)
(* Bitboards as a mailbox.                                                 *)
(***************************************************************************)
EXTENDS Game

SquareAt(sq) == <<file_idx(sq), rank_idx(sq)>>
RightAt(r)   == <<right_side(r), file_idx(rook_home(r))>>

Mailbox(b) ==
  [s \in (0..7) \X (0..7) |->
     LET sq == coordinates_to_square(s[1], s[2])
     IN  IF sq \in all_pieces(b)
         THEN CHOOSE cp \in Color \X Piece : sq \in b.bb[cp]
         ELSE <<"none", "none">>]

Chess == INSTANCE Rules WITH
  pos    <- Mailbox(board),
  turn   <- board.side_to_move,
  rights <- {RightAt(r) : r \in board.castling},
  target <- {SquareAt(sq) : sq \in board.en_passant_square_}

PromotionOf(m) ==
  IF m.move_type_ \in promotion_move_types THEN promoted_piece(m.move_type_) ELSE "none"

RulesMove(m) == <<SquareAt(m.src_square_), SquareAt(m.dst_square_), PromotionOf(m)>>

\* Every step of the engine's do_move is a move of chess, with its effect on
\* the position, the castling rights and the e.p. square.
PlaysChess == Chess!RulesSpec

\* legal_moves() generates the legal moves of chess and nothing else, and never two
\* different records for one of them (a capture that is also listed as a simple
\* move).  The list is a set here, so equal records would not show.
GeneratesTheLegalMoves ==
  phase = "move" =>
    /\ {RulesMove(m) : m \in moves} = Chess!LegalMoves
    /\ \A m, n \in moves : RulesMove(m) = RulesMove(n) => m = n

\* "Returns a mask of all squares attacked by `side`": a square of
\* attack_squares(side) is one that some piece of that side attacks.
AttackSquaresAreAttacked ==
  \A side \in Color : \A sq \in attack_squares(board, side) :
    Chess!Attacked(Mailbox(board), side, SquareAt(sq))
=============================================================================
