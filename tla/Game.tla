-------------------------------- MODULE Game --------------------------------
(***************************************************************************)
(* Lines of play.  Everything in the engine that touches a board, perft    *)
(* and both searches, does the same two things in turn: it asks for        *)
(* legal_moves() and then performs one of the moves with do_move().  This  *)
(* module is that loop, with any of the moves performed: its reachable     *)
(* boards are the boards the engine ever works on.                         *)
(***************************************************************************)
EXTENDS Position

CONSTANTS
  Starts,   \* the boards games start from (FENs the engine is given)
  MaxPly    \* bound: no moves are generated from this ply of the game on

VARIABLES
  board,    \* the Board
  moves,    \* the result of the last board.legal_moves()
  phase     \* "generate" or "move": which of the two comes next; "aborted"
            \* once an ABSL_RAW_CHECK has failed

vars == <<board, moves, phase>>

\* The half-moves played when the full-move number is num_moves_.
ply(b) == 2 * b.num_moves_ + (IF b.side_to_move = "white" THEN 0 ELSE 1)

ASSUME StartsAssumption == \A b \in Starts : WellFormed(b)
ASSUME MaxPlyAssumption == MaxPly \in Nat

-----------------------------------------------------------------------------
Init ==
  /\ board \in Starts
  /\ moves = {}
  /\ phase = "generate"

\* board.legal_moves()
GenerateMoves ==
  /\ phase = "generate"
  /\ ply(board) < MaxPly
  /\ IF legal_moves_checks(board)
     THEN moves' = legal_moves(board) /\ phase' = "move"
     ELSE moves' = {} /\ phase' = "aborted"
  /\ UNCHANGED board

\* board.do_move(m) with a move of one of the given types.
DoMove(types) ==
  /\ phase = "move"
  /\ \E m \in moves :
       /\ m.move_type_ \in types
       /\ IF do_move_checks(board, m)
          THEN board' = do_move(board, m) /\ phase' = "generate"
          ELSE UNCHANGED board /\ phase' = "aborted"
  /\ moves' = {}

DoSimpleMove      == DoMove({"simple"})
DoTwoStepPawnMove == DoMove({"two_step_pawn"})
DoCaptureMove     == DoMove({"capture"})
DoEnPassantMove   == DoMove({"en_passant"})
DoCastleMove      == DoMove({"castle_kingside", "castle_queenside"})
DoPromotionMove   == DoMove(promotion_move_types)

Next ==
  \/ GenerateMoves
  \/ DoSimpleMove
  \/ DoTwoStepPawnMove
  \/ DoCaptureMove
  \/ DoEnPassantMove
  \/ DoCastleMove
  \/ DoPromotionMove

Spec == Init /\ [][Next]_vars

-----------------------------------------------------------------------------
(* Properties. *)

\* The types of the three variables.
TypeOK ==
  /\ board \in BoardType
  /\ moves \in SUBSET MoveSet
  /\ phase \in {"generate", "move", "aborted"}

\* Whatever is played, no square is ever in two of the twelve Bitboards.
\* move_piece and remove_piece_on stop at the first Bitboard that has the
\* square and would otherwise move or remove the wrong piece; do_capture_move
\* and do_promotion_move have to clear the destination themselves.
NoTwoPiecesOnASquare == PiecesDisjoint(board)

\* Neither king is ever captured or doubled: append_pseudolegal_king_moves
\* steps from the king's Bitboard without looking whether it is one square.
BothKingsStand == OneKingEach(board)

\* No pawn stays on the first or the eighth rank, where its next move would
\* have destination 0: simple pawn moves and pawn captures leave the last step
\* to append_pseudolegal_promotions.
NoPawnOnABackRank == PawnsOffBackRanks(board)

\* A *_has_right_to_castle_* flag is true only while that king and that rook
\* have not left their squares.  do_castle_move moves whatever is on the
\* corner; do_en_passant_move and do_two_step_pawn_move do not adjust the
\* flags at all.
RightsMeanKingAndRookAtHome == CastlingRightsSound(board)

\* en_passant_square_ is unset, or it is the empty square behind the enemy
\* pawn that has moved last.  do_en_passant_move removes what is beyond it
\* without looking, so a square left over from an earlier turn would take the
\* wrong piece or none.
EnPassantSquareIsFresh == EnPassantSound(board)

\* The side that has just moved is never in check.  legal_moves filters the
\* pseudolegal moves for this, but append_castling_moves adds to the list
\* after the filter and relies on the castle squares alone.
MoverIsNotInCheck == KingNotLeftInCheck(board)

\* No ABSL_RAW_CHECK of move generation or do_move fails.  Some of the boards
\* checked here are never kept: is_pseudolegal_move_legal generates the
\* enemy's replies also after moves that leave the king en prise.
NeverAborts == phase # "aborted"

\* The inductive invariant: all of the above, and every listed move is one
\* that legal_moves returns for the present board.
Inv ==
  /\ TypeOK
  /\ WellFormed(board)
  /\ phase = "move" => moves = legal_moves(board)
  /\ phase # "move" => moves = {}
  /\ NeverAborts

\* Every step that changes the board accounts for the men: a wrong square given
\* to remove_piece_on would take a man too many, or leave one standing.
MenLeaveOnlyByCapture == [][board' # board => MoveAccounting(board, board')]_vars

\* "The Board struct also tracks ... the number of moves until the fifty move
\* rule applies": a move that is neither a capture nor a pawn move should
\* change fifty_move_clock_.  do_move does not (its TODO says so).
FiftyMoveClockIsTracked ==
  [][ LET quiet == \A side \in Color :
                     /\ pawns(board', side) = pawns(board, side)
                     /\ Cardinality(friends(board', side)) = Cardinality(friends(board, side))
      IN  board' # board /\ quiet => board'.fifty_move_clock_ # board.fifty_move_clock_ ]_vars
=============================================================================
