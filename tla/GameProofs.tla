----------------------------- MODULE GameProofs -----------------------------
(***************************************************************************)
(* Every board of a game is well formed, no ABSL_RAW_CHECK fails and men   *)
(* leave only by capture, for every set of well-formed start positions and *)
(* every number of moves.                                                  *)
(*                                                                         *)
(* Then, Game implements Rules: the bitboards, shifts and masks of move    *)
(* generation and do_move give the moves of chess and their effects, on    *)
(* every well-formed board.                                                *)
(***************************************************************************)
EXTENDS GameRules, PositionProofs

-----------------------------------------------------------------------------
(* Games. *)

\* Inv is an inductive invariant.
LEMMA InvInit == Init => Inv
BY StartsAssumption DEF Init, Inv, TypeOK, WellFormed, NeverAborts

\* Every do_move of a listed move preserves it.
LEMMA InvDoMove ==
  ASSUME Inv, NEW types, DoMove(types)
  PROVE  Inv'
<1>1. phase = "move" /\ WellFormed(board) /\ moves = legal_moves(board)
  BY DEF DoMove, Inv
<1>2. PICK m \in legal_moves(board) :
        IF do_move_checks(board, m)
        THEN board' = do_move(board, m) /\ phase' = "generate"
        ELSE UNCHANGED board /\ phase' = "aborted"
  BY <1>1 DEF DoMove
<1>3. board' = do_move(board, m) /\ phase' = "generate" /\ moves' = {}
  BY <1>1, <1>2, ChecksHold DEF DoMove
<1>4. WellFormed(do_move(board, m))
  BY <1>1, LegalKeepsWellFormed
<1>5. WellFormed(board)'
  BY <1>3, <1>4
<1> QED BY <1>3, <1>5 DEF Inv, TypeOK, NeverAborts, WellFormed

\* And so does every other step.
LEMMA InvStep == Inv /\ [Next]_vars => Inv'
<1> SUFFICES ASSUME Inv, [Next]_vars PROVE Inv'
  OBVIOUS
<1>1. CASE GenerateMoves
  <2>1. WellFormed(board)
    BY DEF Inv
  <2>2. moves' = legal_moves(board) /\ phase' = "move" /\ board' = board
    BY <1>1, <2>1, ChecksHold DEF GenerateMoves
  <2>3. moves' \subseteq MoveSet
    BY <2>1, <2>2, LegalMovesType
  <2>4. WellFormed(board)' /\ legal_moves(board)' = legal_moves(board)
    BY <2>1, <2>2
  <2> QED BY <2>2, <2>3, <2>4 DEF Inv, TypeOK, NeverAborts, WellFormed
<1>2. CASE \E types : DoMove(types)
  BY <1>2, InvDoMove
<1>3. CASE UNCHANGED vars
  BY <1>3 DEF vars, Inv, TypeOK, NeverAborts
<1> QED BY <1>1, <1>2, <1>3 DEF Next, DoSimpleMove, DoTwoStepPawnMove, DoCaptureMove,
                               DoEnPassantMove, DoCastleMove, DoPromotionMove

\* In every game Inv holds: the board legal_moves and do_move work on is well
\* formed and every listed move is legal on the present board.
THEOREM Invariance == Spec => []Inv
BY InvInit, InvStep, PTL DEF Spec

\* The variables keep their types: do_move leaves no bit outside the board.
THEOREM Types == Spec => []TypeOK
BY Invariance, PTL DEF Inv

\* No two of the twelve Bitboards ever share a square, so that the first one
\* move_piece or remove_piece_on finds is the only one.
THEOREM PiecesNeverOverlap == Spec => []NoTwoPiecesOnASquare
<1>1. Inv => NoTwoPiecesOnASquare
  BY DEF Inv, WellFormed, NoTwoPiecesOnASquare
<1> QED BY <1>1, Invariance, PTL

\* No king is captured, none is added by a promotion.
THEOREM KingsStand == Spec => []BothKingsStand
<1>1. Inv => BothKingsStand
  BY DEF Inv, WellFormed, BothKingsStand
<1> QED BY <1>1, Invariance, PTL

\* Pawns always have a square ahead of them.
THEOREM PawnsCanStep == Spec => []NoPawnOnABackRank
<1>1. Inv => NoPawnOnABackRank
  BY DEF Inv, WellFormed, NoPawnOnABackRank
<1> QED BY <1>1, Invariance, PTL

\* A castling flag that is set has its king and its rook at home.
THEOREM RightsAreSound == Spec => []RightsMeanKingAndRookAtHome
<1>1. Inv => RightsMeanKingAndRookAtHome
  BY DEF Inv, WellFormed, RightsMeanKingAndRookAtHome
<1> QED BY <1>1, Invariance, PTL

\* do_en_passant_move always finds the pawn that has just jumped.
THEOREM EnPassantIsFresh == Spec => []EnPassantSquareIsFresh
<1>1. Inv => EnPassantSquareIsFresh
  BY DEF Inv, WellFormed, EnPassantSquareIsFresh
<1> QED BY <1>1, Invariance, PTL

\* Neither a filtered move nor the unfiltered castling moves leave the mover's
\* king in check.
THEOREM MoverIsSafe == Spec => []MoverIsNotInCheck
<1>1. Inv => MoverIsNotInCheck
  BY DEF Inv, WellFormed, MoverIsNotInCheck
<1> QED BY <1>1, Invariance, PTL

\* No ABSL_RAW_CHECK of legal_moves or do_move ever fails.
THEOREM ChecksNeverFail == Spec => []NeverAborts
BY Invariance, PTL DEF Inv

\* Only do_move changes the board, and only by a move of the list.
LEMMA BoardChanges ==
  ASSUME Inv, [Next]_vars, board' # board
  PROVE  \E m \in legal_moves(board) : board' = do_move(board, m)
<1>1. ASSUME NEW types, DoMove(types)
      PROVE  \E m \in legal_moves(board) : board' = do_move(board, m)
  BY <1>1 DEF DoMove, Inv
<1> QED BY <1>1 DEF Next, vars, GenerateMoves, DoSimpleMove, DoTwoStepPawnMove, DoCaptureMove,
                     DoEnPassantMove, DoCastleMove, DoPromotionMove

\* In every game the mover's men keep their number, and the other side loses at
\* most one man, from the square the mover arrives on or, en passant, the pawn
\* beyond it (remove_piece_on and the do_*_move functions).
THEOREM CaptureAccounting == Spec => MenLeaveOnlyByCapture
<1>1. Inv /\ [Next]_vars => [board' # board => MoveAccounting(board, board')]_vars
  <2> SUFFICES ASSUME Inv, [Next]_vars, board' # board
               PROVE  MoveAccounting(board, board')
    OBVIOUS
  <2>1. PICK m \in legal_moves(board) : board' = do_move(board, m)
    BY BoardChanges
  <2>2. WellFormed(board)
    BY DEF Inv
  <2> QED BY <2>1, <2>2, LegalAccounting
<1> QED BY <1>1, Invariance, PTL DEF Spec, MenLeaveOnlyByCapture

-----------------------------------------------------------------------------
(* The mailbox. *)

\* The squares of the two descriptions correspond.
LEMMA SquaresCorrespond ==
  /\ \A sq \in Square : SquareAt(sq) \in Chess!Squares
  /\ \A s \in Chess!Squares : \E sq \in Square : s = SquareAt(sq)
  /\ \A sq, sq2 \in Square : SquareAt(sq) = SquareAt(sq2) => sq = sq2
  /\ \A file, rank \in 0..7 :
       /\ coordinates_to_square(file, rank) \in Square
       /\ SquareAt(coordinates_to_square(file, rank)) = <<file, rank>>
  /\ \A sq \in Square : /\ SquareAt(sq) = <<file_idx(sq), rank_idx(sq)>>
                        /\ SquareAt(sq)[1] = file_idx(sq) /\ SquareAt(sq)[2] = rank_idx(sq)
<1>1. /\ \A sq \in Square : /\ file_idx(sq) \in 0..7 /\ rank_idx(sq) \in 0..7
                            /\ coordinates_to_square(file_idx(sq), rank_idx(sq)) = sq
      /\ \A file, rank \in 0..7 :
           /\ coordinates_to_square(file, rank) \in Square
           /\ file_idx(coordinates_to_square(file, rank)) = file
           /\ rank_idx(coordinates_to_square(file, rank)) = rank
  BY Coordinates
<1>2. \A sq \in Square : SquareAt(sq) \in Chess!Squares
  BY <1>1 DEF SquareAt, Chess!Squares
<1>3. \A file, rank \in 0..7 : SquareAt(coordinates_to_square(file, rank)) = <<file, rank>>
  BY <1>1 DEF SquareAt
<1>4. ASSUME NEW s \in Chess!Squares PROVE \E sq \in Square : s = SquareAt(sq)
  <2>1. s[1] \in 0..7 /\ s[2] \in 0..7 /\ s = <<s[1], s[2]>>
    BY DEF Chess!Squares
  <2> QED BY <1>1, <1>3, <2>1
<1>5. ASSUME NEW sq \in Square, NEW sq2 \in Square, SquareAt(sq) = SquareAt(sq2) PROVE sq = sq2
  <2>1. file_idx(sq) = file_idx(sq2) /\ rank_idx(sq) = rank_idx(sq2)
    BY <1>5 DEF SquareAt
  <2> QED BY <1>1, <2>1
<1>6. \A sq \in Square : /\ SquareAt(sq) = <<file_idx(sq), rank_idx(sq)>>
                         /\ SquareAt(sq)[1] = file_idx(sq) /\ SquareAt(sq)[2] = rank_idx(sq)
  BY DEF SquareAt
<1> QED BY <1>1, <1>2, <1>3, <1>4, <1>5, <1>6

\* The position p has on its squares what the Bitboards bb have.
Depicts(p, bb) ==
  /\ DOMAIN p = Chess!Squares
  /\ \A sq \in Square :
       /\ \A cp \in Color \X Piece : sq \in bb[cp] => p[SquareAt(sq)] = cp
       /\ ~occupied(bb, sq) => p[SquareAt(sq)] = Chess!Empty

\* The mailbox of a board does.
LEMMA MailboxDepicts ==
  ASSUME NEW b \in BoardType, PiecesDisjoint(b)
  PROVE  /\ Depicts(Mailbox(b), b.bb)
         /\ Mailbox(b) = [s \in Chess!Squares |-> Mailbox(b)[s]]
<1> DEFINE On(sq) == IF sq \in all_pieces(b)
                     THEN CHOOSE cp \in Color \X Piece : sq \in b.bb[cp]
                     ELSE <<"none", "none">>
<1>1. Mailbox(b) = [s \in Chess!Squares |-> On(coordinates_to_square(s[1], s[2]))]
  BY DEF Mailbox, Chess!Squares
<1>2. ASSUME NEW sq \in Square PROVE Mailbox(b)[SquareAt(sq)] = On(sq)
  <2>1. SquareAt(sq) \in Chess!Squares
        /\ coordinates_to_square(SquareAt(sq)[1], SquareAt(sq)[2]) = sq
    BY SquaresCorrespond, Coordinates
  <2> HIDE DEF On
  <2> QED BY <1>1, <2>1
<1>3. ASSUME NEW sq \in Square, NEW cp \in Color \X Piece, sq \in b.bb[cp]
      PROVE  On(sq) = cp
  <2>1. \A x \in Color \X Piece : sq \in b.bb[x] => x = cp
    BY <1>3 DEF PiecesDisjoint, Disjoint
  <2>2. sq \in all_pieces(b)
    BY <1>3, AllPieces DEF occupied
  <2> QED BY <1>3, <2>1, <2>2
<1>4. ASSUME NEW sq \in Square, ~occupied(b.bb, sq)
      PROVE  On(sq) = Chess!Empty
  BY <1>4, AllPieces DEF Chess!Empty
<1> HIDE DEF On
<1>5. DOMAIN Mailbox(b) = Chess!Squares /\ Mailbox(b) = [s \in Chess!Squares |-> Mailbox(b)[s]]
  BY <1>1
<1> QED BY <1>2, <1>3, <1>4, <1>5 DEF Depicts


\* What can be read off a square of the position.
LEMMA Depicted ==
  ASSUME NEW b, NEW p, Depicts(p, b.bb), NEW sq \in Square
  PROVE  /\ p[SquareAt(sq)] \in (Color \X Piece) \cup {Chess!Empty}
         /\ p[SquareAt(sq)] = Chess!Empty <=> sq \notin all_pieces(b)
         /\ \A c \in Color : p[SquareAt(sq)][1] = c <=> sq \in friends(b, c)
         /\ \A c \in Color, k \in Piece : p[SquareAt(sq)] = <<c, k>> <=> sq \in pieces(b, c, k)
         /\ \A c \in Color, k \in Piece :
              sq \in pieces(b, c, k) => p[SquareAt(sq)][1] = c /\ p[SquareAt(sq)][2] = k
<1>1. /\ \A cp \in Color \X Piece : sq \in b.bb[cp] => p[SquareAt(sq)] = cp
      /\ ~occupied(b.bb, sq) => p[SquareAt(sq)] = Chess!Empty
  BY DEF Depicts
<1>2. sq \in all_pieces(b) <=> occupied(b.bb, sq)
  BY AllPieces
<1>3. \A c \in Color : sq \in friends(b, c) <=> \E k \in Piece : sq \in b.bb[<<c, k>>]
  BY Friends
<1> DEFINE x == p[SquareAt(sq)]
<1>4. CASE occupied(b.bb, sq)
  <2>1. PICK cp \in Color \X Piece : sq \in b.bb[cp]
    BY <1>4 DEF occupied
  <2>2. x = cp /\ cp = <<cp[1], cp[2]>> /\ cp[1] \in Color /\ cp[2] \in Piece
    BY <1>1, <2>1
  <2>3. x # Chess!Empty
    BY <2>2 DEF Chess!Empty, Color
  <2>4. \A c \in Color, k \in Piece : sq \in b.bb[<<c, k>>] => <<c, k>> = cp
    <3>1. \A c \in Color, k \in Piece : <<c, k>> \in Color \X Piece
      OBVIOUS
    <3> QED BY <1>1, <2>2, <3>1
  <2>5. ASSUME NEW c \in Color PROVE x[1] = c <=> sq \in friends(b, c)
    <3>1. cp[1] = c => sq \in b.bb[<<c, cp[2]>>]
      BY <2>1, <2>2
    <3>2. \A k \in Piece : sq \in b.bb[<<c, k>>] => cp[1] = c
      BY <2>2, <2>4
    <3> QED BY <1>3, <2>2, <3>1, <3>2
  <2>6. \A c \in Color, k \in Piece : x = <<c, k>> <=> sq \in b.bb[<<c, k>>]
    BY <2>1, <2>2, <2>4
  <2>7. \A c \in Color, k \in Piece : sq \in b.bb[<<c, k>>] => x[1] = c /\ x[2] = k
    BY <2>6
  <2> HIDE DEF x
  <2>8. x \in (Color \X Piece) \cup {Chess!Empty}
    BY <2>2
  <2> QED BY <1>2, <1>4, <2>3, <2>5, <2>6, <2>7, <2>8 DEF x, pieces
<1>5. CASE ~occupied(b.bb, sq)
  <2>1. x = Chess!Empty
    BY <1>1, <1>5
  <2>2. \A c \in Color, k \in Piece : sq \notin b.bb[<<c, k>>]
    BY <1>5 DEF occupied
  <2>3. \A c \in Color : x[1] # c
    BY <2>1 DEF Chess!Empty, Color
  <2>4. \A c \in Color, k \in Piece : x # <<c, k>>
    BY <2>1 DEF Chess!Empty, Color
  <2> HIDE DEF x
  <2> QED BY <1>2, <1>3, <1>5, <2>1, <2>2, <2>3, <2>4 DEF x, pieces
<1> QED BY <1>4, <1>5

-----------------------------------------------------------------------------
(* Lines: the walks of the sliding loop against the geometry of two squares. *)

\* The steps of a direction, and which directions are whose.
LEMMA DirectionSteps ==
  /\ \A dir \in all_directions : /\ file_step(dir) \in {-1, 0, 1}
                                 /\ rank_step(dir) \in {-1, 0, 1}
  /\ \A dir \in rook_move_directions : (file_step(dir) = 0) # (rank_step(dir) = 0)
  /\ \A dir \in bishop_move_directions : file_step(dir) # 0 /\ rank_step(dir) # 0
  /\ \A df, dr \in {-1, 0, 1} :
       /\ (df = 0) # (dr = 0)
            => \E dir \in rook_move_directions : file_step(dir) = df /\ rank_step(dir) = dr
       /\ df # 0 /\ dr # 0
            => \E dir \in bishop_move_directions : file_step(dir) = df /\ rank_step(dir) = dr
<1> USE DEF all_directions, rook_move_directions, bishop_move_directions, file_step, rank_step
<1>1. \A dir \in all_directions : /\ file_step(dir) \in {-1, 0, 1}
                                  /\ rank_step(dir) \in {-1, 0, 1}
  OBVIOUS
<1>2. \A dir \in rook_move_directions : (file_step(dir) = 0) # (rank_step(dir) = 0)
  OBVIOUS
<1>3. \A dir \in bishop_move_directions : file_step(dir) # 0 /\ rank_step(dir) # 0
  OBVIOUS
<1>4. ASSUME NEW df \in {-1, 0, 1}, NEW dr \in {-1, 0, 1}, (df = 0) # (dr = 0)
      PROVE  \E dir \in rook_move_directions : file_step(dir) = df /\ rank_step(dir) = dr
  <2>1. CASE df = 0 /\ dr = 1  BY <2>1
  <2>2. CASE df = 0 /\ dr = -1 BY <2>2
  <2>3. CASE df = 1 /\ dr = 0  BY <2>3
  <2>4. CASE df = -1 /\ dr = 0 BY <2>4
  <2> QED BY <1>4, <2>1, <2>2, <2>3, <2>4
<1>5. ASSUME NEW df \in {-1, 0, 1}, NEW dr \in {-1, 0, 1}, df # 0 /\ dr # 0
      PROVE  \E dir \in bishop_move_directions : file_step(dir) = df /\ rank_step(dir) = dr
  <2>1. CASE df = 1 /\ dr = 1   BY <2>1
  <2>2. CASE df = 1 /\ dr = -1  BY <2>2
  <2>3. CASE df = -1 /\ dr = 1  BY <2>3
  <2>4. CASE df = -1 /\ dr = -1 BY <2>4
  <2> QED BY <1>5, <2>1, <2>2, <2>3, <2>4
<1> QED BY <1>1, <1>2, <1>3, <1>4, <1>5

\* The square t is n steps of dir away from sq.
Away(dir, sq, n, t) ==
  /\ file_idx(t) = file_idx(sq) + n * file_step(dir)
  /\ rank_idx(t) = rank_idx(sq) + n * rank_step(dir)

LEMMA WalkEndsAway ==
  ASSUME NEW dir \in all_directions, NEW sq \in Square, NEW n \in Nat, NEW t
  PROVE  t \in walk(dir, sq, n) <=> t \in Square /\ Away(dir, sq, n, t)
<1> DEFINE file == file_idx(sq) + n * file_step(dir)
           rank == rank_idx(sq) + n * rank_step(dir)
<1>1. walk(dir, sq, n) = IF file \in 0..7 /\ rank \in 0..7
                         THEN {coordinates_to_square(file, rank)} ELSE {}
  BY DEF walk
<1>2. Away(dir, sq, n, t) <=> file_idx(t) = file /\ rank_idx(t) = rank
  BY DEF Away
<1> HIDE DEF file, rank
<1> QED BY <1>1, <1>2, Coordinates

\* Walking n steps is what the geometry calls a line of that distance.
LEMMA AwayGeometry ==
  ASSUME NEW dir \in all_directions, NEW sq \in Square, NEW t \in Square, NEW n \in 1..7,
         Away(dir, sq, n, t)
  PROVE  /\ Chess!Sign(file_idx(t) - file_idx(sq)) = file_step(dir)
         /\ Chess!Sign(rank_idx(t) - rank_idx(sq)) = rank_step(dir)
         /\ (IF file_step(dir) # 0 THEN Chess!Abs(file_idx(t) - file_idx(sq))
                                   ELSE Chess!Abs(rank_idx(t) - rank_idx(sq))) = n
<1>1. file_step(dir) \in {-1, 0, 1} /\ rank_step(dir) \in {-1, 0, 1}
      /\ (file_step(dir) # 0 \/ rank_step(dir) # 0)
  BY DirectionSteps DEF all_directions
<1> DEFINE df == file_step(dir)
           dr == rank_step(dir)
           f == file_idx(sq)
           r == rank_idx(sq)
<1>2. f \in 0..7 /\ r \in 0..7
  BY Coordinates
<1>3. file_idx(t) - file_idx(sq) = n * df /\ rank_idx(t) - rank_idx(sq) = n * dr
  <2>1. file_idx(t) = f + n * df /\ rank_idx(t) = r + n * dr
    BY DEF Away
  <2> QED BY <1>1, <1>2, <2>1
<1> HIDE DEF df, dr
<1>4. ASSUME NEW d \in {-1, 0, 1}
      PROVE  /\ Chess!Sign(n * d) = d
             /\ d # 0 => Chess!Abs(n * d) = n
  <2>1. CASE d = 0  BY <2>1 DEF Chess!Sign, Chess!Abs
  <2>2. CASE d = 1  BY <2>2 DEF Chess!Sign, Chess!Abs
  <2>3. CASE d = -1 BY <2>3 DEF Chess!Sign, Chess!Abs
  <2> QED BY <2>1, <2>2, <2>3
<1>5. df \in {-1, 0, 1} /\ dr \in {-1, 0, 1} /\ (df # 0 \/ dr # 0)
  BY <1>1 DEF df, dr
<1> QED BY <1>3, <1>4, <1>5 DEF df, dr


\* The loop meets no piece before t exactly when the line to t is open.
LEMMA OpenIsClear ==
  ASSUME NEW b, NEW p, Depicts(p, b.bb), NEW dir \in all_directions,
         NEW sq \in Square, NEW t \in Square, NEW n \in 1..7, Away(dir, sq, n, t)
  PROVE  Chess!Open(p, SquareAt(sq), SquareAt(t))
           <=> \A i \in 1..(n - 1) : walk(dir, sq, i) \cap all_pieces(b) = {}
<1> DEFINE df == file_step(dir)
           dr == rank_step(dir)
           f == file_idx(sq)
           r == rank_idx(sq)
<1>1. df \in {-1, 0, 1} /\ dr \in {-1, 0, 1}
  BY DirectionSteps
<1>2. f \in 0..7 /\ r \in 0..7 /\ file_idx(t) \in 0..7 /\ rank_idx(t) \in 0..7
  BY Coordinates
<1>3. file_idx(t) = f + n * df /\ rank_idx(t) = r + n * dr
  BY DEF Away
<1>4. Chess!Open(p, SquareAt(sq), SquareAt(t))
        <=> \A k \in 1..(n - 1) : p[<<f + k * df, r + k * dr>>] = Chess!Empty
  <2>1. /\ SquareAt(sq)[1] = f /\ SquareAt(sq)[2] = r
        /\ SquareAt(t)[1] = file_idx(t) /\ SquareAt(t)[2] = rank_idx(t)
    BY SquaresCorrespond
  <2>2. /\ Chess!Sign(file_idx(t) - f) = df
        /\ Chess!Sign(rank_idx(t) - r) = dr
        /\ (IF df # 0 THEN Chess!Abs(file_idx(t) - f) ELSE Chess!Abs(rank_idx(t) - r)) = n
    BY AwayGeometry
  <2> HIDE DEF df, dr, f, r
  <2> QED BY <2>1, <2>2 DEF Chess!Open
<1>5. ASSUME NEW k \in 1..(n - 1)
      PROVE  p[<<f + k * df, r + k * dr>>] = Chess!Empty
               <=> walk(dir, sq, k) \cap all_pieces(b) = {}
  <2> DEFINE g == f + k * df
             q == r + k * dr
             w == coordinates_to_square(g, q)
  <2>1. g \in 0..7
    <3> HIDE DEF f, r, df, dr
    <3>1. CASE df = 0  BY <1>2, <3>1
    <3>2. CASE df = 1  BY <1>2, <1>3, <3>2
    <3>3. CASE df = -1 BY <1>2, <1>3, <3>3
    <3> QED BY <1>1, <3>1, <3>2, <3>3
  <2>2. q \in 0..7
    <3> HIDE DEF f, r, df, dr
    <3>1. CASE dr = 0  BY <1>2, <3>1
    <3>2. CASE dr = 1  BY <1>2, <1>3, <3>2
    <3>3. CASE dr = -1 BY <1>2, <1>3, <3>3
    <3> QED BY <1>1, <3>1, <3>2, <3>3
  <2>3. walk(dir, sq, k) = {w}
    BY <2>1, <2>2 DEF walk
  <2> HIDE DEF g, q
  <2>4. w \in Square /\ SquareAt(w) = <<g, q>>
    BY <2>1, <2>2, SquaresCorrespond
  <2>5. p[<<g, q>>] = Chess!Empty <=> w \notin all_pieces(b)
    BY <2>4, Depicted
  <2>6. p[<<g, q>>] = Chess!Empty <=> walk(dir, sq, k) \cap all_pieces(b) = {}
    BY <2>3, <2>5
  <2> QED BY <2>6 DEF g, q
<1> HIDE DEF df, dr, f, r
<1> QED BY <1>4, <1>5

\* Two squares of one file or rank are a walk apart.
LEMMA FilesAndRanks ==
  ASSUME NEW sq \in Square, NEW t \in Square
  PROVE  (\E dir \in rook_move_directions, n \in 1..7 : Away(dir, sq, n, t))
           <=> Chess!OnFileOrRank(SquareAt(sq), SquareAt(t))
<1> DEFINE f == file_idx(sq)
           r == rank_idx(sq)
           g == file_idx(t)
           q == rank_idx(t)
<1>1. f \in 0..7 /\ r \in 0..7 /\ g \in 0..7 /\ q \in 0..7
  BY Coordinates
<1>2. Chess!OnFileOrRank(SquareAt(sq), SquareAt(t)) <=> (f = g) # (r = q)
  BY SquaresCorrespond DEF Chess!OnFileOrRank
<1>3. ASSUME NEW dir \in rook_move_directions, NEW n \in 1..7, Away(dir, sq, n, t)
      PROVE  (f = g) # (r = q)
  <2> DEFINE df == file_step(dir)
             dr == rank_step(dir)
  <2>1. df \in {-1, 0, 1} /\ dr \in {-1, 0, 1} /\ (df = 0) # (dr = 0)
    BY DirectionSteps DEF all_directions
  <2>2. g = f + n * df /\ q = r + n * dr
    BY <1>3 DEF Away
  <2> HIDE DEF f, r, g, q, df, dr
  <2> QED BY <1>1, <2>1, <2>2
<1>4. ASSUME (f = g) # (r = q)
      PROVE  \E dir \in rook_move_directions, n \in 1..7 : Away(dir, sq, n, t)
  <2>1. \E df, dr \in {-1, 0, 1}, n \in 1..7 :
          (df = 0) # (dr = 0) /\ g = f + n * df /\ q = r + n * dr
    <3> HIDE DEF f, r, g, q
    <3>1. CASE f = g /\ q > r
      <4>1. q - r \in 1..7 /\ g = f + (q - r) * 0 /\ q = r + (q - r) * 1
        BY <1>1, <3>1
      <4> QED BY <4>1
    <3>2. CASE f = g /\ q < r
      <4>1. r - q \in 1..7 /\ g = f + (r - q) * 0 /\ q = r + (r - q) * (-1)
        BY <1>1, <3>2
      <4> QED BY <4>1
    <3>3. CASE r = q /\ g > f
      <4>1. g - f \in 1..7 /\ q = r + (g - f) * 0 /\ g = f + (g - f) * 1
        BY <1>1, <3>3
      <4> QED BY <4>1
    <3>4. CASE r = q /\ g < f
      <4>1. f - g \in 1..7 /\ q = r + (f - g) * 0 /\ g = f + (f - g) * (-1)
        BY <1>1, <3>4
      <4>2. \E n \in 1..7 : (-1 = 0) # (0 = 0) /\ g = f + n * (-1) /\ q = r + n * 0
        BY <4>1
      <4> QED BY <4>2
    <3> QED BY <1>1, <1>4, <3>1, <3>2, <3>3, <3>4
  <2>2. PICK df \in {-1, 0, 1}, dr \in {-1, 0, 1}, n \in 1..7 :
          (df = 0) # (dr = 0) /\ g = f + n * df /\ q = r + n * dr
    BY <2>1
  <2>3. PICK dir \in rook_move_directions : file_step(dir) = df /\ rank_step(dir) = dr
    BY <2>2, DirectionSteps
  <2> QED BY <2>2, <2>3 DEF Away
<1> QED BY <1>2, <1>3, <1>4

\* And so are two squares of one diagonal.
LEMMA DiagonalLines ==
  ASSUME NEW sq \in Square, NEW t \in Square
  PROVE  (\E dir \in bishop_move_directions, n \in 1..7 : Away(dir, sq, n, t))
           <=> Chess!OnDiagonal(SquareAt(sq), SquareAt(t))
<1> DEFINE f == file_idx(sq)
           r == rank_idx(sq)
           g == file_idx(t)
           q == rank_idx(t)
<1>1. f \in 0..7 /\ r \in 0..7 /\ g \in 0..7 /\ q \in 0..7
  BY Coordinates
<1>2. Chess!OnDiagonal(SquareAt(sq), SquareAt(t))
        <=> (f # g \/ r # q) /\ Chess!Abs(g - f) = Chess!Abs(q - r)
  <2>1. SquareAt(sq) = <<f, r>> /\ SquareAt(t) = <<g, q>>
    BY SquaresCorrespond
  <2>2. SquareAt(sq) = SquareAt(t) <=> f = g /\ r = q
    BY <2>1
  <2> QED BY <2>1, <2>2 DEF Chess!OnDiagonal
<1>3. ASSUME NEW dir \in bishop_move_directions, NEW n \in 1..7, Away(dir, sq, n, t)
      PROVE  (f # g \/ r # q) /\ Chess!Abs(g - f) = Chess!Abs(q - r)
  <2> DEFINE df == file_step(dir)
             dr == rank_step(dir)
  <2>1. df \in {-1, 1} /\ dr \in {-1, 1}
    BY DirectionSteps DEF all_directions
  <2>2. g = f + n * df /\ q = r + n * dr
    BY <1>3 DEF Away
  <2> HIDE DEF f, r, g, q, df, dr
  <2> QED BY <1>1, <2>1, <2>2 DEF Chess!Abs
<1>4. ASSUME (f # g \/ r # q) /\ Chess!Abs(g - f) = Chess!Abs(q - r)
      PROVE  \E dir \in bishop_move_directions, n \in 1..7 : Away(dir, sq, n, t)
  <2>1. \E df, dr \in {-1, 1}, n \in 1..7 : g = f + n * df /\ q = r + n * dr
    <3> HIDE DEF f, r, g, q
    <3>1. CASE g > f /\ q > r
      <4>1. g - f \in 1..7 /\ g = f + (g - f) * 1 /\ q = r + (g - f) * 1
        BY <1>1, <1>4, <3>1 DEF Chess!Abs
      <4> QED BY <4>1
    <3>2. CASE g > f /\ q < r
      <4>1. g - f \in 1..7 /\ g = f + (g - f) * 1 /\ q = r + (g - f) * (-1)
        BY <1>1, <1>4, <3>2 DEF Chess!Abs
      <4> QED BY <4>1
    <3>3. CASE g < f /\ q > r
      <4>1. f - g \in 1..7 /\ g = f + (f - g) * (-1) /\ q = r + (f - g) * 1
        BY <1>1, <1>4, <3>3 DEF Chess!Abs
      <4> QED BY <4>1
    <3>4. CASE g < f /\ q < r
      <4>1. f - g \in 1..7 /\ g = f + (f - g) * (-1) /\ q = r + (f - g) * (-1)
        BY <1>1, <1>4, <3>4 DEF Chess!Abs
      <4> QED BY <4>1
    <3> QED BY <1>1, <1>4, <3>1, <3>2, <3>3, <3>4 DEF Chess!Abs
  <2>2. PICK df \in {-1, 1}, dr \in {-1, 1}, n \in 1..7 : g = f + n * df /\ q = r + n * dr
    BY <2>1
  <2>3. PICK dir \in bishop_move_directions : file_step(dir) = df /\ rank_step(dir) = dr
    BY DirectionSteps
  <2> QED BY <2>2, <2>3 DEF Away
<1> QED BY <1>2, <1>3, <1>4


-----------------------------------------------------------------------------
(* What officers and kings attack. *)

\* The sliding loop in a set of directions.
LEMMA SlideSquares ==
  ASSUME NEW b, NEW p, Depicts(p, b.bb), NEW side, NEW src \in Square,
         NEW directions \in SUBSET all_directions, NEW t \in Square
  PROVE  (\E dir \in directions : t \in slide(b, side, src, dir))
           <=> /\ t \notin friends(b, side)
               /\ Chess!Open(p, SquareAt(src), SquareAt(t))
               /\ \E dir \in directions, n \in 1..7 : Away(dir, src, n, t)
<1> DEFINE Clear(dir, n) == \A i \in 1..(n - 1) : walk(dir, src, i) \cap all_pieces(b) = {}
<1>1. ASSUME NEW dir \in directions
      PROVE  t \in slide(b, side, src, dir)
               <=> t \notin friends(b, side) /\ \E n \in 1..7 : Clear(dir, n) /\ t \in walk(dir, src, n)
  BY DEF slide
<1>2. ASSUME NEW dir \in directions, NEW n \in 1..7
      PROVE  /\ t \in walk(dir, src, n) <=> Away(dir, src, n, t)
             /\ Away(dir, src, n, t) => (Chess!Open(p, SquareAt(src), SquareAt(t)) <=> Clear(dir, n))
  <2>1. dir \in all_directions /\ n \in Nat
    OBVIOUS
  <2>2. t \in walk(dir, src, n) <=> Away(dir, src, n, t)
    BY <2>1, WalkEndsAway
  <2>3. ASSUME Away(dir, src, n, t)
        PROVE  Chess!Open(p, SquareAt(src), SquareAt(t)) <=> Clear(dir, n)
    BY <2>1, <2>3, OpenIsClear
  <2> QED BY <2>2, <2>3
<1> HIDE DEF Clear
<1> QED BY <1>1, <1>2

\* One step in some direction.
LEMMA KingSquares ==
  ASSUME NEW src \in Square, NEW t \in Square
  PROVE  (\E dir \in all_directions : t \in direction_to_function(dir, src))
           <=> /\ SquareAt(src) # SquareAt(t)
               /\ Chess!Abs(file_idx(t) - file_idx(src)) <= 1
               /\ Chess!Abs(rank_idx(t) - rank_idx(src)) <= 1
<1> DEFINE f == file_idx(src)
           r == rank_idx(src)
           g == file_idx(t)
           q == rank_idx(t)
<1>1. f \in 0..7 /\ r \in 0..7 /\ g \in 0..7 /\ q \in 0..7 /\ coordinates_to_square(f, r) = src
  BY Coordinates
<1>2. SquareAt(src) = SquareAt(t) <=> f = g /\ r = q
  BY DEF SquareAt
<1>3. ASSUME NEW dir \in all_directions
      PROVE  t \in direction_to_function(dir, src) <=> g = f + file_step(dir) /\ q = r + rank_step(dir)
  <2>1. direction_to_function(dir, src) = at(f + file_step(dir), r + rank_step(dir))
    <3> HIDE DEF f, r
    <3> QED BY <1>1, StepCoordinates
  <2> DEFINE x == f + file_step(dir)
             y == r + rank_step(dir)
  <2>2. t \in at(x, y) <=> g = x /\ q = y
    <3> HIDE DEF x, y
    <3> QED BY <1>1, Coordinates DEF at
  <2> QED BY <2>1, <2>2
<1>4. \A dir \in all_directions : /\ file_step(dir) \in {-1, 0, 1} /\ rank_step(dir) \in {-1, 0, 1}
                                  /\ (file_step(dir) # 0 \/ rank_step(dir) # 0)
  BY DirectionSteps DEF all_directions
<1>5. \A df, dr \in {-1, 0, 1} : df # 0 \/ dr # 0 =>
        \E dir \in all_directions : file_step(dir) = df /\ rank_step(dir) = dr
  BY DirectionSteps DEF all_directions
<1> HIDE DEF f, r, g, q
<1>6. ASSUME NEW dir \in all_directions, g = f + file_step(dir), q = r + rank_step(dir)
      PROVE  /\ f # g \/ r # q
             /\ Chess!Abs(g - f) <= 1 /\ Chess!Abs(q - r) <= 1
  <2> DEFINE df == file_step(dir)
             dr == rank_step(dir)
  <2>1. df \in {-1, 0, 1} /\ dr \in {-1, 0, 1} /\ (df # 0 \/ dr # 0) /\ g = f + df /\ q = r + dr
    BY <1>4, <1>6
  <2> HIDE DEF df, dr
  <2>2. g - f = df /\ q - r = dr /\ (f # g \/ r # q)
    BY <1>1, <2>1
  <2> QED BY <2>1, <2>2 DEF Chess!Abs
<1>7. ASSUME f # g \/ r # q, Chess!Abs(g - f) <= 1, Chess!Abs(q - r) <= 1
      PROVE  \E dir \in all_directions : g = f + file_step(dir) /\ q = r + rank_step(dir)
  <2>1. g - f \in {-1, 0, 1} /\ q - r \in {-1, 0, 1} /\ (g - f # 0 \/ q - r # 0)
    BY <1>1, <1>7 DEF Chess!Abs
  <2>2. PICK dir \in all_directions : file_step(dir) = g - f /\ rank_step(dir) = q - r
    BY <1>5, <2>1
  <2> QED BY <1>1, <2>2
<1>8. (\E dir \in all_directions : t \in direction_to_function(dir, src))
        <=> (f # g \/ r # q) /\ Chess!Abs(g - f) <= 1 /\ Chess!Abs(q - r) <= 1
  BY <1>3, <1>6, <1>7
<1> QED BY <1>2, <1>8 DEF f, r, g, q

\* A knight's leap apart.
Leaps(src, t) ==
  {Chess!Abs(file_idx(t) - file_idx(src)), Chess!Abs(rank_idx(t) - rank_idx(src))} = {1, 2}

\* The knight's leap is made of two steps, of which the first stays on the board
\* whenever the second ends there.
LEMMA KnightSquares ==
  ASSUME NEW src \in Square, NEW t \in Square
  PROVE  t \in knight_squares(src) <=> Leaps(src, t)
<1> DEFINE f == file_idx(src)
           r == rank_idx(src)
           g == file_idx(t)
           q == rank_idx(t)
<1>1. f \in 0..7 /\ r \in 0..7 /\ g \in 0..7 /\ q \in 0..7 /\ coordinates_to_square(f, r) = src
  BY Coordinates
<1>2. ASSUME NEW d \in all_directions, NEW e \in all_directions,
             \A x, y \in 0..7 : /\ x + file_step(d) + file_step(e) \in 0..7
                                /\ y + rank_step(d) + rank_step(e) \in 0..7
                                => x + file_step(d) \in 0..7 /\ y + rank_step(d) \in 0..7
      PROVE  (\E s \in direction_to_function(d, src) : t \in direction_to_function(e, s))
               <=> /\ g = f + file_step(d) + file_step(e)
                   /\ q = r + rank_step(d) + rank_step(e)
  <2> DEFINE x == f + file_step(d)
             y == r + rank_step(d)
             x2 == x + file_step(e)
             y2 == y + rank_step(e)
  <2>1. direction_to_function(d, src) = at(x, y)
    <3> HIDE DEF f, r
    <3> QED BY <1>1, StepCoordinates
  <2>2. x2 \in 0..7 /\ y2 \in 0..7 => x \in 0..7 /\ y \in 0..7
    BY <1>1, <1>2
  <2>3. \A a, c \in 0..7 : direction_to_function(e, coordinates_to_square(a, c))
                             = at(a + file_step(e), c + rank_step(e))
    BY StepCoordinates
  <2>4. x \in 0..7 /\ y \in 0..7 => direction_to_function(e, coordinates_to_square(x, y)) = at(x2, y2)
    <3> HIDE DEF x, y
    <3> QED BY <2>3
  <2> HIDE DEF x, y
  <2>5. t \in at(x2, y2) <=> g = x2 /\ q = y2
    <3> HIDE DEF x2, y2
    <3> QED BY <1>1, Coordinates DEF at
  <2>6. (\E s \in at(x, y) : t \in direction_to_function(e, s)) <=> g = x2 /\ q = y2
    <3>1. CASE x \in 0..7 /\ y \in 0..7
      <4>1. at(x, y) = {coordinates_to_square(x, y)}
        BY <3>1 DEF at
      <4> QED BY <3>1, <4>1, <2>4, <2>5
    <3>2. CASE ~(x \in 0..7 /\ y \in 0..7)
      <4>1. at(x, y) = {}
        BY <3>2 DEF at
      <4>2. ~(g = x2 /\ q = y2)
        <5> HIDE DEF x2, y2, g, q
        <5> QED BY <1>1, <2>2, <3>2
      <4> QED BY <4>1, <4>2
    <3> QED BY <3>1, <3>2
  <2> QED BY <2>1, <2>6 DEF x, y
<1> DEFINE Leap(df, dr) == g = f + df /\ q = r + dr
           Two(d, e) == \E s \in direction_to_function(d, src) : t \in direction_to_function(e, s)
<1>3. t \in knight_squares(src)
        <=> \/ Two("north", "northwest") \/ Two("north", "northeast")
            \/ Two("west", "northwest")  \/ Two("west", "southwest")
            \/ Two("east", "northeast")  \/ Two("east", "southeast")
            \/ Two("south", "southeast") \/ Two("south", "southwest")
  <2>1. t \in knight_squares(src) <=> \E dir \in knight_move_directions : Two(dir[1], dir[2])
    BY DEF knight_squares
  <2> HIDE DEF Two
  <2> QED BY <2>1 DEF knight_move_directions
<1>4. /\ Two("north", "northwest") <=> Leap(-1, 2)
      /\ Two("north", "northeast") <=> Leap(1, 2)
      /\ Two("south", "southwest") <=> Leap(-1, -2)
      /\ Two("south", "southeast") <=> Leap(1, -2)
  <2> USE DEF file_step, rank_step
  <2>1. {"north", "south", "northwest", "northeast", "southwest", "southeast"} \subseteq all_directions
    BY DEF all_directions, rook_move_directions, bishop_move_directions
  <2>2. Two("north", "northwest") <=> g = f + 0 + (-1) /\ q = r + 1 + 1
    BY <1>2, <2>1
  <2>3. Two("north", "northeast") <=> g = f + 0 + 1 /\ q = r + 1 + 1
    BY <1>2, <2>1
  <2>4. Two("south", "southwest") <=> g = f + 0 + (-1) /\ q = r + (-1) + (-1)
    BY <1>2, <2>1
  <2>5. Two("south", "southeast") <=> g = f + 0 + 1 /\ q = r + (-1) + (-1)
    BY <1>2, <2>1
  <2> HIDE DEF Two, f, r, g, q
  <2> QED BY <1>1, <2>2, <2>3, <2>4, <2>5
<1>5. /\ Two("west", "northwest") <=> Leap(-2, 1)
      /\ Two("west", "southwest") <=> Leap(-2, -1)
      /\ Two("east", "northeast") <=> Leap(2, 1)
      /\ Two("east", "southeast") <=> Leap(2, -1)
  <2> USE DEF file_step, rank_step
  <2>1. {"west", "east", "northwest", "northeast", "southwest", "southeast"} \subseteq all_directions
    BY DEF all_directions, rook_move_directions, bishop_move_directions
  <2>2. Two("west", "northwest") <=> g = f + (-1) + (-1) /\ q = r + 0 + 1
    BY <1>2, <2>1
  <2>3. Two("west", "southwest") <=> g = f + (-1) + (-1) /\ q = r + 0 + (-1)
    BY <1>2, <2>1
  <2>4. Two("east", "northeast") <=> g = f + 1 + 1 /\ q = r + 0 + 1
    BY <1>2, <2>1
  <2>5. Two("east", "southeast") <=> g = f + 1 + 1 /\ q = r + 0 + (-1)
    BY <1>2, <2>1
  <2> HIDE DEF Two, f, r, g, q
  <2> QED BY <1>1, <2>2, <2>3, <2>4, <2>5
<1>6. {Chess!Abs(g - f), Chess!Abs(q - r)} = {1, 2}
        <=> \/ Leap(-1, 2) \/ Leap(1, 2) \/ Leap(-1, -2) \/ Leap(1, -2)
            \/ Leap(-2, 1) \/ Leap(-2, -1) \/ Leap(2, 1) \/ Leap(2, -1)
  <2> DEFINE a == Chess!Abs(g - f)
             c == Chess!Abs(q - r)
  <2>1. {a, c} = {1, 2} <=> (a = 1 /\ c = 2) \/ (a = 2 /\ c = 1)
    <3> HIDE DEF a, c
    <3> QED OBVIOUS
  <2>2. (a = 1 /\ c = 2) \/ (a = 2 /\ c = 1)
          <=> \/ Leap(-1, 2) \/ Leap(1, 2) \/ Leap(-1, -2) \/ Leap(1, -2)
              \/ Leap(-2, 1) \/ Leap(-2, -1) \/ Leap(2, 1) \/ Leap(2, -1)
    <3> HIDE DEF f, r, g, q
    <3> QED BY <1>1 DEF Chess!Abs
  <2> QED BY <2>1, <2>2
<1> HIDE DEF Two, Leap
<1> QED BY <1>3, <1>4, <1>5, <1>6 DEF Leaps


\* What a man attacks, by its kind.
LEMMA AttacksByKind ==
  ASSUME NEW b, NEW p, Depicts(p, b.bb), NEW c \in Color, NEW k \in Piece,
         NEW src \in Square, src \in pieces(b, c, k), NEW t \in Square
  PROVE  LET df == Chess!Abs(file_idx(t) - file_idx(src))
             dr == Chess!Abs(rank_idx(t) - rank_idx(src))
             line == Chess!Open(p, SquareAt(src), SquareAt(t))
         IN  /\ k = "pawn" => (Chess!Attacks(p, SquareAt(src), SquareAt(t))
                                 <=> df = 1 /\ rank_idx(t) = rank_idx(src) + Chess!Up(c))
             /\ k = "knight" => (Chess!Attacks(p, SquareAt(src), SquareAt(t)) <=> Leaps(src, t))
             /\ k = "king" => (Chess!Attacks(p, SquareAt(src), SquareAt(t))
                                 <=> SquareAt(src) # SquareAt(t) /\ df <= 1 /\ dr <= 1)
             /\ k = "rook" => (Chess!Attacks(p, SquareAt(src), SquareAt(t))
                                 <=> Chess!OnFileOrRank(SquareAt(src), SquareAt(t)) /\ line)
             /\ k = "bishop" => (Chess!Attacks(p, SquareAt(src), SquareAt(t))
                                   <=> Chess!OnDiagonal(SquareAt(src), SquareAt(t)) /\ line)
             /\ k = "queen" => (Chess!Attacks(p, SquareAt(src), SquareAt(t))
                                  <=> /\ \/ Chess!OnFileOrRank(SquareAt(src), SquareAt(t))
                                         \/ Chess!OnDiagonal(SquareAt(src), SquareAt(t))
                                      /\ line)
<1>1. p[SquareAt(src)][1] = c /\ p[SquareAt(src)][2] = k
  BY Depicted
<1>2. /\ SquareAt(src)[1] = file_idx(src) /\ SquareAt(src)[2] = rank_idx(src)
      /\ SquareAt(t)[1] = file_idx(t) /\ SquareAt(t)[2] = rank_idx(t)
  BY SquaresCorrespond
<1>3. k = "pawn" => (Chess!Attacks(p, SquareAt(src), SquareAt(t))
                       <=> /\ Chess!Abs(file_idx(t) - file_idx(src)) = 1
                           /\ rank_idx(t) = rank_idx(src) + Chess!Up(c))
  BY <1>1, <1>2 DEF Chess!Attacks
<1>4. k = "knight" => (Chess!Attacks(p, SquareAt(src), SquareAt(t)) <=> Leaps(src, t))
  BY <1>1, <1>2 DEF Chess!Attacks, Leaps
<1>5. k = "king" => (Chess!Attacks(p, SquareAt(src), SquareAt(t))
                       <=> /\ SquareAt(src) # SquareAt(t)
                           /\ Chess!Abs(file_idx(t) - file_idx(src)) <= 1
                           /\ Chess!Abs(rank_idx(t) - rank_idx(src)) <= 1)
  BY <1>1, <1>2 DEF Chess!Attacks
<1>6. k = "rook" => (Chess!Attacks(p, SquareAt(src), SquareAt(t))
                       <=> /\ Chess!OnFileOrRank(SquareAt(src), SquareAt(t))
                           /\ Chess!Open(p, SquareAt(src), SquareAt(t)))
  BY <1>1 DEF Chess!Attacks
<1>7. k = "bishop" => (Chess!Attacks(p, SquareAt(src), SquareAt(t))
                         <=> /\ Chess!OnDiagonal(SquareAt(src), SquareAt(t))
                             /\ Chess!Open(p, SquareAt(src), SquareAt(t)))
  BY <1>1 DEF Chess!Attacks
<1>8. k = "queen" => (Chess!Attacks(p, SquareAt(src), SquareAt(t))
                        <=> /\ \/ Chess!OnFileOrRank(SquareAt(src), SquareAt(t))
                               \/ Chess!OnDiagonal(SquareAt(src), SquareAt(t))
                            /\ Chess!Open(p, SquareAt(src), SquareAt(t)))
  BY <1>1 DEF Chess!Attacks
<1> QED BY <1>3, <1>4, <1>5, <1>6, <1>7, <1>8

\* An officer or king of the side on src attacks dst, and no friend is there.
Aims(b, p, side, k, src, dst) ==
  /\ src \in pieces(b, side, k)
  /\ dst \in Square \ friends(b, side)
  /\ Chess!Attacks(p, SquareAt(src), SquareAt(dst))

\* Bishops, rooks and queens.
LEMMA SlidersAim ==
  ASSUME NEW b \in BoardType, NEW p, Depicts(p, b.bb), NEW side \in Color, NEW m,
         NEW k, NEW directions,
         \/ k = "bishop" /\ directions = bishop_move_directions
         \/ k = "rook" /\ directions = rook_move_directions
         \/ k = "queen" /\ directions = all_directions
  PROVE  m \in append_pseudolegal_sliding_moves(b, side, directions, k)
           <=> \E src, dst \in Square : /\ Aims(b, p, side, k, src, dst)
                                        /\ m = simple_or_capture(b, side, src, dst, k)
<1>1. k \in Piece /\ directions \in SUBSET all_directions
  BY DEF Piece, all_directions
<1>2. pieces(b, side, k) \subseteq Square
  BY <1>1 DEF pieces, BoardType, BitboardArray, Bitboard
<1>3. \A src \in Square, dir \in directions : slide(b, side, src, dir) \subseteq Square
  <2>1. \A src \in Square, dir \in directions, n \in 1..7 : walk(dir, src, n) \subseteq Square
    BY <1>1, WalkType DEF Bitboard
  <2> QED BY <2>1 DEF slide
<1>4. m \in append_pseudolegal_sliding_moves(b, side, directions, k)
        <=> \E src \in pieces(b, side, k) : \E dst : 
              /\ \E dir \in directions : dst \in slide(b, side, src, dir)
              /\ m = simple_or_capture(b, side, src, dst, k)
  BY DEF append_pseudolegal_sliding_moves
<1>5. ASSUME NEW src \in Square, src \in pieces(b, side, k), NEW dst \in Square
      PROVE  (\E dir \in directions : dst \in slide(b, side, src, dir)) <=> Aims(b, p, side, k, src, dst)
  <2> DEFINE line == Chess!Open(p, SquareAt(src), SquareAt(dst))
             Far(dirs) == \E dir \in dirs, n \in 1..7 : Away(dir, src, n, dst)
  <2>1. (\E dir \in directions : dst \in slide(b, side, src, dir))
          <=> dst \notin friends(b, side) /\ line /\ Far(directions)
    BY <1>1, SlideSquares
  <2>2. /\ Far(rook_move_directions) <=> Chess!OnFileOrRank(SquareAt(src), SquareAt(dst))
        /\ Far(bishop_move_directions) <=> Chess!OnDiagonal(SquareAt(src), SquareAt(dst))
    BY FilesAndRanks, DiagonalLines
  <2>3. Far(all_directions) <=> Far(rook_move_directions) \/ Far(bishop_move_directions)
    BY DEF all_directions
  <2> HIDE DEF Far
  <2>4. Chess!Attacks(p, SquareAt(src), SquareAt(dst)) <=> Far(directions) /\ line
    BY <1>1, <1>5, <2>2, <2>3, AttacksByKind
  <2> HIDE DEF line
  <2> QED BY <1>5, <2>1, <2>4 DEF Aims
<1> QED BY <1>2, <1>3, <1>4, <1>5 DEF Aims

LEMMA KingsAim ==
  ASSUME NEW b \in BoardType, NEW p, Depicts(p, b.bb), NEW side \in Color, NEW m
  PROVE  m \in append_pseudolegal_king_moves(b, side)
           <=> \E src, dst \in Square : /\ Aims(b, p, side, "king", src, dst)
                                        /\ m = simple_or_capture(b, side, src, dst, "king")
<1>1. "king" \in Piece
  BY DEF Piece
<1>2. pieces(b, side, "king") \subseteq Square
  BY <1>1 DEF pieces, BoardType, BitboardArray, Bitboard
<1>3. \A src \in Square, dir \in all_directions : direction_to_function(dir, src) \subseteq Square
  BY DirectionType DEF Bitboard
<1>4. m \in append_pseudolegal_king_moves(b, side)
        <=> \E src \in pieces(b, side, "king") : \E dst :
              /\ \E dir \in all_directions : dst \in direction_to_function(dir, src)
              /\ dst \notin friends(b, side)
              /\ m = simple_or_capture(b, side, src, dst, "king")
  BY DEF append_pseudolegal_king_moves
<1>5. ASSUME NEW src \in Square, src \in pieces(b, side, "king"), NEW dst \in Square
      PROVE  (\E dir \in all_directions : dst \in direction_to_function(dir, src))
               <=> Chess!Attacks(p, SquareAt(src), SquareAt(dst))
  <2>1. Chess!Attacks(p, SquareAt(src), SquareAt(dst))
          <=> /\ SquareAt(src) # SquareAt(dst)
              /\ Chess!Abs(file_idx(dst) - file_idx(src)) <= 1
              /\ Chess!Abs(rank_idx(dst) - rank_idx(src)) <= 1
    BY <1>1, <1>5, AttacksByKind
  <2> QED BY <2>1, KingSquares
<1> QED BY <1>2, <1>3, <1>4, <1>5 DEF Aims

LEMMA KnightsAim ==
  ASSUME NEW b \in BoardType, NEW p, Depicts(p, b.bb), NEW side \in Color, NEW m
  PROVE  m \in append_pseudolegal_knight_moves(b, side)
           <=> \E src, dst \in Square : /\ Aims(b, p, side, "knight", src, dst)
                                        /\ m = simple_or_capture(b, side, src, dst, "knight")
<1>1. "knight" \in Piece
  BY DEF Piece
<1>2. pieces(b, side, "knight") \subseteq Square
  BY <1>1 DEF pieces, BoardType, BitboardArray, Bitboard
<1>3. \A src \in Square : knight_squares(src) \subseteq Square
  <2>1. \A src \in Square, dir \in all_directions : direction_to_function(dir, src) \subseteq Square
    BY DirectionType DEF Bitboard
  <2>2. \A dir \in knight_move_directions : dir[1] \in all_directions /\ dir[2] \in all_directions
    BY DEF knight_move_directions, all_directions, rook_move_directions, bishop_move_directions
  <2> QED BY <2>1, <2>2 DEF knight_squares
<1>4. m \in append_pseudolegal_knight_moves(b, side)
        <=> \E src \in pieces(b, side, "knight") : \E dst :
              /\ dst \in knight_squares(src)
              /\ dst \notin friends(b, side)
              /\ m = simple_or_capture(b, side, src, dst, "knight")
  BY DEF append_pseudolegal_knight_moves
<1>5. ASSUME NEW src \in Square, src \in pieces(b, side, "knight"), NEW dst \in Square
      PROVE  dst \in knight_squares(src) <=> Chess!Attacks(p, SquareAt(src), SquareAt(dst))
  <2>1. Chess!Attacks(p, SquareAt(src), SquareAt(dst)) <=> Leaps(src, dst)
    BY <1>1, <1>5, AttacksByKind
  <2> QED BY <2>1, KnightSquares
<1> QED BY <1>2, <1>3, <1>4, <1>5 DEF Aims

\* All of them together: the moves that are not a pawn's.
LEMMA OfficersAim ==
  ASSUME NEW b \in BoardType, NEW p, Depicts(p, b.bb), NEW side \in Color, NEW m
  PROVE  m \in pseudolegal_moves(b, side)
           <=> \/ m \in append_pseudolegal_pawn_moves(b, side)
               \/ \E k \in Piece \ {"pawn"} : \E src, dst \in Square :
                    /\ Aims(b, p, side, k, src, dst)
                    /\ m = simple_or_capture(b, side, src, dst, k)
<1> DEFINE Of(k) == \E src, dst \in Square : /\ Aims(b, p, side, k, src, dst)
                                             /\ m = simple_or_capture(b, side, src, dst, k)
<1>1. m \in append_pseudolegal_bishop_moves(b, side) <=> Of("bishop")
  BY SlidersAim DEF append_pseudolegal_bishop_moves
<1>2. m \in append_pseudolegal_rook_moves(b, side) <=> Of("rook")
  BY SlidersAim DEF append_pseudolegal_rook_moves
<1>3. m \in append_pseudolegal_queen_moves(b, side) <=> Of("queen")
  BY SlidersAim DEF append_pseudolegal_queen_moves
<1>4. m \in append_pseudolegal_king_moves(b, side) <=> Of("king")
  BY KingsAim
<1>5. m \in append_pseudolegal_knight_moves(b, side) <=> Of("knight")
  BY KnightsAim
<1>6. Piece \ {"pawn"} = {"bishop", "rook", "queen", "king", "knight"}
  BY DEF Piece
<1> HIDE DEF Of
<1>7. (\E k \in Piece \ {"pawn"} : Of(k)) <=> Of("bishop") \/ Of("rook") \/ Of("queen") \/ Of("king") \/ Of("knight")
  BY <1>6
<1>8. m \in pseudolegal_moves(b, side)
        <=> m \in append_pseudolegal_pawn_moves(b, side) \/ \E k \in Piece \ {"pawn"} : Of(k)
  BY <1>1, <1>2, <1>3, <1>4, <1>5, <1>7 DEF pseudolegal_moves
<1> QED BY <1>8 DEF Of


-----------------------------------------------------------------------------
(* What pawns do. *)

\* The square dst is straight ahead of src for the side, or diagonally ahead.
Ahead(side, src, dst) ==
  file_idx(dst) = file_idx(src) /\ rank_idx(dst) = rank_idx(src) + Chess!Up(side)
Aslant(side, src, dst) ==
  Chess!Abs(file_idx(dst) - file_idx(src)) = 1 /\ rank_idx(dst) = rank_idx(src) + Chess!Up(side)

\* On the board, at(file, rank) is the square with these coordinates.
LEMMA AtCoordinates ==
  ASSUME NEW file, NEW rank, NEW t
  PROVE  t \in at(file, rank) <=> t \in Square /\ file_idx(t) = file /\ rank_idx(t) = rank
<1>1. CASE file \in 0..7 /\ rank \in 0..7
  BY <1>1, Coordinates DEF at
<1>2. CASE ~(file \in 0..7 /\ rank \in 0..7)
  BY <1>2, Coordinates DEF at
<1> QED BY <1>1, <1>2

LEMMA ForwardIsAhead ==
  ASSUME NEW side \in Color, NEW src \in Square, NEW dst
  PROVE  dst \in forward(side, src) <=> dst \in Square /\ Ahead(side, src, dst)
<1> DEFINE f == file_idx(src)
           r == rank_idx(src)
<1>1. f \in 0..7 /\ r \in 0..7 /\ coordinates_to_square(f, r) = src
  BY Coordinates
<1>2. north_of(src) = at(f, r + 1) /\ south_of(src) = at(f, r - 1)
  <2> HIDE DEF f, r
  <2> QED BY <1>1, StraightSteps
<1>3. CASE side = "white"
  <2>1. forward(side, src) = at(f, r + 1) /\ Chess!Up(side) = 1
    BY <1>2, <1>3 DEF forward, Chess!Up
  <2> QED BY <2>1, AtCoordinates DEF Ahead
<1>4. CASE side = "black"
  <2>1. forward(side, src) = at(f, r - 1) /\ Chess!Up(side) = -1 /\ r - 1 = r + (-1)
    BY <1>1, <1>2, <1>4 DEF forward, Chess!Up
  <2> QED BY <2>1, AtCoordinates DEF Ahead
<1> QED BY <1>3, <1>4 DEF Color

LEMMA DiagonalsAreAslant ==
  ASSUME NEW side \in Color, NEW src \in Square, NEW dst
  PROVE  dst \in diagonals(side, src) <=> dst \in Square /\ Aslant(side, src, dst)
<1> DEFINE f == file_idx(src)
           r == rank_idx(src)
<1>1. f \in 0..7 /\ r \in 0..7 /\ coordinates_to_square(f, r) = src
  BY Coordinates
<1>2. /\ northeast_of(src) = at(f + 1, r + 1) /\ northwest_of(src) = at(f - 1, r + 1)
      /\ southeast_of(src) = at(f + 1, r - 1) /\ southwest_of(src) = at(f - 1, r - 1)
  <2> HIDE DEF f, r
  <2> QED BY <1>1, DiagonalSteps
<1>3. ASSUME dst \in Square
      PROVE  Chess!Abs(file_idx(dst) - f) = 1 <=> file_idx(dst) = f + 1 \/ file_idx(dst) = f - 1
  <2> DEFINE g == file_idx(dst)
  <2>1. g \in 0..7
    BY <1>3, Coordinates
  <2> HIDE DEF f, g
  <2> QED BY <1>1, <2>1 DEF Chess!Abs, g
<1>4. CASE side = "white"
  <2>1. diagonals(side, src) = at(f + 1, r + 1) \cup at(f - 1, r + 1) /\ Chess!Up(side) = 1
    BY <1>2, <1>4 DEF diagonals, Chess!Up
  <2> QED BY <1>3, <2>1, AtCoordinates DEF Aslant
<1>5. CASE side = "black"
  <2>1. /\ diagonals(side, src) = at(f + 1, r - 1) \cup at(f - 1, r - 1)
        /\ Chess!Up(side) = -1 /\ r - 1 = r + (-1)
    BY <1>1, <1>2, <1>5 DEF diagonals, Chess!Up
  <2> QED BY <1>3, <2>1, AtCoordinates DEF Aslant
<1> QED BY <1>4, <1>5 DEF Color

\* Seen from the other side, src is diagonally ahead of dst.
LEMMA AslantBack ==
  ASSUME NEW side \in Color, NEW src \in Square, NEW dst \in Square
  PROVE  Aslant(flip_color(side), dst, src) <=> Aslant(side, src, dst)
<1> DEFINE f == file_idx(src)
           r == rank_idx(src)
           g == file_idx(dst)
           q == rank_idx(dst)
<1>1. f \in 0..7 /\ r \in 0..7 /\ g \in 0..7 /\ q \in 0..7
  BY Coordinates
<1>2. Chess!Up(side) \in {-1, 1} /\ Chess!Up(flip_color(side)) = -Chess!Up(side)
  BY DEF Chess!Up, flip_color, Color
<1>3. Chess!Abs(f - g) = Chess!Abs(g - f)
  <2> HIDE DEF f, g
  <2> QED BY <1>1 DEF Chess!Abs
<1> DEFINE u == Chess!Up(side)
<1>4. r = q + (-u) <=> q = r + u
  <2> HIDE DEF r, q, u
  <2> QED BY <1>1, <1>2 DEF u
<1> QED BY <1>2, <1>3, <1>4 DEF Aslant

\* The five kinds of pawn moves, with all their conditions.
PawnCan(b, side, src, dst, type) ==
  \/ /\ type = "simple" /\ src \notin promotion_mask(side)
     /\ Ahead(side, src, dst) /\ dst \notin all_pieces(b)
  \/ /\ type = "two_step_pawn" /\ src \in two_step_mask(side)
     /\ \E mid \in Square \ all_pieces(b) : Ahead(side, src, mid) /\ Ahead(side, mid, dst)
     /\ dst \notin all_pieces(b)
  \/ /\ type = "capture" /\ src \notin promotion_mask(side)
     /\ Aslant(side, src, dst) /\ dst \in enemies(b, side)
  \/ /\ type = "en_passant" /\ dst \in b.en_passant_square_
     /\ Aslant(side, src, dst)
  \/ /\ type \in promotion_move_types /\ src \in promotion_mask(side)
     /\ \/ Ahead(side, src, dst) /\ dst \notin all_pieces(b)
        \/ Aslant(side, src, dst) /\ dst \in enemies(b, side)

LEMMA PawnsCan ==
  ASSUME NEW b \in BoardType, NEW side \in Color, NEW m
  PROVE  m \in append_pseudolegal_pawn_moves(b, side)
           <=> \E src \in pawns(b, side), dst \in Square, type \in MoveType :
                 m = Move(src, dst, "pawn", type) /\ PawnCan(b, side, src, dst, type)
<1>1. pawns(b, side) \subseteq Square /\ b.en_passant_square_ \subseteq Square
  BY DEF pawns, pieces, BoardType, BitboardArray, Bitboard, Piece
<1>2. \A src \in Square : \A dst : dst \in forward(side, src) <=> dst \in Square /\ Ahead(side, src, dst)
  BY ForwardIsAhead
<1>3. \A src \in Square : \A dst : dst \in diagonals(side, src) <=> dst \in Square /\ Aslant(side, src, dst)
  BY DiagonalsAreAslant
<1> DEFINE Of(type, src, dst) == m = Move(src, dst, "pawn", type)
<1>4. m \in append_pseudolegal_simple_pawn_moves(b, side)
        <=> \E src \in pawns(b, side), dst \in Square :
              /\ Of("simple", src, dst) /\ src \notin promotion_mask(side)
              /\ Ahead(side, src, dst) /\ dst \notin all_pieces(b)
  BY <1>1, <1>2 DEF append_pseudolegal_simple_pawn_moves
<1>5. m \in append_pseudolegal_two_step_pawn_moves(b, side)
        <=> \E src \in pawns(b, side), dst \in Square :
              /\ Of("two_step_pawn", src, dst) /\ src \in two_step_mask(side)
              /\ \E mid \in Square \ all_pieces(b) : Ahead(side, src, mid) /\ Ahead(side, mid, dst)
              /\ dst \notin all_pieces(b)
  BY <1>1, <1>2 DEF append_pseudolegal_two_step_pawn_moves
<1>6. m \in append_pseudolegal_pawn_captures(b, side)
        <=> \E src \in pawns(b, side), dst \in Square :
              /\ Of("capture", src, dst) /\ src \notin promotion_mask(side)
              /\ Aslant(side, src, dst) /\ dst \in enemies(b, side)
  BY <1>1, <1>3 DEF append_pseudolegal_pawn_captures
<1>7. m \in append_pseudolegal_en_passant_moves(b, side)
        <=> \E src \in pawns(b, side), dst \in Square :
              /\ Of("en_passant", src, dst) /\ dst \in b.en_passant_square_
              /\ Aslant(side, src, dst)
  <2>1. \A ep \in b.en_passant_square_, src \in pawns(b, side) :
          src \in diagonals(flip_color(side), ep) <=> Aslant(side, src, ep)
    BY <1>1, DiagonalsAreAslant, AslantBack, FlipColor
  <2> QED BY <1>1, <2>1 DEF append_pseudolegal_en_passant_moves
<1>8. m \in append_pseudolegal_promotions(b, side)
        <=> \E src \in pawns(b, side), dst \in Square, type \in promotion_move_types :
              /\ Of(type, src, dst) /\ src \in promotion_mask(side)
              /\ \/ Ahead(side, src, dst) /\ dst \notin all_pieces(b)
                 \/ Aslant(side, src, dst) /\ dst \in enemies(b, side)
  BY <1>1, <1>2, <1>3 DEF append_pseudolegal_promotions
<1>9. {"simple", "two_step_pawn", "capture", "en_passant"} \cup promotion_move_types \subseteq MoveType
  BY DEF MoveType
<1> HIDE DEF Of
<1>10. m \in append_pseudolegal_pawn_moves(b, side)
         <=> \E src \in pawns(b, side), dst \in Square, type \in MoveType :
               Of(type, src, dst) /\ PawnCan(b, side, src, dst, type)
  BY <1>4, <1>5, <1>6, <1>7, <1>8, <1>9 DEF append_pseudolegal_pawn_moves, PawnCan
<1> QED BY <1>10 DEF Of

-----------------------------------------------------------------------------
(* Attacks and checks. *)

\* A square is attacked by one of the pieces on the Bitboards of the side.
LEMMA AttackedBySomeone ==
  ASSUME NEW b \in BoardType, NEW p, Depicts(p, b.bb), NEW c \in Color, NEW t \in Square
  PROVE  Chess!Attacked(p, c, SquareAt(t))
           <=> \E k \in Piece, src \in Square : /\ src \in pieces(b, c, k)
                                                /\ Chess!Attacks(p, SquareAt(src), SquareAt(t))
<1>1. Chess!Attacked(p, c, SquareAt(t))
        <=> \E src \in Square : /\ p[SquareAt(src)][1] = c
                                /\ Chess!Attacks(p, SquareAt(src), SquareAt(t))
  BY SquaresCorrespond DEF Chess!Attacked
<1>2. ASSUME NEW src \in Square
      PROVE  p[SquareAt(src)][1] = c <=> \E k \in Piece : src \in pieces(b, c, k)
  <2>1. p[SquareAt(src)][1] = c <=> src \in friends(b, c)
    BY Depicted
  <2> QED BY <2>1, Friends DEF pieces
<1> QED BY <1>1, <1>2

\* A pawn attacks what is diagonally ahead of it.
LEMMA PawnsAttack ==
  ASSUME NEW b, NEW p, Depicts(p, b.bb), NEW c \in Color,
         NEW src \in Square, src \in pawns(b, c), NEW t \in Square
  PROVE  Chess!Attacks(p, SquareAt(src), SquareAt(t)) <=> Aslant(c, src, t)
<1>1. "pawn" \in Piece /\ src \in pieces(b, c, "pawn")
  BY DEF Piece, pawns
<1> QED BY <1>1, AttacksByKind DEF Aslant

\* A pawn of side c stands on the square behind t, or two squares behind it where
\* it may jump: t is a square it may be pushed to, but does not attack.
PushedTo(b, c, t) ==
  /\ t \notin all_pieces(b)
  /\ \E src \in pawns(b, c) :
       \/ Ahead(c, src, t)
       \/ src \in two_step_mask(c) /\ \E mid \in Square : Ahead(c, src, mid) /\ Ahead(c, mid, t)

\* attack_squares holds the attacked squares that no friend is on, and squares
\* that pawns can be pushed to.
LEMMA AttackSquaresAre ==
  ASSUME NEW b \in BoardType, NEW p, Depicts(p, b.bb), NEW c \in Color,
         NEW t \in Square, t \notin friends(b, c)
  PROVE  /\ Chess!Attacked(p, c, SquareAt(t)) => t \in attack_squares(b, c)
         /\ t \in attack_squares(b, c) => Chess!Attacked(p, c, SquareAt(t)) \/ PushedTo(b, c, t)
<1> DEFINE A(src) == Chess!Attacks(p, SquareAt(src), SquareAt(t))
<1>1. pawns(b, c) \subseteq Square /\ \A k \in Piece : pieces(b, c, k) \subseteq Square
  BY DEF pawns, pieces, BoardType, BitboardArray, Bitboard, Piece
<1>2. t \in attack_squares(b, c)
        <=> \/ \E m \in pseudolegal_moves(b, c) : m.dst_square_ = t
            \/ \E src \in pawns(b, c) : t \in diagonals(c, src)
  BY DEF attack_squares, pawn_attack_squares
<1>3. (\E src \in pawns(b, c) : t \in diagonals(c, src)) <=> \E src \in pawns(b, c) : A(src)
  BY <1>1, DiagonalsAreAslant, PawnsAttack
<1>4. Chess!Attacked(p, c, SquareAt(t))
        <=> \E k \in Piece, src \in Square : src \in pieces(b, c, k) /\ A(src)
  BY AttackedBySomeone
<1>5. \A k \in Piece, src, dst \in Square :
        simple_or_capture(b, c, src, dst, k).dst_square_ = dst
  BY DEF simple_or_capture, Move
<1>6. \A src, dst \in Square : \A type : Move(src, dst, "pawn", type).dst_square_ = dst
  BY DEF Move
<1>7. ASSUME NEW m \in pseudolegal_moves(b, c), m.dst_square_ = t
      PROVE  Chess!Attacked(p, c, SquareAt(t)) \/ PushedTo(b, c, t)
  <2>1. CASE m \in append_pseudolegal_pawn_moves(b, c)
    <3>1. PICK src \in pawns(b, c), dst \in Square, type \in MoveType :
            m = Move(src, dst, "pawn", type) /\ PawnCan(b, c, src, dst, type)
      BY <2>1, PawnsCan
    <3>2. dst = t
      BY <1>1, <1>6, <1>7, <3>1
    <3>3. CASE Aslant(c, src, t)
      <4>1. A(src)
        BY <1>1, <3>3, PawnsAttack
      <4> QED BY <1>1, <1>4, <4>1 DEF pawns, Piece
    <3>4. CASE ~Aslant(c, src, t)
      BY <3>1, <3>2, <3>4 DEF PawnCan, PushedTo
    <3> QED BY <3>3, <3>4
  <2>2. CASE m \notin append_pseudolegal_pawn_moves(b, c)
    <3>1. PICK k \in Piece \ {"pawn"}, src \in Square, dst \in Square :
            Aims(b, p, c, k, src, dst) /\ m = simple_or_capture(b, c, src, dst, k)
      BY <2>2, OfficersAim
    <3>2. dst = t
      BY <1>5, <1>7, <3>1
    <3> QED BY <1>4, <3>1, <3>2 DEF Aims
  <2> QED BY <2>1, <2>2
<1>8. ASSUME NEW k \in Piece, NEW src \in Square, src \in pieces(b, c, k), A(src)
      PROVE  t \in attack_squares(b, c)
  <2>1. CASE k = "pawn"
    BY <1>2, <1>3, <1>8, <2>1 DEF pawns
  <2>2. CASE k # "pawn"
    <3>1. Aims(b, p, c, k, src, t)
      BY <1>8 DEF Aims
    <3>2. simple_or_capture(b, c, src, t, k) \in pseudolegal_moves(b, c)
      BY <2>2, <3>1, OfficersAim
    <3> QED BY <1>2, <1>5, <3>2
  <2> QED BY <2>1, <2>2
<1> HIDE DEF A
<1>9. (\E src \in pawns(b, c) : A(src)) => Chess!Attacked(p, c, SquareAt(t))
  BY <1>1, <1>4 DEF pawns, Piece
<1> QED BY <1>2, <1>3, <1>4, <1>7, <1>8, <1>9

\* A man is in attack_squares exactly when it is attacked; so is the king.
LEMMA CheckIsSeen ==
  ASSUME NEW b \in BoardType, PiecesDisjoint(b), NEW side \in Color,
         NEW p, Depicts(p, b.bb)
  PROVE  is_king_attacked(b, side) <=> Chess!InCheck(p, side)
<1>1. pieces(b, side, "king") \subseteq Square
  BY DEF pieces, BoardType, BitboardArray, Bitboard, Piece
<1>2. flip_color(side) \in Color /\ Chess!Opponent(side) = flip_color(side)
      /\ flip_color(flip_color(side)) = side
  BY FlipColor DEF Chess!Opponent, flip_color
<1>3. ASSUME NEW t \in pieces(b, side, "king")
      PROVE  t \in attack_squares(b, flip_color(side)) <=> Chess!Attacked(p, flip_color(side), SquareAt(t))
  <2>1. t \in friends(b, side) /\ t \in all_pieces(b)
    BY <1>3, Friends, AllPieces DEF pieces, Piece, occupied
  <2>2. t \notin friends(b, flip_color(side))
    BY <1>2, <2>1, SidesDisjoint DEF enemies
  <2>3. ~PushedTo(b, flip_color(side), t)
    BY <2>1 DEF PushedTo
  <2> QED BY <1>1, <1>2, <2>2, <2>3, AttackSquaresAre
<1>4. is_king_attacked(b, side)
        <=> \E t \in pieces(b, side, "king") : t \in attack_squares(b, flip_color(side))
  BY DEF is_king_attacked
<1>5. Chess!InCheck(p, side)
        <=> \E t \in Square : /\ p[SquareAt(t)] = <<side, "king">>
                              /\ Chess!Attacked(p, flip_color(side), SquareAt(t))
  <2> DEFINE F(s) == p[s] = <<side, "king">> /\ Chess!Attacked(p, flip_color(side), s)
  <2>1. Chess!InCheck(p, side) <=> \E s \in Chess!Squares : F(s)
    BY <1>2 DEF Chess!InCheck
  <2> HIDE DEF F
  <2>2. Chess!InCheck(p, side) <=> \E t \in Square : F(SquareAt(t))
    BY <2>1, SquaresCorrespond
  <2> QED BY <2>2 DEF F
<1>6. \A t \in Square : p[SquareAt(t)] = <<side, "king">> <=> t \in pieces(b, side, "king")
  BY Depicted DEF Piece
<1> QED BY <1>1, <1>3, <1>4, <1>5, <1>6

-----------------------------------------------------------------------------
(* What a move does to the position. *)

\* The two forms of a pseudolegal move.
LEMMA PseudolegalForms ==
  ASSUME NEW b \in BoardType, NEW p, Depicts(p, b.bb), NEW side \in Color,
         NEW m \in pseudolegal_moves(b, side)
  PROVE  /\ m \in MoveSet
         /\ m = Move(m.src_square_, m.dst_square_, m.piece_moving_, m.move_type_)
         /\ m.src_square_ \in pieces(b, side, m.piece_moving_)
         /\ \/ /\ m.piece_moving_ = "pawn"
               /\ PawnCan(b, side, m.src_square_, m.dst_square_, m.move_type_)
            \/ /\ m.piece_moving_ # "pawn"
               /\ Aims(b, p, side, m.piece_moving_, m.src_square_, m.dst_square_)
               /\ m.move_type_ = IF m.dst_square_ \in enemies(b, side) THEN "capture" ELSE "simple"
<1>1. /\ pawns(b, side) \subseteq Square /\ \A k \in Piece : pieces(b, side, k) \subseteq Square
      /\ "pawn" \in Piece /\ {"simple", "capture"} \subseteq MoveType
  BY DEF pawns, pieces, BoardType, BitboardArray, Bitboard, Piece, MoveType
<1>2. ASSUME NEW src \in Square, NEW dst \in Square, NEW k \in Piece, NEW type \in MoveType,
             m = Move(src, dst, k, type)
      PROVE  /\ m \in MoveSet
             /\ m.src_square_ = src /\ m.dst_square_ = dst
             /\ m.piece_moving_ = k /\ m.move_type_ = type
  BY <1>2 DEF Move, MoveSet
<1>3. CASE m \in append_pseudolegal_pawn_moves(b, side)
  <2>1. PICK src \in pawns(b, side), dst \in Square, type \in MoveType :
          m = Move(src, dst, "pawn", type) /\ PawnCan(b, side, src, dst, type)
    BY <1>3, PawnsCan
  <2>2. /\ m \in MoveSet
        /\ m.src_square_ = src /\ m.dst_square_ = dst
        /\ m.piece_moving_ = "pawn" /\ m.move_type_ = type
    BY <1>1, <1>2, <2>1
  <2> QED BY <2>1, <2>2 DEF pawns
<1>4. CASE m \notin append_pseudolegal_pawn_moves(b, side)
  <2>1. PICK k \in Piece \ {"pawn"}, src \in Square, dst \in Square :
          Aims(b, p, side, k, src, dst) /\ m = simple_or_capture(b, side, src, dst, k)
    BY <1>4, OfficersAim
  <2> DEFINE type == IF dst \in enemies(b, side) THEN "capture" ELSE "simple"
  <2>2. m = Move(src, dst, k, type) /\ type \in MoveType
    BY <1>1, <2>1 DEF simple_or_capture
  <2> HIDE DEF type
  <2>3. /\ m \in MoveSet
        /\ m.src_square_ = src /\ m.dst_square_ = dst
        /\ m.piece_moving_ = k /\ m.move_type_ = type
    BY <1>1, <1>2, <2>1, <2>2
  <2>4. m.src_square_ \in pieces(b, side, m.piece_moving_)
    BY <2>1, <2>3 DEF Aims
  <2> QED BY <2>1, <2>2, <2>3, <2>4 DEF type
<1> QED BY <1>3, <1>4

\* The pawn that an en passant capture takes stands beside the one that takes it.
LEMMA TakenBeside ==
  ASSUME NEW b, WellFormed(b), NEW src \in Square, NEW dst \in b.en_passant_square_,
         Aslant(b.side_to_move, src, dst)
  PROVE  \E v \in Square : /\ enemy_pawn_square(dst) = {v}
                           /\ SquareAt(v) = <<file_idx(dst), rank_idx(src)>>
<1> DEFINE jumper == flip_color(b.side_to_move)
           v == dst + 8 * up(jumper)
<1>1. b \in BoardType /\ EnPassantSound(b) /\ b.side_to_move \in Color
  BY DEF WellFormed, BoardType
<1>2. dst \in Square /\ v \in Square /\ enemy_pawn_square(dst) = {v} /\ rank_idx(dst) \in {2, 5}
  BY <1>1, EnPassantVictim
<1>3. rank_idx(dst) = rank_idx(src) + Chess!Up(b.side_to_move)
  BY DEF Aslant
<1>4. rank_idx(src) \in 0..7
  BY Coordinates
<1>5. CASE b.side_to_move = "white"
  <2>1. v = dst - 8 /\ Chess!Up(b.side_to_move) = 1
    BY <1>2, <1>5 DEF up, flip_color, Chess!Up, Square, board_size
  <2>2. file_idx(v) = file_idx(dst) /\ rank_idx(v) = rank_idx(dst) - 1
    BY <1>2, <2>1 DEF file_idx, rank_idx, Square, board_size
  <2>3. rank_idx(v) = rank_idx(src)
    BY <1>3, <1>4, <2>1, <2>2
  <2> QED BY <1>2, <2>2, <2>3 DEF SquareAt
<1>6. CASE b.side_to_move = "black"
  <2>1. v = dst + 8 /\ Chess!Up(b.side_to_move) = -1
    BY <1>2, <1>6 DEF up, flip_color, Chess!Up, Square, board_size
  <2>2. file_idx(v) = file_idx(dst) /\ rank_idx(v) = rank_idx(dst) + 1
    BY <1>2, <2>1 DEF file_idx, rank_idx, Square, board_size
  <2>3. rank_idx(v) = rank_idx(src)
    BY <1>3, <1>4, <2>1, <2>2
  <2> QED BY <1>2, <2>2, <2>3 DEF SquareAt
<1> QED BY <1>1, <1>5, <1>6 DEF Color


\* do_en_passant_move takes what the rules take, and no other move does.
LEMMA TakenAgrees ==
  ASSUME WellFormed(board), NEW m \in pseudolegal_moves(board, board.side_to_move),
         NEW p, Depicts(p, board.bb)
  PROVE  Chess!TakenEnPassant(p, SquareAt(m.src_square_), SquareAt(m.dst_square_))
           = {SquareAt(v) : v \in Taken(m)}
<1> DEFINE side == board.side_to_move
           src == m.src_square_
           dst == m.dst_square_
           ep == board.en_passant_square_
<1>1. board \in BoardType /\ EnPassantSound(board) /\ side \in Color /\ ep \subseteq Square
  BY DEF WellFormed, BoardType, Bitboard
<1>2. /\ m \in MoveSet /\ src \in pieces(board, side, m.piece_moving_)
      /\ m.piece_moving_ = "pawn" => PawnCan(board, side, src, dst, m.move_type_)
      /\ m.piece_moving_ # "pawn" => m.move_type_ \in {"capture", "simple"}
  BY <1>1, PseudolegalForms
<1>3. src \in Square /\ dst \in Square /\ m.piece_moving_ \in Piece
  BY <1>2 DEF MoveSet
<1>4. p[SquareAt(src)][2] = m.piece_moving_
  BY <1>1, <1>2, <1>3, Depicted
<1>5. SquareAt(dst) \in {SquareAt(sq) : sq \in ep} <=> dst \in ep
  BY <1>1, <1>3, SquaresCorrespond
<1>6. Chess!TakenEnPassant(p, SquareAt(src), SquareAt(dst))
        = IF m.piece_moving_ = "pawn" /\ dst \in ep /\ file_idx(src) # file_idx(dst)
          THEN {<<file_idx(dst), rank_idx(src)>>} ELSE {}
  <2>1. /\ SquareAt(src)[1] = file_idx(src) /\ SquareAt(src)[2] = rank_idx(src)
        /\ SquareAt(dst)[1] = file_idx(dst)
    BY <1>3, SquaresCorrespond
  <2> QED BY <1>4, <1>5, <2>1 DEF Chess!TakenEnPassant
<1>7. \A sq \in ep : sq \notin all_pieces(board)
  BY <1>1, EnPassantVictim
<1>8. enemies(board, side) \subseteq all_pieces(board)
  BY <1>1 DEF enemies, all_pieces, flip_color, Color
<1>9. CASE m.move_type_ = "en_passant"
  <2>1. m.piece_moving_ = "pawn" /\ dst \in ep /\ Aslant(side, src, dst)
    BY <1>2, <1>9 DEF PawnCan, promotion_move_types
  <2>2. file_idx(src) # file_idx(dst)
    <3>1. Chess!Abs(file_idx(dst) - file_idx(src)) = 1 /\ file_idx(dst) \in 0..7 /\ file_idx(src) \in 0..7
      BY <1>3, <2>1, Coordinates DEF Aslant
    <3> QED BY <3>1 DEF Chess!Abs
  <2>3. PICK v \in Square : enemy_pawn_square(dst) = {v} /\ SquareAt(v) = <<file_idx(dst), rank_idx(src)>>
    BY <1>3, <2>1, TakenBeside
  <2>4. Taken(m) = {v}
    BY <1>9, <2>3 DEF Taken
  <2> QED BY <1>6, <2>1, <2>2, <2>3, <2>4
<1>10. CASE m.move_type_ # "en_passant"
  <2>1. Taken(m) = {}
    BY <1>10 DEF Taken
  <2>2. ASSUME m.piece_moving_ = "pawn", dst \in ep
        PROVE  file_idx(src) = file_idx(dst)
    <3>1. PawnCan(board, side, src, dst, m.move_type_) /\ dst \notin enemies(board, side)
      BY <1>2, <1>7, <1>8, <2>2
    <3>2. \/ Ahead(side, src, dst)
          \/ \E mid \in Square : Ahead(side, src, mid) /\ Ahead(side, mid, dst)
      BY <1>10, <3>1 DEF PawnCan
    <3> QED BY <3>2 DEF Ahead
  <2> QED BY <1>6, <2>1, <2>2
<1> QED BY <1>9, <1>10

\* do_move has the effect on the position that the rules give to the move.
LEMMA EffectAgrees ==
  ASSUME WellFormed(board), NEW m \in pseudolegal_moves(board, board.side_to_move)
  PROVE  Mailbox(do_move(board, m))
           = Chess!After(Mailbox(board), SquareAt(m.src_square_), SquareAt(m.dst_square_), PromotionOf(m))
<1> DEFINE side == board.side_to_move
           src == m.src_square_
           dst == m.dst_square_
           b2 == do_move(board, m)
           p == Mailbox(board)
           q == Mailbox(b2)
           after == Chess!After(p, SquareAt(src), SquareAt(dst), PromotionOf(m))
<1>1. board \in BoardType /\ PiecesDisjoint(board) /\ side \in Color /\ PawnsOffBackRanks(board)
  BY DEF WellFormed, BoardType
<1>2. MoveFacts(board, m)
  BY PseudolegalFacts
<1>3. b2 \in BoardType /\ PiecesDisjoint(b2) /\ BitboardsAfter(board, m, b2.bb)
  BY <1>1, <1>2, AfterMove
<1>4. /\ Movable(board, m) /\ Placed(m) \in Piece /\ Taken(m) \subseteq pawns(board, flip_color(side))
      /\ m \in MoveSet /\ src \in Square /\ dst \in Square /\ m.piece_moving_ \in Piece
  BY <1>2 DEF MoveFacts, Movable, MoveSet
<1>5. Depicts(p, board.bb) /\ Depicts(q, b2.bb) /\ q = [s \in Chess!Squares |-> q[s]]
  BY <1>1, <1>3, MailboxDepicts
<1>6. src \in pieces(board, side, m.piece_moving_) /\ p[SquareAt(src)] = <<side, m.piece_moving_>>
  <2>1. src \in pieces(board, side, m.piece_moving_)
    BY <1>4 DEF Movable
  <2> QED BY <1>1, <1>4, <1>5, <2>1, Depicted
<1>7. /\ PromotionOf(m) = "none" => Placed(m) = m.piece_moving_
      /\ PromotionOf(m) # "none" => Placed(m) = PromotionOf(m)
  <2>1. m.move_type_ \in promotion_move_types => promoted_piece(m.move_type_) \in Piece
    BY PromotedPiece
  <2>2. "none" \notin Piece
    BY DEF Piece
  <2> QED BY <2>1, <2>2 DEF PromotionOf, Placed
<1>8. Chess!TakenEnPassant(p, SquareAt(src), SquareAt(dst)) = {SquareAt(v) : v \in Taken(m)}
  BY <1>5, TakenAgrees
<1>9. Taken(m) \subseteq Square
  BY <1>1, <1>4, FlipColor DEF pawns, pieces, BoardType, BitboardArray, Bitboard, Piece
<1>10. after = [u \in Chess!Squares |->
                  IF u = SquareAt(dst) THEN <<side, Placed(m)>>
                  ELSE IF u = SquareAt(src) \/ u \in {SquareAt(v) : v \in Taken(m)} THEN Chess!Empty
                  ELSE p[u]]
  BY <1>6, <1>7, <1>8 DEF Chess!After
<1>11. ASSUME NEW sq \in Square
       PROVE  q[SquareAt(sq)] = IF sq = dst THEN <<side, Placed(m)>>
                                ELSE IF sq = src \/ sq \in Taken(m) THEN Chess!Empty
                                ELSE p[SquareAt(sq)]
  <2>1. \A x \in Color \X Piece :
          b2.bb[x] = (board.bb[x] \ ({src, dst} \cup Taken(m)))
                       \cup (IF x = <<side, Placed(m)>> THEN {dst} ELSE {})
    BY <1>3 DEF BitboardsAfter
  <2>2. /\ \A cp \in Color \X Piece : sq \in b2.bb[cp] => q[SquareAt(sq)] = cp
        /\ ~occupied(b2.bb, sq) => q[SquareAt(sq)] = Chess!Empty
        /\ \A cp \in Color \X Piece : sq \in board.bb[cp] => p[SquareAt(sq)] = cp
        /\ ~occupied(board.bb, sq) => p[SquareAt(sq)] = Chess!Empty
    BY <1>5 DEF Depicts
  <2>3. <<side, Placed(m)>> \in Color \X Piece
    BY <1>1, <1>4
  <2> HIDE DEF src, dst, p, q, b2, side
  <2>4. CASE sq = dst
    BY <2>1, <2>2, <2>3, <2>4
  <2>5. CASE sq # dst /\ (sq = src \/ sq \in Taken(m))
    BY <2>1, <2>2, <2>5 DEF occupied
  <2>6. CASE sq # dst /\ sq # src /\ sq \notin Taken(m)
    <3>1. \A x \in Color \X Piece : sq \in b2.bb[x] <=> sq \in board.bb[x]
      BY <2>1, <2>6
    <3>2. CASE occupied(board.bb, sq)
      BY <2>2, <2>6, <3>1, <3>2 DEF occupied
    <3>3. CASE ~occupied(board.bb, sq)
      BY <2>2, <2>6, <3>1, <3>3 DEF occupied
    <3> QED BY <3>2, <3>3
  <2> QED BY <2>4, <2>5, <2>6
<1>12. ASSUME NEW sq \in Square PROVE q[SquareAt(sq)] = after[SquareAt(sq)]
  <2>1. /\ SquareAt(sq) \in Chess!Squares
        /\ SquareAt(sq) = SquareAt(dst) <=> sq = dst
        /\ SquareAt(sq) = SquareAt(src) <=> sq = src
        /\ SquareAt(sq) \in {SquareAt(v) : v \in Taken(m)} <=> sq \in Taken(m)
    BY <1>4, <1>9, SquaresCorrespond
  <2> HIDE DEF src, dst, p, q, b2, side, after
  <2> QED BY <1>10, <1>11, <2>1
<1> HIDE DEF q, after, p, src, dst, side
<1>13. \A s \in Chess!Squares : q[s] = after[s]
  BY <1>12, SquaresCorrespond
<1>14. q = [s \in Chess!Squares |-> q[s]] /\ after = [s \in Chess!Squares |-> after[s]]
  BY <1>5, <1>10
<1>15. q = after
  BY <1>13, <1>14
<1> QED BY <1>15 DEF q, after, p, src, dst, side


\* The squares between two squares of a line are on the board.
LEMMA BetweenIsOnTheBoard ==
  ASSUME NEW s \in Chess!Squares, NEW t \in Chess!Squares,
         Chess!OnFileOrRank(s, t) \/ Chess!OnDiagonal(s, t),
         NEW k \in 1..((IF Chess!Sign(t[1] - s[1]) # 0 THEN Chess!Abs(t[1] - s[1])
                                                      ELSE Chess!Abs(t[2] - s[2])) - 1)
  PROVE  <<s[1] + k * Chess!Sign(t[1] - s[1]), s[2] + k * Chess!Sign(t[2] - s[2])>> \in Chess!Squares
<1> DEFINE f == s[1]
           r == s[2]
           g == t[1]
           q == t[2]
<1>1. f \in 0..7 /\ r \in 0..7 /\ g \in 0..7 /\ q \in 0..7 /\ s = <<f, r>> /\ t = <<g, q>>
  BY DEF Chess!Squares
<1>2. \/ f = g /\ r # q
      \/ f # g /\ r = q
      \/ f # g /\ Chess!Abs(g - f) = Chess!Abs(q - r)
  <2>1. Chess!OnFileOrRank(s, t) => (f = g /\ r # q) \/ (f # g /\ r = q)
    BY DEF Chess!OnFileOrRank
  <2>2. Chess!OnDiagonal(s, t) => f # g /\ Chess!Abs(g - f) = Chess!Abs(q - r)
    <3>1. Chess!OnDiagonal(s, t) => (f # g \/ r # q) /\ Chess!Abs(g - f) = Chess!Abs(q - r)
      BY <1>1 DEF Chess!OnDiagonal
    <3> HIDE DEF f, r, g, q
    <3> QED BY <1>1, <3>1 DEF Chess!Abs
  <2> QED BY <2>1, <2>2
<1>3. k \in 1..((IF Chess!Sign(g - f) # 0 THEN Chess!Abs(g - f) ELSE Chess!Abs(q - r)) - 1)
  OBVIOUS
<1> HIDE DEF f, r, g, q
<1>4. f + k * Chess!Sign(g - f) \in 0..7
  <2>1. CASE g > f
    BY <1>1, <1>3, <2>1 DEF Chess!Sign, Chess!Abs
  <2>2. CASE g < f
    BY <1>1, <1>3, <2>2 DEF Chess!Sign, Chess!Abs
  <2>3. CASE g = f
    BY <1>1, <1>3, <2>3 DEF Chess!Sign, Chess!Abs
  <2> QED BY <1>1, <2>1, <2>2, <2>3
<1>5. r + k * Chess!Sign(q - r) \in 0..7
  <2>1. CASE q > r
    BY <1>1, <1>2, <1>3, <2>1 DEF Chess!Sign, Chess!Abs
  <2>2. CASE q < r
    BY <1>1, <1>2, <1>3, <2>2 DEF Chess!Sign, Chess!Abs
  <2>3. CASE q = r
    BY <1>1, <1>2, <1>3, <2>3 DEF Chess!Sign, Chess!Abs
  <2> QED BY <1>1, <2>1, <2>2, <2>3
<1> QED BY <1>4, <1>5 DEF Chess!Squares, f, r, g, q

\* On the square t, p and q may have different men of the same side c, but not its king.
SameButKind(p, q, c) ==
  \A s \in Chess!Squares :
    \/ p[s] = q[s]
    \/ /\ p[s][1] = c /\ p[s] # Chess!Empty /\ p[s] # <<c, "king">>
       /\ q[s][1] = c /\ q[s] # Chess!Empty /\ q[s] # <<c, "king">>

\* It makes no difference to the checks on c's king what kind its other men are.
LEMMA KindsDoNotMatter ==
  ASSUME NEW p, NEW q, NEW c \in Color, SameButKind(p, q, c), Chess!InCheck(p, c)
  PROVE  Chess!InCheck(q, c)
<1> DEFINE enemy == Chess!Opponent(c)
<1>1. enemy # c
  BY DEF Chess!Opponent, Color
<1>2. \A s \in Chess!Squares : /\ p[s] = Chess!Empty => q[s] = Chess!Empty
                               /\ p[s] = <<c, "king">> => q[s] = <<c, "king">>
                               /\ p[s][1] = enemy => q[s] = p[s]
  BY <1>1 DEF SameButKind
<1>3. ASSUME NEW s \in Chess!Squares, NEW t \in Chess!Squares,
             Chess!OnFileOrRank(s, t) \/ Chess!OnDiagonal(s, t), Chess!Open(p, s, t)
      PROVE  Chess!Open(q, s, t)
  <2> DEFINE n == IF Chess!Sign(t[1] - s[1]) # 0 THEN Chess!Abs(t[1] - s[1])
                                                 ELSE Chess!Abs(t[2] - s[2])
             x(k) == <<s[1] + k * Chess!Sign(t[1] - s[1]), s[2] + k * Chess!Sign(t[2] - s[2])>>
  <2>1. \A k \in 1..(n - 1) : x(k) \in Chess!Squares
    BY <1>3, BetweenIsOnTheBoard
  <2>2. \A u \in {p, q} : Chess!Open(u, s, t) <=> \A k \in 1..(n - 1) : u[x(k)] = Chess!Empty
    BY DEF Chess!Open
  <2> HIDE DEF n, x
  <2> QED BY <1>2, <1>3, <2>1, <2>2
<1>4. ASSUME NEW s \in Chess!Squares, NEW t \in Chess!Squares, p[s][1] = enemy, Chess!Attacks(p, s, t)
      PROVE  Chess!Attacks(q, s, t)
  <2>1. q[s] = p[s]
    BY <1>2, <1>4
  <2> QED BY <1>3, <1>4, <2>1 DEF Chess!Attacks
<1>5. PICK t \in Chess!Squares : p[t] = <<c, "king">> /\ Chess!Attacked(p, enemy, t)
  BY DEF Chess!InCheck
<1>6. PICK s \in Chess!Squares : p[s][1] = enemy /\ Chess!Attacks(p, s, t)
  BY <1>5 DEF Chess!Attacked
<1>7. q[s][1] = enemy /\ Chess!Attacks(q, s, t) /\ q[t] = <<c, "king">>
  BY <1>2, <1>4, <1>5, <1>6
<1> HIDE DEF enemy
<1>8. Chess!Attacked(q, enemy, t)
  BY <1>7 DEF Chess!Attacked
<1> QED BY <1>7, <1>8 DEF Chess!InCheck, enemy


\* is_pseudolegal_move_legal keeps the moves that do not leave the king in check.
LEMMA FilterAgrees ==
  ASSUME WellFormed(board), NEW m \in pseudolegal_moves(board, board.side_to_move)
  PROVE  is_pseudolegal_move_legal(board, m)
           <=> ~Chess!InCheck(Chess!After(Mailbox(board), SquareAt(m.src_square_),
                                          SquareAt(m.dst_square_), "none"), board.side_to_move)
<1> DEFINE side == board.side_to_move
           s == SquareAt(m.src_square_)
           t == SquareAt(m.dst_square_)
           b2 == do_move(board, m)
           p == Mailbox(board)
           after(pr) == Chess!After(p, s, t, pr)
<1>1. board \in BoardType /\ PiecesDisjoint(board) /\ side \in Color
  BY DEF WellFormed, BoardType
<1>2. MoveFacts(board, m) /\ m \in MoveSet
  BY PseudolegalFacts DEF MoveFacts, Movable
<1>3. b2 \in BoardType /\ PiecesDisjoint(b2)
  BY <1>1, <1>2, AfterMove
<1>4. Depicts(p, board.bb) /\ Depicts(Mailbox(b2), b2.bb)
  BY <1>1, <1>3, MailboxDepicts
<1>5. is_pseudolegal_move_legal(board, m) <=> ~Chess!InCheck(after(PromotionOf(m)), side)
  <2>1. is_king_attacked(b2, side) <=> Chess!InCheck(Mailbox(b2), side)
    BY <1>1, <1>3, <1>4, CheckIsSeen
  <2>2. Mailbox(b2) = after(PromotionOf(m))
    BY EffectAgrees
  <2> QED BY <2>1, <2>2 DEF is_pseudolegal_move_legal
<1>6. CASE m.move_type_ \notin promotion_move_types
  BY <1>5, <1>6 DEF PromotionOf
<1>7. CASE m.move_type_ \in promotion_move_types
  <2> DEFINE pr == PromotionOf(m)
  <2>1. pr \in Piece \ {"pawn", "king"} /\ pr # "none"
    BY <1>7, PromotedPiece DEF PromotionOf, Piece
  <2>2. p[s] = <<side, "pawn">>
    <3>1. m.piece_moving_ = "pawn" /\ m.src_square_ \in pieces(board, side, "pawn")
      BY <1>1, <1>4, <1>7, PseudolegalForms DEF promotion_move_types
    <3> QED BY <1>1, <1>2, <1>4, <3>1, Depicted DEF MoveSet, Piece
  <2>3. ASSUME NEW u \in Chess!Squares
        PROVE  \/ after(pr)[u] = after("none")[u]
               \/ after(pr)[u] = <<side, pr>> /\ after("none")[u] = <<side, "pawn">>
    BY <2>1, <2>2 DEF Chess!After
  <2> HIDE DEF after, pr
  <2>4. \A k \in {pr, "pawn"} : /\ <<side, k>>[1] = side /\ <<side, k>> # Chess!Empty
                                /\ <<side, k>> # <<side, "king">>
    BY <1>1, <2>1 DEF Chess!Empty, Color
  <2>5. SameButKind(after(pr), after("none"), side) /\ SameButKind(after("none"), after(pr), side)
    BY <2>3, <2>4 DEF SameButKind
  <2>6. Chess!InCheck(after(pr), side) <=> Chess!InCheck(after("none"), side)
    BY <1>1, <2>5, KindsDoNotMatter
  <2> QED BY <1>5, <2>6 DEF after, pr
<1> QED BY <1>6, <1>7

-----------------------------------------------------------------------------
(* Pseudolegal moves are the moves the rules call reachable. *)

\* Where a pawn that has started stands.
LEMMA PawnRanks ==
  ASSUME NEW side \in Color, NEW src \in Square
  PROVE  /\ src \in two_step_mask(side)
              <=> rank_idx(src) = Chess!FirstRank(side) + Chess!Up(side)
         /\ src \in promotion_mask(side)
              <=> rank_idx(src) + Chess!Up(side) = Chess!FirstRank(Chess!Opponent(side))
<1>1. rank_idx(src) \in 0..7
  BY Coordinates
<1>2. CASE side = "white"
  BY <1>1, <1>2 DEF two_step_mask, promotion_mask, second_rank_mask, seventh_rank_mask, rank_mask,
                    Chess!FirstRank, Chess!Up, Chess!Opponent
<1>3. CASE side = "black"
  BY <1>1, <1>3 DEF two_step_mask, promotion_mask, second_rank_mask, seventh_rank_mask, rank_mask,
                    Chess!FirstRank, Chess!Up, Chess!Opponent
<1> QED BY <1>2, <1>3 DEF Color

\* The conditions of the rules on a pawn move, in terms of the Bitboards.
PawnMay(b, side, src, dst) ==
  \/ Ahead(side, src, dst) /\ dst \notin all_pieces(b)
  \/ /\ src \in two_step_mask(side)
     /\ \E mid \in Square \ all_pieces(b) : Ahead(side, src, mid) /\ Ahead(side, mid, dst)
     /\ dst \notin all_pieces(b)
  \/ Aslant(side, src, dst) /\ (dst \in enemies(b, side) \/ dst \in b.en_passant_square_)

LEMMA PawnMayIsReaches ==
  ASSUME WellFormed(board), NEW src \in pawns(board, board.side_to_move), NEW dst \in Square
  PROVE  Chess!PawnReaches(Mailbox(board), SquareAt(src), SquareAt(dst))
           <=> PawnMay(board, board.side_to_move, src, dst)
<1> DEFINE side == board.side_to_move
           p == Mailbox(board)
           up1 == Chess!Up(side)
           f == file_idx(src)
           r == rank_idx(src)
           g == file_idx(dst)
           q == rank_idx(dst)
<1>1. /\ board \in BoardType /\ PiecesDisjoint(board) /\ side \in Color /\ src \in Square
      /\ PawnsOffBackRanks(board) /\ board.en_passant_square_ \subseteq Square
  BY DEF WellFormed, BoardType, pawns, pieces, BitboardArray, Bitboard, Piece
<1>2. Depicts(p, board.bb)
  BY <1>1, MailboxDepicts
<1>3. f \in 0..7 /\ r \in 1..6 /\ g \in 0..7 /\ q \in 0..7 /\ up1 \in {-1, 1} /\ r + up1 \in 0..7
  <2>1. r \in 1..6
    BY <1>1 DEF PawnsOffBackRanks
  <2>2. up1 \in {-1, 1}
    BY DEF Chess!Up
  <2> HIDE DEF f, r, g, q, up1
  <2> QED BY <1>1, <2>1, <2>2, Coordinates DEF f, r, g, q
<1>4. SquareAt(src) = <<f, r>> /\ SquareAt(dst) = <<g, q>>
  BY <1>1, SquaresCorrespond
<1> DEFINE mid == coordinates_to_square(f, r + up1)
<1>5. mid \in Square /\ SquareAt(mid) = <<f, r + up1>>
  <2> HIDE DEF f, r, up1
  <2> QED BY <1>3, SquaresCorrespond
<1>6. \A x \in Square : p[SquareAt(x)] = Chess!Empty <=> x \notin all_pieces(board)
  BY <1>2, Depicted
<1>7. \A x \in Square : p[SquareAt(x)][1] = Chess!Opponent(side) <=> x \in enemies(board, side)
  <2>1. Chess!Opponent(side) = flip_color(side) /\ flip_color(side) \in Color
    BY <1>1, FlipColor DEF Chess!Opponent, flip_color
  <2>2. \A c \in Color, x \in Square : p[SquareAt(x)][1] = c <=> x \in friends(board, c)
    BY <1>2, Depicted
  <2> QED BY <2>1, <2>2 DEF enemies
<1>8. SquareAt(dst) \in {SquareAt(sq) : sq \in board.en_passant_square_}
        <=> dst \in board.en_passant_square_
  BY <1>1, SquaresCorrespond
<1>9. Chess!Attacks(p, SquareAt(src), SquareAt(dst)) <=> Aslant(side, src, dst)
  BY <1>1, <1>2, PawnsAttack
<1>10. src \in two_step_mask(side) <=> r = Chess!FirstRank(side) + up1
  BY <1>1, PawnRanks
<1>11. SquareAt(dst) = <<f, r + up1>> <=> Ahead(side, src, dst)
  BY <1>4 DEF Ahead
<1>12. ASSUME NEW x \in Square
       PROVE  Ahead(side, src, x) <=> x = mid
  <2>1. Ahead(side, src, x) <=> SquareAt(x) = <<f, r + up1>>
    <3>1. SquareAt(x) = <<file_idx(x), rank_idx(x)>>
      BY SquaresCorrespond
    <3> QED BY <3>1 DEF Ahead
  <2> HIDE DEF mid, f, r, up1
  <2> QED BY <1>5, <2>1, SquaresCorrespond
<1>13. SquareAt(dst) = <<f, r + 2 * up1>> <=> Ahead(side, mid, dst)
  <2>1. file_idx(mid) = f /\ rank_idx(mid) = r + up1
    <3> HIDE DEF f, r, up1, mid
    <3>1. SquareAt(mid)[1] = file_idx(mid) /\ SquareAt(mid)[2] = rank_idx(mid)
      BY <1>5, SquaresCorrespond
    <3> QED BY <1>5, <3>1
  <2>2. Ahead(side, mid, dst) <=> g = f /\ q = r + up1 + up1
    BY <2>1 DEF Ahead
  <2>3. r + up1 + up1 = r + 2 * up1
    <3> HIDE DEF r, up1
    <3> QED BY <1>3
  <2> QED BY <1>4, <2>2, <2>3
<1>14. Chess!PawnReaches(p, SquareAt(src), SquareAt(dst))
         <=> \/ SquareAt(dst) = <<f, r + up1>> /\ p[SquareAt(dst)] = Chess!Empty
             \/ /\ r = Chess!FirstRank(side) + up1
                /\ SquareAt(dst) = <<f, r + 2 * up1>>
                /\ p[<<f, r + up1>>] = Chess!Empty
                /\ p[SquareAt(dst)] = Chess!Empty
             \/ /\ Chess!Attacks(p, SquareAt(src), SquareAt(dst))
                /\ \/ p[SquareAt(dst)][1] = Chess!Opponent(side)
                   \/ SquareAt(dst) \in {SquareAt(sq) : sq \in board.en_passant_square_}
  <2>1. SquareAt(src)[1] = f /\ SquareAt(src)[2] = r
    BY <1>4
  <2> QED BY <2>1 DEF Chess!PawnReaches
<1> HIDE DEF f, r, up1, p, mid, side
<1>15. p[<<f, r + up1>>] = Chess!Empty <=> mid \notin all_pieces(board)
  BY <1>5, <1>6
<1>16. (\E x \in Square \ all_pieces(board) : Ahead(side, src, x) /\ Ahead(side, x, dst))
         <=> mid \notin all_pieces(board) /\ Ahead(side, mid, dst)
  BY <1>5, <1>12
<1>17. Chess!PawnReaches(p, SquareAt(src), SquareAt(dst)) <=> PawnMay(board, side, src, dst)
  BY <1>6, <1>7, <1>8, <1>9, <1>10, <1>11, <1>13, <1>14, <1>15, <1>16 DEF PawnMay
<1> QED BY <1>17 DEF p, side


\* A pawn's ways of moving exclude one another.
LEMMA PawnWays ==
  ASSUME NEW side \in Color, NEW src \in Square, NEW dst \in Square
  PROVE  LET two == \E mid \in Square : Ahead(side, src, mid) /\ Ahead(side, mid, dst)
         IN  /\ Ahead(side, src, dst) => ~Aslant(side, src, dst) /\ ~two
             /\ two => ~Aslant(side, src, dst) /\ rank_idx(dst) = rank_idx(src) + 2 * Chess!Up(side)
<1> DEFINE u == Chess!Up(side)
           f == file_idx(src)
           r == rank_idx(src)
           g == file_idx(dst)
           q == rank_idx(dst)
<1>1. f \in 0..7 /\ r \in 0..7 /\ g \in 0..7 /\ q \in 0..7
  BY Coordinates
<1>2. u \in {-1, 1}
  BY DEF Chess!Up
<1>3. Aslant(side, src, dst) => f # g /\ q = r + u
  <2>1. Aslant(side, src, dst) => Chess!Abs(g - f) = 1 /\ q = r + u
    BY DEF Aslant
  <2> HIDE DEF f, g, q, r, u
  <2> QED BY <1>1, <2>1 DEF Chess!Abs
<1>4. Ahead(side, src, dst) => f = g /\ q = r + u
  BY DEF Ahead
<1>5. ASSUME NEW mid \in Square, Ahead(side, src, mid), Ahead(side, mid, dst)
      PROVE  f = g /\ q = r + 2 * u
  <2>1. file_idx(mid) = f /\ rank_idx(mid) = r + u /\ g = file_idx(mid) /\ q = rank_idx(mid) + u
    BY <1>5 DEF Ahead
  <2> HIDE DEF f, g, q, r, u
  <2> QED BY <1>1, <1>2, <2>1
<1>6. r + 2 * u # r + u
  <2> HIDE DEF r, u
  <2> QED BY <1>1, <1>2
<1> HIDE DEF f, g
<1> QED BY <1>3, <1>4, <1>5, <1>6

\* A pawn reaches the last rank from the rank of promotions, and neither by a
\* jump nor en passant.
LEMMA PawnArrivals ==
  ASSUME NEW b, WellFormed(b), NEW src \in Square, NEW dst \in Square,
         PawnMay(b, b.side_to_move, src, dst)
  PROVE  LET side == b.side_to_move
         IN  /\ rank_idx(dst) = Chess!FirstRank(Chess!Opponent(side)) <=> src \in promotion_mask(side)
             /\ src \in promotion_mask(side) =>
                  /\ src \notin two_step_mask(side)
                  /\ Aslant(side, src, dst) => dst \notin b.en_passant_square_
<1> DEFINE side == b.side_to_move
           u == Chess!Up(side)
           r == rank_idx(src)
           q == rank_idx(dst)
           last == Chess!FirstRank(Chess!Opponent(side))
<1>1. b \in BoardType /\ EnPassantSound(b) /\ side \in Color
  BY DEF WellFormed, BoardType
<1>2. r \in 0..7 /\ q \in 0..7
  BY Coordinates
<1>3. /\ src \in two_step_mask(side) <=> r = Chess!FirstRank(side) + u
      /\ src \in promotion_mask(side) <=> r + u = last
  BY <1>1, PawnRanks
<1>4. \/ q = r + u
      \/ src \in two_step_mask(side) /\ q = r + 2 * u
  BY <1>1, PawnWays DEF PawnMay, Ahead, Aslant
<1>5. \/ side = "white" /\ u = 1 /\ last = 7 /\ Chess!FirstRank(side) = 0
      \/ side = "black" /\ u = -1 /\ last = 0 /\ Chess!FirstRank(side) = 7
  BY <1>1 DEF Color, Chess!Up, Chess!Opponent, Chess!FirstRank
<1>6. dst \in b.en_passant_square_ => q = IF side = "black" THEN 2 ELSE 5
  <2>1. dst \in b.en_passant_square_ => q = IF flip_color(side) = "white" THEN 2 ELSE 5
    BY <1>1, EnPassantVictim
  <2> QED BY <1>1, <2>1 DEF flip_color, Color
<1>7. Aslant(side, src, dst) => q = r + u
  BY DEF Aslant
<1> HIDE DEF u, r, q, last, side
<1>8. q = last <=> src \in promotion_mask(side)
  BY <1>2, <1>3, <1>4, <1>5
<1>9. src \in promotion_mask(side) => src \notin two_step_mask(side)
  BY <1>2, <1>3, <1>5
<1>10. src \in promotion_mask(side) /\ Aslant(side, src, dst) => dst \notin b.en_passant_square_
  BY <1>2, <1>3, <1>5, <1>6, <1>7
<1> QED BY <1>8, <1>9, <1>10 DEF q, last, side

\* What a move of the type puts in place of the pawn, or "none".
Promotion(type) == IF type \in promotion_move_types THEN promoted_piece(type) ELSE "none"

LEMMA PromotionsAreOfficers ==
  /\ \A type \in promotion_move_types : Promotion(type) \in Chess!Officers
  /\ \A o \in Chess!Officers : \E type \in promotion_move_types : Promotion(type) = o
  /\ \A x, y \in promotion_move_types : Promotion(x) = Promotion(y) => x = y
  /\ "none" \notin Chess!Officers
<1>1. /\ Promotion("promotion_to_rook") = "rook"
      /\ Promotion("promotion_to_bishop") = "bishop"
      /\ Promotion("promotion_to_knight") = "knight"
      /\ Promotion("promotion_to_queen") = "queen"
  BY DEF Promotion, promoted_piece, promotion_move_types
<1>2. promotion_move_types = {"promotion_to_rook", "promotion_to_bishop",
                              "promotion_to_knight", "promotion_to_queen"}
  BY DEF promotion_move_types
<1> QED BY <1>1, <1>2 DEF Chess!Officers

\* Of the five append_pseudolegal_* functions for pawns exactly one makes the move,
\* four times when it is a promotion.
LEMMA PawnTypes ==
  ASSUME NEW b, WellFormed(b), NEW src \in Square, NEW dst \in Square
  PROVE  LET side == b.side_to_move
             Can(type) == PawnCan(b, side, src, dst, type)
             choices == IF src \in promotion_mask(side) THEN Chess!Officers ELSE {"none"}
         IN  /\ \A type \in MoveType : Can(type) =>
                  PawnMay(b, side, src, dst) /\ Promotion(type) \in choices
             /\ PawnMay(b, side, src, dst) =>
                  \A pr \in choices : \E type \in MoveType : Can(type) /\ Promotion(type) = pr
             /\ \A x, y \in MoveType : Can(x) /\ Can(y) /\ Promotion(x) = Promotion(y) => x = y
<1> DEFINE side == b.side_to_move
           Can(type) == PawnCan(b, side, src, dst, type)
           choices == IF src \in promotion_mask(side) THEN Chess!Officers ELSE {"none"}
           A == Ahead(side, src, dst)
           S == Aslant(side, src, dst)
           T == \E mid \in Square \ all_pieces(b) : Ahead(side, src, mid) /\ Ahead(side, mid, dst)
           E == dst \in b.en_passant_square_
           F == dst \in all_pieces(b)
           V == dst \in enemies(b, side)
           P == src \in promotion_mask(side)
           J == src \in two_step_mask(side)
<1>1. b \in BoardType /\ EnPassantSound(b) /\ side \in Color
  BY DEF WellFormed, BoardType
<1>2. (A => ~S /\ ~T) /\ (T => ~S)
  BY <1>1, PawnWays
<1>3. V => F
  BY <1>1 DEF enemies, all_pieces, flip_color, Color
<1>4. E => ~F
  BY <1>1, EnPassantVictim
<1>5. PawnMay(b, side, src, dst) <=> (A /\ ~F) \/ (J /\ T /\ ~F) \/ (S /\ (V \/ E))
  BY DEF PawnMay
<1>6. PawnMay(b, side, src, dst) /\ P => ~J /\ (S => ~E)
  BY PawnArrivals
<1>7. \A type : Can(type)
        <=> \/ type = "simple" /\ ~P /\ A /\ ~F
            \/ type = "two_step_pawn" /\ J /\ T /\ ~F
            \/ type = "capture" /\ ~P /\ S /\ V
            \/ type = "en_passant" /\ E /\ S
            \/ type \in promotion_move_types /\ P /\ ((A /\ ~F) \/ (S /\ V))
  BY DEF PawnCan
<1>8. /\ \A type \in {"simple", "two_step_pawn", "capture", "en_passant"} :
           type \notin promotion_move_types /\ type \in MoveType /\ Promotion(type) = "none"
      /\ promotion_move_types \subseteq MoveType
  BY DEF promotion_move_types, MoveType, Promotion
<1> HIDE DEF Can, A, S, T, E, F, V, J, P
<1>9. choices = IF P THEN Chess!Officers ELSE {"none"}
  BY DEF P
<1> HIDE DEF choices
<1>10. ASSUME NEW type \in MoveType, Can(type)
       PROVE  PawnMay(b, side, src, dst) /\ Promotion(type) \in choices
  <2>1. PawnMay(b, side, src, dst)
    BY <1>5, <1>7, <1>10
  <2>2. type \in promotion_move_types <=> P
    BY <1>6, <1>7, <1>8, <1>10, <2>1
  <2>3. type \notin promotion_move_types => Promotion(type) = "none"
    BY DEF Promotion
  <2> QED BY <1>9, <2>1, <2>2, <2>3, PromotionsAreOfficers
<1>11. ASSUME PawnMay(b, side, src, dst), NEW pr \in choices
       PROVE  \E type \in MoveType : Can(type) /\ Promotion(type) = pr
  <2>1. CASE P
    <3>1. PICK type \in promotion_move_types : Promotion(type) = pr
      BY <1>9, <2>1, PromotionsAreOfficers
    <3>2. (A /\ ~F) \/ (S /\ V)
      BY <1>5, <1>6, <1>11, <2>1
    <3>3. Can(type) /\ type \in MoveType
      BY <1>7, <1>8, <2>1, <3>2
    <3> QED BY <3>1, <3>3
  <2>2. CASE ~P
    <3>1. pr = "none"
      BY <1>9, <2>2
    <3>2. Can("simple") \/ Can("two_step_pawn") \/ Can("capture") \/ Can("en_passant")
      BY <1>5, <1>7, <1>11, <2>2
    <3> QED BY <1>8, <3>1, <3>2
  <2> QED BY <2>1, <2>2
<1>12. ASSUME NEW x \in MoveType, NEW y \in MoveType, Can(x), Can(y), Promotion(x) = Promotion(y)
       PROVE  x = y
  <2>1. PawnMay(b, side, src, dst)
    BY <1>10, <1>12
  <2>2. CASE P
    BY <1>6, <1>7, <1>12, <2>1, <2>2, PromotionsAreOfficers
  <2>3. CASE ~P
    BY <1>2, <1>3, <1>4, <1>7, <1>12, <2>3
  <2> QED BY <2>2, <2>3
<1> QED BY <1>10, <1>11, <1>12 DEF Can, choices


\* Reaches and Promotions for the man on a square of a Bitboard.
LEMMA ReachesByKind ==
  ASSUME WellFormed(board), NEW k \in Piece, NEW src \in Square, NEW dst \in Square,
         src \in pieces(board, board.side_to_move, k)
  PROVE  LET side == board.side_to_move
             p == Mailbox(board)
             s == SquareAt(src)
             t == SquareAt(dst)
         IN  /\ p[s] = <<side, k>>
             /\ k = "pawn" => /\ Chess!Reaches(p, s, t) <=> PawnMay(board, side, src, dst)
                              /\ Chess!Reaches(p, s, t) =>
                                   Chess!Promotions(p, s, t)
                                     = IF src \in promotion_mask(side) THEN Chess!Officers ELSE {"none"}
             /\ k # "pawn" => /\ Chess!Reaches(p, s, t) <=> Aims(board, p, side, k, src, dst)
                              /\ Chess!Promotions(p, s, t) = {"none"}
<1> DEFINE side == board.side_to_move
           p == Mailbox(board)
           s == SquareAt(src)
           t == SquareAt(dst)
<1>1. board \in BoardType /\ PiecesDisjoint(board) /\ side \in Color
  BY DEF WellFormed, BoardType
<1>2. Depicts(p, board.bb)
  BY <1>1, MailboxDepicts
<1>3. p[s] = <<side, k>> /\ p[s][2] = k
  BY <1>1, <1>2, Depicted
<1>4. p[t][1] # side <=> dst \notin friends(board, side)
  BY <1>1, <1>2, Depicted
<1>5. t[2] = rank_idx(dst)
  BY SquaresCorrespond
<1>6. ASSUME k = "pawn"
      PROVE  /\ Chess!Reaches(p, s, t) <=> PawnMay(board, side, src, dst)
             /\ Chess!Reaches(p, s, t) =>
                  Chess!Promotions(p, s, t)
                    = IF src \in promotion_mask(side) THEN Chess!Officers ELSE {"none"}
  <2>1. Chess!Reaches(p, s, t) <=> Chess!PawnReaches(p, s, t)
    BY <1>3, <1>6 DEF Chess!Reaches
  <2>2. Chess!PawnReaches(p, s, t) <=> PawnMay(board, side, src, dst)
    BY <1>6, PawnMayIsReaches DEF pawns
  <2>3. PawnMay(board, side, src, dst) =>
          (rank_idx(dst) = Chess!FirstRank(Chess!Opponent(side)) <=> src \in promotion_mask(side))
    BY PawnArrivals
  <2>4. Chess!Promotions(p, s, t)
          = IF rank_idx(dst) = Chess!FirstRank(Chess!Opponent(side)) THEN Chess!Officers ELSE {"none"}
    BY <1>3, <1>5, <1>6 DEF Chess!Promotions
  <2> QED BY <2>1, <2>2, <2>3, <2>4
<1>7. ASSUME k # "pawn"
      PROVE  /\ Chess!Reaches(p, s, t) <=> Aims(board, p, side, k, src, dst)
             /\ Chess!Promotions(p, s, t) = {"none"}
  <2>1. Chess!Reaches(p, s, t) <=> Chess!Attacks(p, s, t) /\ p[t][1] # side
    BY <1>3, <1>7 DEF Chess!Reaches
  <2>2. Chess!Promotions(p, s, t) = {"none"}
    BY <1>3, <1>7 DEF Chess!Promotions
  <2> QED BY <1>4, <2>1, <2>2 DEF Aims
<1> QED BY <1>3, <1>6, <1>7

\* A pseudolegal move is one the rules allow but for checks.
LEMMA PseudolegalReaches ==
  ASSUME WellFormed(board), NEW m \in pseudolegal_moves(board, board.side_to_move)
  PROVE  LET p == Mailbox(board)
             s == SquareAt(m.src_square_)
             t == SquareAt(m.dst_square_)
         IN  /\ s \in Chess!Squares /\ t \in Chess!Squares
             /\ p[s] = <<board.side_to_move, m.piece_moving_>>
             /\ p[t][1] # board.side_to_move
             /\ Chess!Reaches(p, s, t)
             /\ PromotionOf(m) \in Chess!Promotions(p, s, t)
<1> DEFINE side == board.side_to_move
           p == Mailbox(board)
           src == m.src_square_
           dst == m.dst_square_
           k == m.piece_moving_
<1>1. board \in BoardType /\ PiecesDisjoint(board) /\ side \in Color
  BY DEF WellFormed, BoardType
<1>2. Depicts(p, board.bb)
  BY <1>1, MailboxDepicts
<1>3. /\ m \in MoveSet /\ src \in pieces(board, side, k)
      /\ \/ k = "pawn" /\ PawnCan(board, side, src, dst, m.move_type_)
         \/ /\ k # "pawn" /\ Aims(board, p, side, k, src, dst)
            /\ m.move_type_ = IF dst \in enemies(board, side) THEN "capture" ELSE "simple"
  BY <1>1, <1>2, PseudolegalForms
<1>4. src \in Square /\ dst \in Square /\ k \in Piece /\ m.move_type_ \in MoveType
  BY <1>3 DEF MoveSet
<1>5. SquareAt(src) \in Chess!Squares /\ SquareAt(dst) \in Chess!Squares
  BY <1>4, SquaresCorrespond
<1>6. p[SquareAt(dst)][1] # side
  <2>1. dst \notin friends(board, side)
    BY PseudolegalFacts DEF MoveFacts, Movable
  <2> QED BY <1>1, <1>2, <1>4, <2>1, Depicted
<1>7. PromotionOf(m) = Promotion(m.move_type_)
  BY DEF PromotionOf, Promotion
<1>8. CASE k = "pawn"
  <2>1. /\ PawnMay(board, side, src, dst)
        /\ Promotion(m.move_type_)
             \in IF src \in promotion_mask(side) THEN Chess!Officers ELSE {"none"}
    BY <1>3, <1>4, <1>8, PawnTypes
  <2> QED BY <1>3, <1>4, <1>5, <1>6, <1>7, <1>8, <2>1, ReachesByKind
<1>9. CASE k # "pawn"
  <2>1. Promotion(m.move_type_) = "none"
    BY <1>3, <1>9 DEF Promotion, promotion_move_types
  <2> QED BY <1>3, <1>4, <1>5, <1>6, <1>7, <1>9, <2>1, ReachesByKind
<1> QED BY <1>8, <1>9

\* And every move the rules allow but for checks is a pseudolegal move.
LEMMA ReachesIsPseudolegal ==
  ASSUME WellFormed(board), NEW s \in Chess!Squares, NEW t \in Chess!Squares,
         Mailbox(board)[s][1] = board.side_to_move,
         Chess!Reaches(Mailbox(board), s, t),
         NEW pr \in Chess!Promotions(Mailbox(board), s, t)
  PROVE  \E m \in pseudolegal_moves(board, board.side_to_move) : RulesMove(m) = <<s, t, pr>>
<1> DEFINE side == board.side_to_move
           p == Mailbox(board)
<1>1. board \in BoardType /\ PiecesDisjoint(board) /\ side \in Color
  BY DEF WellFormed, BoardType
<1>2. Depicts(p, board.bb)
  BY <1>1, MailboxDepicts
<1>3. PICK src \in Square, dst \in Square : s = SquareAt(src) /\ t = SquareAt(dst)
  BY SquaresCorrespond
<1>4. PICK k \in Piece : src \in pieces(board, side, k)
  <2>1. src \in friends(board, side)
    BY <1>1, <1>2, <1>3, Depicted
  <2> QED BY <2>1, Friends DEF pieces
<1>5. CASE k = "pawn"
  <2>1. /\ PawnMay(board, side, src, dst)
        /\ pr \in IF src \in promotion_mask(side) THEN Chess!Officers ELSE {"none"}
    BY <1>3, <1>4, <1>5, ReachesByKind
  <2>2. PICK type \in MoveType : PawnCan(board, side, src, dst, type) /\ Promotion(type) = pr
    BY <2>1, PawnTypes
  <2> DEFINE m == Move(src, dst, "pawn", type)
  <2>3. m \in append_pseudolegal_pawn_moves(board, side)
    BY <1>1, <1>4, <1>5, <2>2, PawnsCan DEF pawns
  <2>4. m \in pseudolegal_moves(board, side)
    BY <2>3 DEF pseudolegal_moves
  <2>5. m.src_square_ = src /\ m.dst_square_ = dst /\ m.move_type_ = type
    BY DEF Move
  <2>6. RulesMove(m) = <<s, t, pr>>
    BY <1>3, <2>2, <2>5 DEF RulesMove, PromotionOf, Promotion
  <2> QED BY <2>4, <2>6
<1>6. CASE k # "pawn"
  <2> DEFINE m == simple_or_capture(board, side, src, dst, k)
  <2>1. Aims(board, p, side, k, src, dst) /\ pr = "none"
    BY <1>3, <1>4, <1>6, ReachesByKind
  <2>2. m \in pseudolegal_moves(board, side)
    BY <1>1, <1>2, <1>6, <2>1, OfficersAim
  <2>3. m.src_square_ = src /\ m.dst_square_ = dst /\ m.move_type_ \in {"capture", "simple"}
    BY DEF Move, simple_or_capture
  <2>4. RulesMove(m) = <<s, t, pr>>
    BY <1>3, <2>1, <2>3 DEF RulesMove, PromotionOf, promotion_move_types
  <2> QED BY <2>2, <2>4
<1> QED BY <1>5, <1>6

\* No two pseudolegal moves are the same move of the rules.
LEMMA PseudolegalOnce ==
  ASSUME WellFormed(board), NEW m \in pseudolegal_moves(board, board.side_to_move),
         NEW n \in pseudolegal_moves(board, board.side_to_move), RulesMove(m) = RulesMove(n)
  PROVE  m = n
<1> DEFINE side == board.side_to_move
           p == Mailbox(board)
           Form(x) ==
             /\ x \in MoveSet
             /\ x = Move(x.src_square_, x.dst_square_, x.piece_moving_, x.move_type_)
             /\ x.src_square_ \in pieces(board, side, x.piece_moving_)
             /\ \/ /\ x.piece_moving_ = "pawn"
                   /\ PawnCan(board, side, x.src_square_, x.dst_square_, x.move_type_)
                \/ /\ x.piece_moving_ # "pawn"
                   /\ x.move_type_ = IF x.dst_square_ \in enemies(board, side) THEN "capture" ELSE "simple"
<1>1. board \in BoardType /\ PiecesDisjoint(board) /\ side \in Color
  BY DEF WellFormed, BoardType
<1>2. Depicts(p, board.bb)
  BY <1>1, MailboxDepicts
<1>3. Form(m) /\ Form(n)
  BY <1>1, <1>2, PseudolegalForms
<1>4. SquareAt(m.src_square_) = SquareAt(n.src_square_) /\ SquareAt(m.dst_square_) = SquareAt(n.dst_square_)
      /\ PromotionOf(m) = PromotionOf(n)
  BY DEF RulesMove
<1>5. /\ m.src_square_ \in Square /\ m.dst_square_ \in Square /\ m.piece_moving_ \in Piece
      /\ n.src_square_ \in Square /\ n.dst_square_ \in Square /\ n.piece_moving_ \in Piece
      /\ m.move_type_ \in MoveType /\ n.move_type_ \in MoveType
  BY <1>3 DEF MoveSet
<1>6. m.src_square_ = n.src_square_ /\ m.dst_square_ = n.dst_square_
  BY <1>4, <1>5, SquaresCorrespond
<1>7. m.piece_moving_ = n.piece_moving_
  <2>1. /\ p[SquareAt(m.src_square_)] = <<side, m.piece_moving_>>
        /\ p[SquareAt(n.src_square_)] = <<side, n.piece_moving_>>
    BY PseudolegalReaches
  <2> QED BY <1>4, <2>1
<1>8. Promotion(m.move_type_) = Promotion(n.move_type_)
  BY <1>4 DEF PromotionOf, Promotion
<1>9. m.move_type_ = n.move_type_
  <2>1. CASE m.piece_moving_ = "pawn"
    <3>1. /\ PawnCan(board, side, m.src_square_, m.dst_square_, m.move_type_)
          /\ PawnCan(board, side, m.src_square_, m.dst_square_, n.move_type_)
      BY <1>3, <1>6, <1>7, <2>1
    <3> QED BY <1>5, <1>8, <3>1, PawnTypes
  <2>2. CASE m.piece_moving_ # "pawn"
    BY <1>3, <1>6, <1>7, <2>2
  <2> QED BY <2>1, <2>2
<1> QED BY <1>3, <1>6, <1>7, <1>9


-----------------------------------------------------------------------------
(* Castling. *)

\* The squares of the first rank.
LEMMA HomeRank ==
  ASSUME NEW side \in Color, NEW file \in 0..7
  PROVE  /\ home_square(side, file) \in Square
         /\ SquareAt(home_square(side, file)) = <<file, Chess!FirstRank(side)>>
         /\ file_idx(home_square(side, file)) = file
         /\ rank_idx(home_square(side, file)) = Chess!FirstRank(side)
<1>1. Chess!FirstRank(side) \in 0..7
      /\ home_square(side, file) = coordinates_to_square(file, Chess!FirstRank(side))
  BY DEF home_square, Chess!FirstRank
<1> HIDE DEF Chess!FirstRank
<1> QED BY <1>1, SquaresCorrespond, Coordinates

\* A pawn that can be pushed to the first rank of the other side attacks the
\* squares beside the one it would be pushed to.
LEMMA PushAttacksBeside ==
  ASSUME NEW b \in BoardType, NEW p, Depicts(p, b.bb), NEW side \in Color,
         NEW f \in 0..7, NEW g \in 0..7, g = f + 1 \/ g = f - 1,
         PushedTo(b, flip_color(side), home_square(side, f))
  PROVE  Chess!Attacked(p, flip_color(side), SquareAt(home_square(side, g)))
<1> DEFINE enemy == flip_color(side)
           u == Chess!Up(enemy)
           first == Chess!FirstRank(side)
           to == home_square(side, f)
           beside == home_square(side, g)
<1>1. enemy \in Color
  BY FlipColor
<1>2. pawns(b, enemy) \subseteq Square
  BY <1>1 DEF pawns, pieces, BoardType, BitboardArray, Bitboard, Piece
<1>3. PICK src \in pawns(b, enemy) :
        \/ Ahead(enemy, src, to)
        \/ src \in two_step_mask(enemy) /\ \E mid \in Square : Ahead(enemy, src, mid) /\ Ahead(enemy, mid, to)
  BY DEF PushedTo
<1>4. /\ to \in Square /\ file_idx(to) = f /\ rank_idx(to) = first
      /\ beside \in Square /\ file_idx(beside) = g /\ rank_idx(beside) = first
  BY HomeRank
<1>5. /\ src \in two_step_mask(enemy) <=> rank_idx(src) = Chess!FirstRank(enemy) + u
  BY <1>1, <1>2, PawnRanks
<1>6. \/ first = 0 /\ u = -1 /\ Chess!FirstRank(enemy) = 7
      \/ first = 7 /\ u = 1 /\ Chess!FirstRank(enemy) = 0
  BY DEF Chess!FirstRank, Chess!Up, flip_color, Color
<1>7. Ahead(enemy, src, to)
  <2>1. ASSUME NEW mid \in Square, Ahead(enemy, src, mid), Ahead(enemy, mid, to), src \in two_step_mask(enemy)
        PROVE  FALSE
    <3>1. rank_idx(to) = rank_idx(src) + 2 * u
      BY <1>1, <1>2, <1>4, <2>1, PawnWays
    <3> HIDE DEF u, first
    <3> QED BY <1>4, <1>5, <1>6, <2>1, <3>1
  <2> QED BY <1>3, <2>1
<1>8. file_idx(src) = f /\ first = rank_idx(src) + u
  BY <1>4, <1>7 DEF Ahead
<1>9. Aslant(enemy, src, beside)
  <2>1. Chess!Abs(g - f) = 1
    BY DEF Chess!Abs
  <2> QED BY <1>4, <1>8, <2>1 DEF Aslant
<1>10. Chess!Attacks(p, SquareAt(src), SquareAt(beside))
  BY <1>1, <1>2, <1>4, <1>9, PawnsAttack
<1> QED BY <1>1, <1>2, <1>4, <1>10, AttackedBySomeone DEF pawns, Piece

\* Squares f and g lie between the king and the rook, f beside the king: asking
\* attack_squares for them, pawn pushes and all, is asking whether they are attacked.
LEMMA CastleSquares ==
  ASSUME NEW b \in BoardType, NEW p, Depicts(p, b.bb), NEW side \in Color,
         NEW f \in 0..7, NEW g \in 0..7,
         (f = 5 /\ g = 6) \/ (f = 3 /\ g = 2),
         home_square(side, f) \notin all_pieces(b), home_square(side, g) \notin all_pieces(b),
         ~Chess!Attacked(p, flip_color(side), SquareAt(home_square(side, 4)))
  PROVE  {home_square(side, f), home_square(side, g)} \cap attack_squares(b, flip_color(side)) = {}
           <=> /\ ~Chess!Attacked(p, flip_color(side), SquareAt(home_square(side, f)))
               /\ ~Chess!Attacked(p, flip_color(side), SquareAt(home_square(side, g)))
<1> DEFINE enemy == flip_color(side)
           H(file) == home_square(side, file)
           Att(file) == Chess!Attacked(p, enemy, SquareAt(H(file)))
<1>1. enemy \in Color
  BY FlipColor
<1>2. friends(b, enemy) \subseteq all_pieces(b)
  BY <1>1 DEF all_pieces, Color
<1>3. ASSUME NEW x \in {f, g}
      PROVE  /\ Att(x) => H(x) \in attack_squares(b, enemy)
             /\ H(x) \in attack_squares(b, enemy) => Att(x) \/ PushedTo(b, enemy, H(x))
  <2>1. x \in 0..7 /\ H(x) \in Square /\ H(x) \notin friends(b, enemy)
    BY <1>2, HomeRank
  <2> QED BY <1>1, <2>1, AttackSquaresAre
<1>4. PushedTo(b, enemy, H(f)) => Att(4)
  <2>1. 4 \in 0..7 /\ (4 = f + 1 \/ 4 = f - 1)
    OBVIOUS
  <2> QED BY <2>1, PushAttacksBeside
<1>5. PushedTo(b, enemy, H(g)) => Att(f)
  <2>1. f = g + 1 \/ f = g - 1
    OBVIOUS
  <2> QED BY <2>1, PushAttacksBeside
<1> HIDE DEF Att
<1>6. ~Att(4)
  BY DEF Att
<1>7. {H(f), H(g)} \cap attack_squares(b, enemy) = {} <=> ~Att(f) /\ ~Att(g)
  BY <1>3, <1>4, <1>5, <1>6
<1> QED BY <1>7 DEF Att

\* The line from the king's square to a corner is open.
LEMMA CornerOpen ==
  ASSUME NEW b, NEW p, Depicts(p, b.bb), NEW side \in Color
  PROVE  LET king == <<4, Chess!FirstRank(side)>>
             H(file) == home_square(side, file)
         IN  /\ Chess!Open(p, king, <<7, Chess!FirstRank(side)>>)
                  <=> {H(5), H(6)} \cap all_pieces(b) = {}
             /\ Chess!Open(p, king, <<0, Chess!FirstRank(side)>>)
                  <=> {H(3), H(2), H(1)} \cap all_pieces(b) = {}
<1> DEFINE first == Chess!FirstRank(side)
           H(file) == home_square(side, file)
<1>1. first \in 0..7
  BY DEF Chess!FirstRank
<1>2. ASSUME NEW file \in 0..7
      PROVE  p[<<file, first>>] = Chess!Empty <=> H(file) \notin all_pieces(b)
  <2>1. H(file) \in Square /\ SquareAt(H(file)) = <<file, first>>
    BY HomeRank
  <2>2. p[SquareAt(H(file))] = Chess!Empty <=> H(file) \notin all_pieces(b)
    BY <2>1, Depicted
  <2> QED BY <2>1, <2>2
<1> HIDE DEF first
<1>3. Chess!Open(p, <<4, first>>, <<7, first>>)
        <=> \A k \in 1..2 : p[<<4 + k, first>>] = Chess!Empty
  <2>1. Chess!Sign(7 - 4) = 1 /\ Chess!Sign(first - first) = 0 /\ Chess!Abs(7 - 4) = 3
    BY <1>1 DEF Chess!Sign, Chess!Abs
  <2>2. Chess!Open(p, <<4, first>>, <<7, first>>)
          <=> \A k \in 1..(3 - 1) : p[<<4 + k * 1, first + k * 0>>] = Chess!Empty
    BY <2>1 DEF Chess!Open
  <2>3. \A k \in 1..(3 - 1) : 4 + k * 1 = 4 + k /\ first + k * 0 = first
    BY <1>1
  <2>4. 1..(3 - 1) = 1..2
    OBVIOUS
  <2> QED BY <2>2, <2>3, <2>4
<1>4. Chess!Open(p, <<4, first>>, <<0, first>>)
        <=> \A k \in 1..3 : p[<<4 - k, first>>] = Chess!Empty
  <2>1. Chess!Sign(0 - 4) = -1 /\ Chess!Sign(first - first) = 0 /\ Chess!Abs(0 - 4) = 4
    <3>1. \A n, d \in Int : n < d => Chess!Sign(n - d) = -1 /\ Chess!Abs(n - d) = d - n
      BY DEF Chess!Sign, Chess!Abs
    <3>2. 0 \in Int /\ 4 \in Int /\ 0 < 4 /\ 4 - 0 = 4
      OBVIOUS
    <3>3. Chess!Sign(0 - 4) = -1 /\ Chess!Abs(0 - 4) = 4
      BY <3>1, <3>2
    <3>4. Chess!Sign(first - first) = 0
      BY <1>1 DEF Chess!Sign
    <3> QED BY <3>3, <3>4
  <2>2. Chess!Open(p, <<4, first>>, <<0, first>>)
          <=> \A k \in 1..(4 - 1) : p[<<4 + k * (-1), first + k * 0>>] = Chess!Empty
    BY <2>1 DEF Chess!Open
  <2>3. \A k \in 1..(4 - 1) : 4 + k * (-1) = 4 - k /\ first + k * 0 = first
    BY <1>1
  <2>4. 1..(4 - 1) = 1..3
    OBVIOUS
  <2> QED BY <2>2, <2>3, <2>4
<1>5. 1..2 = {1, 2} /\ 1..3 = {1, 2, 3}
  OBVIOUS
<1>6. (\A k \in 1..2 : p[<<4 + k, first>>] = Chess!Empty) <=> {H(5), H(6)} \cap all_pieces(b) = {}
  <2>1. (\A k \in 1..2 : p[<<4 + k, first>>] = Chess!Empty)
          <=> p[<<5, first>>] = Chess!Empty /\ p[<<6, first>>] = Chess!Empty
    BY <1>5
  <2>2. /\ p[<<5, first>>] = Chess!Empty <=> H(5) \notin all_pieces(b)
        /\ p[<<6, first>>] = Chess!Empty <=> H(6) \notin all_pieces(b)
    BY <1>2
  <2> QED BY <2>1, <2>2
<1>7. (\A k \in 1..3 : p[<<4 - k, first>>] = Chess!Empty)
        <=> {H(3), H(2), H(1)} \cap all_pieces(b) = {}
  <2>1. (\A k \in 1..3 : p[<<4 - k, first>>] = Chess!Empty)
          <=> /\ p[<<3, first>>] = Chess!Empty
              /\ p[<<2, first>>] = Chess!Empty
              /\ p[<<1, first>>] = Chess!Empty
    BY <1>5
  <2>2. /\ p[<<3, first>>] = Chess!Empty <=> H(3) \notin all_pieces(b)
        /\ p[<<2, first>>] = Chess!Empty <=> H(2) \notin all_pieces(b)
        /\ p[<<1, first>>] = Chess!Empty <=> H(1) \notin all_pieces(b)
    BY <1>2
  <2> QED BY <2>1, <2>2
<1> QED BY <1>3, <1>4, <1>6, <1>7 DEF first


\* The flags of the side to move are its rights in the rules.
LEMMA RightsAgree ==
  ASSUME NEW castling \in SUBSET Right, NEW side \in Color
  PROVE  /\ <<side, 7>> \in {RightAt(r) : r \in castling} <=> kingside(side) \in castling
         /\ <<side, 0>> \in {RightAt(r) : r \in castling} <=> queenside(side) \in castling
<1>1. /\ RightAt("K") = <<"white", 7>> /\ RightAt("Q") = <<"white", 0>>
      /\ RightAt("k") = <<"black", 7>> /\ RightAt("q") = <<"black", 0>>
  <2>1. /\ file_idx(home_square("white", 7)) = 7 /\ file_idx(home_square("white", 0)) = 0
        /\ file_idx(home_square("black", 7)) = 7 /\ file_idx(home_square("black", 0)) = 0
    BY HomeRank DEF Color
  <2> QED BY <2>1 DEF RightAt, rook_home, right_side
<1>2. Right = {"K", "Q", "k", "q"}
  BY DEF Right
<1>3. CASE side = "white"
  <2>1. kingside(side) = "K" /\ queenside(side) = "Q"
    BY <1>3 DEF kingside, queenside
  <2> QED BY <1>1, <1>2, <1>3, <2>1
<1>4. CASE side = "black"
  <2>1. kingside(side) = "k" /\ queenside(side) = "q"
    BY <1>4 DEF kingside, queenside
  <2> QED BY <1>1, <1>2, <1>4, <2>1
<1> QED BY <1>3, <1>4 DEF Color

\* A right of a side means that its king is on the e file, and only there.
LEMMA RightsHome ==
  ASSUME NEW b, WellFormed(b), NEW side \in Color,
         kingside(side) \in b.castling \/ queenside(side) \in b.castling
  PROVE  pieces(b, side, "king") = {home_square(side, 4)}
<1>1. PICK r \in b.castling : r = kingside(side) \/ r = queenside(side)
  OBVIOUS
<1>2. right_side(r) = side
  BY <1>1 DEF right_side, kingside, queenside, Color
<1>3. home_square(side, 4) \in pieces(b, side, "king")
  BY <1>1, <1>2 DEF WellFormed, CastlingRightsSound, king_home
<1>4. is_square(pieces(b, side, "king"))
  BY DEF WellFormed, OneKingEach
<1> QED BY <1>3, <1>4 DEF is_square

\* The king of the side to move, at home, is in check exactly when its square is attacked.
LEMMA KingFromAttacked ==
  ASSUME NEW b \in BoardType, PiecesDisjoint(b), NEW p, Depicts(p, b.bb), NEW side \in Color,
         pieces(b, side, "king") = {home_square(side, 4)}
  PROVE  is_king_attacked(b, side)
           <=> Chess!Attacked(p, flip_color(side), SquareAt(home_square(side, 4)))
<1> DEFINE k == home_square(side, 4)
<1>1. k \in Square /\ flip_color(side) \in Color
  BY HomeRank, FlipColor
<1>2. k \in friends(b, side) /\ k \in all_pieces(b)
  BY Friends, AllPieces DEF pieces, Piece, occupied
<1>3. k \notin friends(b, flip_color(side))
  BY <1>2, SidesDisjoint DEF enemies
<1>4. ~PushedTo(b, flip_color(side), k)
  BY <1>2 DEF PushedTo
<1>5. k \in attack_squares(b, flip_color(side)) <=> Chess!Attacked(p, flip_color(side), SquareAt(k))
  BY <1>1, <1>3, <1>4, AttackSquaresAre
<1> QED BY <1>5 DEF is_king_attacked

\* is_castle_kingside_legal and is_castle_queenside_legal decide as the rules do.
LEMMA CastlingAgrees ==
  ASSUME WellFormed(board)
  PROVE  /\ is_castle_kingside_legal(board) <=> Chess!MayCastle(7)
         /\ is_castle_queenside_legal(board) <=> Chess!MayCastle(0)
<1> DEFINE side == board.side_to_move
           enemy == flip_color(side)
           p == Mailbox(board)
           H(file) == home_square(side, file)
           Att(file) == Chess!Attacked(p, enemy, SquareAt(H(file)))
           first == Chess!FirstRank(side)
<1>1. board \in BoardType /\ PiecesDisjoint(board) /\ side \in Color /\ board.castling \in SUBSET Right
  BY DEF WellFormed, BoardType
<1>2. Depicts(p, board.bb)
  BY <1>1, MailboxDepicts
<1>3. Chess!Opponent(side) = enemy
  BY DEF Chess!Opponent, flip_color
<1>4. \A file \in 0..7 : SquareAt(H(file)) = <<file, first>>
  BY <1>1, HomeRank
<1>5. ASSUME kingside(side) \in board.castling \/ queenside(side) \in board.castling
      PROVE  is_king_attacked(board, side) <=> Att(4)
  <2>1. pieces(board, side, "king") = {H(4)}
    BY <1>1, <1>5, RightsHome
  <2> QED BY <1>1, <1>2, <2>1, KingFromAttacked
<1>6. /\ Chess!MayCastle(7) <=> /\ kingside(side) \in board.castling
                                /\ {H(5), H(6)} \cap all_pieces(board) = {}
                                /\ ~Att(4) /\ ~Att(5) /\ ~Att(6)
      /\ Chess!MayCastle(0) <=> /\ queenside(side) \in board.castling
                                /\ {H(3), H(2), H(1)} \cap all_pieces(board) = {}
                                /\ ~Att(4) /\ ~Att(3) /\ ~Att(2)
  <2>1. /\ Chess!KingFrom = SquareAt(H(4)) /\ Chess!KingFrom = <<4, first>>
        /\ Chess!RookTo(7) = SquareAt(H(5)) /\ Chess!KingTo(7) = SquareAt(H(6))
        /\ Chess!RookTo(0) = SquareAt(H(3)) /\ Chess!KingTo(0) = SquareAt(H(2))
    BY <1>4 DEF Chess!KingFrom, Chess!RookTo, Chess!KingTo
  <2>2. /\ Chess!Open(p, <<4, first>>, <<7, first>>) <=> {H(5), H(6)} \cap all_pieces(board) = {}
        /\ Chess!Open(p, <<4, first>>, <<0, first>>) <=> {H(3), H(2), H(1)} \cap all_pieces(board) = {}
    BY <1>1, <1>2, CornerOpen
  <2>3. /\ <<side, 7>> \in {RightAt(r) : r \in board.castling} <=> kingside(side) \in board.castling
        /\ <<side, 0>> \in {RightAt(r) : r \in board.castling} <=> queenside(side) \in board.castling
    BY <1>1, RightsAgree
  <2>4. \A corner \in {0, 7} :
          Chess!MayCastle(corner)
            <=> /\ <<side, corner>> \in {RightAt(r) : r \in board.castling}
                /\ Chess!Open(p, Chess!KingFrom, <<corner, first>>)
                /\ ~Chess!Attacked(p, enemy, Chess!KingFrom)
                /\ ~Chess!Attacked(p, enemy, Chess!RookTo(corner))
                /\ ~Chess!Attacked(p, enemy, Chess!KingTo(corner))
    BY <1>3 DEF Chess!MayCastle
  <2> HIDE DEF p, enemy, first
  <2> QED BY <2>1, <2>2, <2>3, <2>4
<1>7. ASSUME {H(5), H(6)} \cap all_pieces(board) = {}, ~Att(4)
      PROVE  {H(5), H(6)} \cap attack_squares(board, enemy) = {} <=> ~Att(5) /\ ~Att(6)
  BY <1>1, <1>2, <1>7, CastleSquares
<1>8. ASSUME {H(3), H(2)} \cap all_pieces(board) = {}, ~Att(4)
      PROVE  {H(3), H(2)} \cap attack_squares(board, enemy) = {} <=> ~Att(3) /\ ~Att(2)
  BY <1>1, <1>2, <1>8, CastleSquares
<1>9. is_castle_kingside_legal(board)
        <=> /\ kingside(side) \in board.castling /\ ~is_king_attacked(board, side)
            /\ {H(5), H(6)} \cap all_pieces(board) = {}
            /\ {H(5), H(6)} \cap attack_squares(board, enemy) = {}
  BY DEF is_castle_kingside_legal, has_right_to_castle
<1>10. is_castle_queenside_legal(board)
        <=> /\ queenside(side) \in board.castling /\ ~is_king_attacked(board, side)
            /\ {H(3), H(2), H(1)} \cap all_pieces(board) = {}
            /\ {H(3), H(2)} \cap attack_squares(board, enemy) = {}
  BY DEF is_castle_queenside_legal, has_right_to_castle
<1> HIDE DEF Att, H, enemy
<1>11. {H(3), H(2), H(1)} \cap all_pieces(board) = {} => {H(3), H(2)} \cap all_pieces(board) = {}
  OBVIOUS
<1>12. is_castle_kingside_legal(board) <=> Chess!MayCastle(7)
  BY <1>5, <1>6, <1>7, <1>9
<1>13. is_castle_queenside_legal(board) <=> Chess!MayCastle(0)
  BY <1>5, <1>6, <1>8, <1>10, <1>11
<1> QED BY <1>12, <1>13


\* The castling moves are the rules'.
LEMMA CastlingMovesAgree ==
  ASSUME WellFormed(board)
  PROVE  {RulesMove(m) : m \in append_castling_moves(board)} = Chess!Castlings
<1> DEFINE side == board.side_to_move
           K == castle_kingside_move(side)
           Q == castle_queenside_move(side)
<1>1. side \in Color
  BY DEF WellFormed, BoardType
<1>2. /\ SquareAt(home_square(side, 4)) = Chess!KingFrom
      /\ SquareAt(home_square(side, 6)) = Chess!KingTo(7)
      /\ SquareAt(home_square(side, 2)) = Chess!KingTo(0)
  BY <1>1, HomeRank DEF Chess!KingFrom, Chess!KingTo
<1>3. RulesMove(K) = <<Chess!KingFrom, Chess!KingTo(7), "none">>
  BY <1>2 DEF castle_kingside_move, Move, RulesMove, PromotionOf, promotion_move_types
<1>4. RulesMove(Q) = <<Chess!KingFrom, Chess!KingTo(0), "none">>
  BY <1>2 DEF castle_queenside_move, Move, RulesMove, PromotionOf, promotion_move_types
<1>5. append_castling_moves(board) = (IF Chess!MayCastle(7) THEN {K} ELSE {})
                                       \cup (IF Chess!MayCastle(0) THEN {Q} ELSE {})
  BY CastlingAgrees DEF append_castling_moves
<1>6. Chess!Castlings = { <<Chess!KingFrom, Chess!KingTo(corner), "none">> :
                            corner \in {c \in {0, 7} : Chess!MayCastle(c)} }
  BY DEF Chess!Castlings
<1> HIDE DEF K, Q
<1> QED BY <1>3, <1>4, <1>5, <1>6

\* The moves that pass the filter are the ordinary moves of the rules.
LEMMA OrdinaryMovesAgree ==
  ASSUME WellFormed(board)
  PROVE  {RulesMove(m) : m \in {n \in pseudolegal_moves(board, board.side_to_move) :
                                  is_pseudolegal_move_legal(board, n)}} = Chess!OrdinaryMoves
<1> DEFINE side == board.side_to_move
           p == Mailbox(board)
           Stays(s, t) == ~Chess!InCheck(Chess!After(p, s, t, "none"), side)
           kept == {n \in pseudolegal_moves(board, side) : is_pseudolegal_move_legal(board, n)}
<1>1. \A x : x \in Chess!OrdinaryMoves
        <=> \E s, t \in Chess!Squares : \E pr \in Chess!Promotions(p, s, t) :
              /\ p[s][1] = side /\ Chess!Reaches(p, s, t) /\ Stays(s, t)
              /\ x = <<s, t, pr>>
  <2> DEFINE G(s, t) == Chess!Reaches(p, s, t) /\ Stays(s, t)
             Pr(s, t) == Chess!Promotions(p, s, t)
             From == {s \in Chess!Squares : p[s][1] = side}
             fromTo == {x \in From \X Chess!Squares : G(x[1], x[2])}
             Moves(s, t) == {<<s, t, pr>> : pr \in Pr(s, t)}
  <2>1. Chess!OrdinaryMoves = UNION {Moves(x[1], x[2]) : x \in fromTo}
    BY DEF Chess!OrdinaryMoves
  <2> HIDE DEF G, Pr, From
  <2>2. \A s, t : <<s, t>> \in fromTo <=> s \in From /\ t \in Chess!Squares /\ G(s, t)
    OBVIOUS
  <2>3. \A y \in fromTo : y = <<y[1], y[2]>>
    OBVIOUS
  <2> HIDE DEF Moves, fromTo
  <2>4. \A x : x \in Chess!OrdinaryMoves
          <=> \E s, t \in Chess!Squares : s \in From /\ G(s, t) /\ x \in Moves(s, t)
    <3>1. From \subseteq Chess!Squares
      BY DEF From
    <3>2. \A s, t : <<s, t>>[1] = s /\ <<s, t>>[2] = t
      OBVIOUS
    <3>3. ASSUME NEW x \in Chess!OrdinaryMoves
          PROVE  \E s, t \in Chess!Squares : s \in From /\ G(s, t) /\ x \in Moves(s, t)
      <4>1. PICK y \in fromTo : x \in Moves(y[1], y[2])
        BY <2>1, <3>3
      <4>2. y[1] \in From /\ y[2] \in Chess!Squares /\ G(y[1], y[2])
        BY <2>2, <2>3
      <4> QED BY <3>1, <4>1, <4>2
    <3>4. ASSUME NEW x, NEW s \in Chess!Squares, NEW t \in Chess!Squares,
                 s \in From, G(s, t), x \in Moves(s, t)
          PROVE  x \in Chess!OrdinaryMoves
      <4>1. <<s, t>> \in fromTo /\ Moves(<<s, t>>[1], <<s, t>>[2]) = Moves(s, t)
        BY <2>2, <3>2, <3>4
      <4> QED BY <2>1, <3>4, <4>1
    <3> QED BY <3>3, <3>4
  <2>5. \A x, s, t : x \in Moves(s, t) <=> \E pr \in Chess!Promotions(p, s, t) : x = <<s, t, pr>>
    BY DEF Moves, Pr
  <2>6. \A s \in Chess!Squares : s \in From <=> p[s][1] = side
    BY DEF From
  <2>7. \A s, t : G(s, t) <=> Chess!Reaches(p, s, t) /\ Stays(s, t)
    BY DEF G
  <2> HIDE DEF p, side, Stays
  <2> QED BY <2>4, <2>5, <2>6, <2>7
<1>2. ASSUME NEW m \in kept PROVE RulesMove(m) \in Chess!OrdinaryMoves
  <2> DEFINE s == SquareAt(m.src_square_)
             t == SquareAt(m.dst_square_)
  <2>1. /\ s \in Chess!Squares /\ t \in Chess!Squares /\ p[s] = <<side, m.piece_moving_>>
        /\ Chess!Reaches(p, s, t) /\ PromotionOf(m) \in Chess!Promotions(p, s, t)
    BY PseudolegalReaches
  <2>2. Stays(s, t)
    BY FilterAgrees
  <2>3. RulesMove(m) = <<s, t, PromotionOf(m)>> /\ p[s][1] = side
    BY <2>1 DEF RulesMove
  <2> HIDE DEF Stays, p, side, s, t
  <2> QED BY <1>1, <2>1, <2>2, <2>3
<1>3. ASSUME NEW x \in Chess!OrdinaryMoves PROVE \E m \in kept : x = RulesMove(m)
  <2>1. PICK s \in Chess!Squares, t \in Chess!Squares :
          \E pr \in Chess!Promotions(p, s, t) :
            /\ p[s][1] = side /\ Chess!Reaches(p, s, t) /\ Stays(s, t)
            /\ x = <<s, t, pr>>
    BY <1>1
  <2>2. PICK pr \in Chess!Promotions(p, s, t) :
          /\ p[s][1] = side /\ Chess!Reaches(p, s, t) /\ Stays(s, t)
          /\ x = <<s, t, pr>>
    BY <2>1
  <2>3. PICK m \in pseudolegal_moves(board, side) : RulesMove(m) = <<s, t, pr>>
    BY <2>2, ReachesIsPseudolegal
  <2>4. SquareAt(m.src_square_) = s /\ SquareAt(m.dst_square_) = t
    BY <2>3 DEF RulesMove
  <2>5. is_pseudolegal_move_legal(board, m)
    BY <2>2, <2>4, FilterAgrees
  <2> QED BY <2>2, <2>3, <2>5
<1> HIDE DEF kept
<1>4. {RulesMove(m) : m \in kept} = Chess!OrdinaryMoves
  BY <1>2, <1>3
<1> QED BY <1>4 DEF kept

\* The king does not reach by a step where castling takes it.
LEMMA CastlingIsNoStep ==
  ASSUME WellFormed(board), NEW m \in append_castling_moves(board),
         NEW n \in pseudolegal_moves(board, board.side_to_move)
  PROVE  RulesMove(m) # RulesMove(n)
<1> SUFFICES ASSUME RulesMove(m) = RulesMove(n) PROVE FALSE
  OBVIOUS
<1> DEFINE side == board.side_to_move
           p == Mailbox(board)
<1>1. board \in BoardType /\ PiecesDisjoint(board) /\ side \in Color
  BY DEF WellFormed, BoardType
<1>2. Depicts(p, board.bb)
  BY <1>1, MailboxDepicts
<1>3. /\ m.src_square_ = home_square(side, 4) /\ m.dst_square_ = home_square(side, king_file(m))
      /\ home_square(side, 4) \in pieces(board, side, "king")
  BY CastlingMoves DEF CastleFacts, pieces
<1>4. king_file(m) \in {6, 2}
  BY DEF king_file
<1>5. n \in MoveSet /\ n.src_square_ \in Square /\ n.dst_square_ \in Square
  BY <1>1, <1>2, PseudolegalForms DEF MoveSet
<1>6. n.src_square_ = home_square(side, 4) /\ n.dst_square_ = home_square(side, king_file(m))
  <2>1. SquareAt(m.src_square_) = SquareAt(n.src_square_) /\ SquareAt(m.dst_square_) = SquareAt(n.dst_square_)
    BY DEF RulesMove
  <2>2. home_square(side, 4) \in Square /\ home_square(side, king_file(m)) \in Square
    BY <1>1, <1>4, HomeRank
  <2> QED BY <1>3, <1>5, <2>1, <2>2, SquaresCorrespond
<1>7. n.piece_moving_ = "king"
  <2>1. p[SquareAt(n.src_square_)] = <<side, n.piece_moving_>>
    BY PseudolegalReaches
  <2>2. p[SquareAt(n.src_square_)] = <<side, "king">>
    BY <1>1, <1>2, <1>3, <1>5, <1>6, Depicted DEF Piece
  <2> QED BY <2>1, <2>2
<1>8. Chess!Attacks(p, SquareAt(n.src_square_), SquareAt(n.dst_square_))
  <2>1. Aims(board, p, side, "king", n.src_square_, n.dst_square_)
    BY <1>1, <1>2, <1>7, PseudolegalForms
  <2> QED BY <2>1 DEF Aims
<1>9. Chess!Abs(file_idx(n.dst_square_) - file_idx(n.src_square_)) <= 1
  <2>1. "king" \in Piece /\ n.src_square_ \in pieces(board, side, "king")
    BY <1>3, <1>6 DEF Piece
  <2>2. Chess!Attacks(p, SquareAt(n.src_square_), SquareAt(n.dst_square_))
          => Chess!Abs(file_idx(n.dst_square_) - file_idx(n.src_square_)) <= 1
    BY <1>1, <1>2, <1>5, <2>1, AttacksByKind
  <2> QED BY <1>8, <2>2
<1>10. file_idx(n.dst_square_) = king_file(m) /\ file_idx(n.src_square_) = 4
  BY <1>1, <1>4, <1>6, HomeRank
<1> QED BY <1>4, <1>9, <1>10 DEF Chess!Abs

\* legal_moves returns the set of legal moves, with one record for each of them.
LEMMA LegalMovesAgree ==
  ASSUME WellFormed(board)
  PROVE  /\ {RulesMove(m) : m \in legal_moves(board)} = Chess!LegalMoves
         /\ \A m, n \in legal_moves(board) : RulesMove(m) = RulesMove(n) => m = n
<1> DEFINE kept == {n \in pseudolegal_moves(board, board.side_to_move) :
                      is_pseudolegal_move_legal(board, n)}
           castlings == append_castling_moves(board)
<1>1. legal_moves(board) = kept \cup castlings
  BY DEF legal_moves
<1>2. {RulesMove(m) : m \in kept} = Chess!OrdinaryMoves
  BY OrdinaryMovesAgree
<1>3. {RulesMove(m) : m \in castlings} = Chess!Castlings
  BY CastlingMovesAgree
<1>4. ASSUME NEW m \in castlings, NEW n \in castlings, RulesMove(m) = RulesMove(n) PROVE m = n
  <2> DEFINE side == board.side_to_move
  <2>1. {m, n} \subseteq {castle_kingside_move(side), castle_queenside_move(side)}
    BY DEF append_castling_moves
  <2>2. side \in Color
    BY DEF WellFormed, BoardType
  <2>3. RulesMove(castle_kingside_move(side)) # RulesMove(castle_queenside_move(side))
    <3>1. /\ castle_kingside_move(side).dst_square_ = home_square(side, 6)
          /\ castle_queenside_move(side).dst_square_ = home_square(side, 2)
      BY DEF castle_kingside_move, castle_queenside_move, Move
    <3>2. SquareAt(home_square(side, 6))[1] = 6 /\ SquareAt(home_square(side, 2))[1] = 2
      BY <2>2, HomeRank
    <3> QED BY <3>1, <3>2 DEF RulesMove
  <2> QED BY <1>4, <2>1, <2>3
<1>5. \A m, n \in kept : RulesMove(m) = RulesMove(n) => m = n
  BY PseudolegalOnce
<1>6. \A m \in castlings, n \in kept : RulesMove(m) # RulesMove(n)
  BY CastlingIsNoStep
<1> HIDE DEF kept, castlings
<1>7. {RulesMove(m) : m \in legal_moves(board)} = Chess!LegalMoves
  <2>1. Chess!LegalMoves = Chess!OrdinaryMoves \cup Chess!Castlings
    BY DEF Chess!LegalMoves
  <2> QED BY <1>1, <1>2, <1>3, <2>1
<1>8. \A m, n \in legal_moves(board) : RulesMove(m) = RulesMove(n) => m = n
  BY <1>1, <1>4, <1>5, <1>6
<1> QED BY <1>7, <1>8

\* In every game, from every well-formed position, legal_moves() returns the
\* legal moves of chess, with one record for each: the shifts, masks and loops of
\* move generation, the filter and the castling tests are the geometry of the rules.
THEOREM MovesAreTheLegalMoves == Spec => []GeneratesTheLegalMoves
<1>1. Inv => GeneratesTheLegalMoves
  <2> SUFFICES ASSUME Inv, phase = "move"
               PROVE  /\ {RulesMove(m) : m \in moves} = Chess!LegalMoves
                      /\ \A m, n \in moves : RulesMove(m) = RulesMove(n) => m = n
    BY DEF GeneratesTheLegalMoves
  <2>1. WellFormed(board) /\ moves = legal_moves(board)
    BY DEF Inv
  <2> QED BY <2>1, LegalMovesAgree
<1> QED BY <1>1, Invariance, PTL


-----------------------------------------------------------------------------
(* do_move plays the moves of the rules. *)

\* The e.p. square that do_move leaves behind is the rules'.
LEMMA TargetAgrees ==
  ASSUME WellFormed(board), NEW m \in pseudolegal_moves(board, board.side_to_move)
  PROVE  LET p == Mailbox(board)
             s == SquareAt(m.src_square_)
             t == SquareAt(m.dst_square_)
         IN  {SquareAt(sq) : sq \in NextEnPassant(m)}
               = IF p[s][2] = "pawn" /\ Chess!Abs(t[2] - s[2]) = 2
                 THEN {<<s[1], s[2] + Chess!Up(board.side_to_move)>>} ELSE {}
<1> DEFINE side == board.side_to_move
           p == Mailbox(board)
           src == m.src_square_
           dst == m.dst_square_
           s == SquareAt(src)
           t == SquareAt(dst)
           u == Chess!Up(side)
<1>1. board \in BoardType /\ PiecesDisjoint(board) /\ side \in Color /\ PawnsOffBackRanks(board)
  BY DEF WellFormed, BoardType
<1>2. Depicts(p, board.bb)
  BY <1>1, MailboxDepicts
<1>3. /\ m \in MoveSet /\ src \in pieces(board, side, m.piece_moving_)
      /\ m.piece_moving_ = "pawn" => PawnCan(board, side, src, dst, m.move_type_)
      /\ m.piece_moving_ # "pawn" => m.move_type_ \in {"capture", "simple"}
  BY <1>1, <1>2, PseudolegalForms
<1>4. src \in Square /\ dst \in Square /\ m.piece_moving_ \in Piece
  BY <1>3 DEF MoveSet
<1>5. p[s][2] = m.piece_moving_
  BY <1>1, <1>2, <1>3, <1>4, Depicted
<1>6. s[1] = file_idx(src) /\ s[2] = rank_idx(src) /\ t[2] = rank_idx(dst)
  BY <1>4, SquaresCorrespond
<1>7. rank_idx(src) \in 0..7 /\ rank_idx(dst) \in 0..7 /\ u \in {-1, 1}
  BY <1>4, Coordinates DEF Chess!Up
<1>8. CASE m.move_type_ = "two_step_pawn"
  <2>1. m.piece_moving_ = "pawn" /\ src \in two_step_mask(side)
        /\ \E mid \in Square : Ahead(side, src, mid) /\ Ahead(side, mid, dst)
    BY <1>3, <1>8 DEF PawnCan, promotion_move_types
  <2>2. rank_idx(dst) = rank_idx(src) + 2 * u
    BY <1>1, <1>4, <2>1, PawnWays
  <2>3. Chess!Abs(rank_idx(dst) - rank_idx(src)) = 2
    <3> HIDE DEF u
    <3> QED BY <1>7, <2>2 DEF Chess!Abs
  <2>4. NextEnPassant(m) = forward(side, src)
    <3>1. CASE side = "white"
      BY <1>8, <2>1, <3>1 DEF NextEnPassant, forward, two_step_mask
    <3>2. CASE side = "black"
      BY <1>8, <2>1, <3>2 DEF NextEnPassant, forward, two_step_mask, second_rank_mask,
                              seventh_rank_mask, rank_mask
    <3> QED BY <1>1, <3>1, <3>2 DEF Color
  <2>5. PICK mid \in Square : Ahead(side, src, mid)
    BY <2>1
  <2>6. \A x : x \in NextEnPassant(m) <=> x \in Square /\ Ahead(side, src, x)
    BY <1>1, <1>4, <2>4, ForwardIsAhead
  <2>7. \A x \in Square : Ahead(side, src, x) => SquareAt(x) = <<file_idx(src), rank_idx(src) + u>>
    BY SquaresCorrespond DEF Ahead
  <2>8. {SquareAt(sq) : sq \in NextEnPassant(m)} = {<<file_idx(src), rank_idx(src) + u>>}
    BY <2>5, <2>6, <2>7
  <2> QED BY <1>5, <1>6, <2>1, <2>3, <2>8
<1>9. CASE m.move_type_ # "two_step_pawn"
  <2>1. NextEnPassant(m) = {}
    BY <1>9 DEF NextEnPassant
  <2>2. ASSUME m.piece_moving_ = "pawn" PROVE Chess!Abs(rank_idx(dst) - rank_idx(src)) # 2
    <3>1. Ahead(side, src, dst) \/ Aslant(side, src, dst)
      BY <1>3, <1>9, <2>2 DEF PawnCan
    <3>2. rank_idx(dst) = rank_idx(src) + u
      BY <3>1 DEF Ahead, Aslant
    <3> HIDE DEF u
    <3> QED BY <1>7, <3>2 DEF Chess!Abs
  <2> QED BY <1>5, <1>6, <2>1, <2>2
<1> QED BY <1>8, <1>9

\* The king and the rook of a flag are at home on the board b2.
AtHome(b2, r) ==
  /\ king_home(r) \in pieces(b2, right_side(r), "king")
  /\ rook_home(r) \in pieces(b2, right_side(r), "rook")

\* The rights that the rules keep in the position q.
KeptIn(q, castling) ==
  { x \in {RightAt(r) : r \in castling} :
      /\ q[<<4, Chess!FirstRank(x[1])>>] = <<x[1], "king">>
      /\ q[<<x[2], Chess!FirstRank(x[1])>>] = <<x[1], "rook">> }

\* If the flags left standing are those whose king and rook are at home afterwards,
\* the rights left standing are those the rules keep.
LEMMA KeptAgrees ==
  ASSUME NEW b2, NEW q, Depicts(q, b2.bb), NEW castling \in SUBSET Right,
         NEW left \in SUBSET castling,
         \A r \in castling : r \in left <=> AtHome(b2, r)
  PROVE  {RightAt(r) : r \in left} = KeptIn(q, castling)
<1> DEFINE Standing(x) == /\ q[<<4, Chess!FirstRank(x[1])>>] = <<x[1], "king">>
                      /\ q[<<x[2], Chess!FirstRank(x[1])>>] = <<x[1], "rook">>
<1>1. ASSUME NEW r \in castling
      PROVE  r \in left <=> Standing(RightAt(r))
  <2> DEFINE c == right_side(r)
             f == IF r \in {"K", "k"} THEN 7 ELSE 0
  <2>1. c \in Color /\ f \in 0..7 /\ "king" \in Piece /\ "rook" \in Piece
    BY DEF right_side, Color, Piece
  <2>2. king_home(r) = home_square(c, 4) /\ rook_home(r) = home_square(c, f)
    BY DEF king_home, rook_home
  <2> HIDE DEF f, c
  <2>3. /\ king_home(r) \in Square /\ SquareAt(king_home(r)) = <<4, Chess!FirstRank(c)>>
        /\ rook_home(r) \in Square /\ SquareAt(rook_home(r)) = <<f, Chess!FirstRank(c)>>
        /\ file_idx(rook_home(r)) = f
    BY <2>1, <2>2, HomeRank
  <2>4. RightAt(r)[1] = c /\ RightAt(r)[2] = f
    BY <2>3 DEF RightAt, c
  <2>5. /\ q[<<4, Chess!FirstRank(c)>>] = <<c, "king">> <=> king_home(r) \in pieces(b2, c, "king")
        /\ q[<<f, Chess!FirstRank(c)>>] = <<c, "rook">> <=> rook_home(r) \in pieces(b2, c, "rook")
    <3>1. /\ q[SquareAt(king_home(r))] = <<c, "king">> <=> king_home(r) \in pieces(b2, c, "king")
          /\ q[SquareAt(rook_home(r))] = <<c, "rook">> <=> rook_home(r) \in pieces(b2, c, "rook")
      BY <2>1, <2>3, Depicted
    <3> QED BY <2>3, <3>1
  <2> QED BY <2>4, <2>5 DEF c, AtHome
<1> HIDE DEF Standing
<1>2. {RightAt(r) : r \in left} = {x \in {RightAt(r) : r \in castling} : Standing(x)}
  <2>1. ASSUME NEW r \in castling, Standing(RightAt(r)) PROVE r \in left
    BY <1>1, <2>1
  <2>2. ASSUME NEW r \in left PROVE r \in castling /\ Standing(RightAt(r))
    BY <1>1
  <2> QED BY <2>1, <2>2
<1> QED BY <1>2 DEF Standing, KeptIn

\* Flags end exactly when a king or a rook is gone from home.
LEMMA OrdinaryLeft ==
  ASSUME NEW b, WellFormed(b), NEW m \in pseudolegal_moves(b, b.side_to_move), NEW r \in b.castling
  PROVE  r \in do_move(b, m).castling <=> AtHome(do_move(b, m), r)
<1> DEFINE b2 == do_move(b, m)
           side == b.side_to_move
           c == right_side(r)
           src == m.src_square_
           dst == m.dst_square_
<1>1. b \in BoardType /\ PiecesDisjoint(b) /\ side \in Color /\ CastlingRightsSound(b)
  BY DEF WellFormed, BoardType
<1>2. MoveFacts(b, m)
  BY PseudolegalFacts
<1>3. /\ b2 \in BoardType /\ PiecesDisjoint(b2) /\ BitboardsAfter(b, m, b2.bb)
      /\ b2.castling = NextCastling(b, m)
  BY <1>1, <1>2, AfterMove
<1>4. Sound(b2)
  BY PseudolegalKeepsSound
<1>5. c \in Color /\ "king" \in Piece /\ "rook" \in Piece
  BY DEF right_side, Color, Piece
<1>6. ASSUME king_home(r) \in pieces(b2, c, "king"), rook_home(r) \in pieces(b2, c, "rook")
      PROVE  r \in b2.castling
  <2>1. \A x \in Color \X Piece :
          b2.bb[x] = (b.bb[x] \ ({src, dst} \cup Taken(m)))
                       \cup (IF x = <<side, Placed(m)>> THEN {dst} ELSE {})
    BY <1>3 DEF BitboardsAfter
  <2>2. src # dst
    <3>1. src \in pieces(b, side, m.piece_moving_) /\ m.piece_moving_ \in Piece
          /\ dst \notin friends(b, side)
      BY <1>2 DEF MoveFacts, Movable, MoveSet
    <3> QED BY <3>1, Friends DEF pieces
  <2>3. \A x \in Color \X Piece : src \notin b2.bb[x]
    BY <2>1, <2>2
  <2>4. king_home(r) # src /\ rook_home(r) # src
    BY <1>5, <1>6, <2>3 DEF pieces
  <2>5. rook_home(r) # dst
    <3> SUFFICES ASSUME rook_home(r) = dst PROVE FALSE
      OBVIOUS
    <3>1. rook_home(r) \in pieces(b, c, "rook")
      BY <1>1 DEF CastlingRightsSound
    <3>2. dst \in friends(b, c) /\ dst \notin friends(b, side)
      BY <1>2, <1>5, <3>1, Friends DEF pieces, MoveFacts, Movable
    <3>3. c # side
      BY <3>2
    <3>4. dst \notin b2.bb[<<c, "rook">>]
      <4>1. <<c, "rook">> \in Color \X Piece /\ <<c, "rook">> # <<side, Placed(m)>>
        BY <1>5, <3>3
      <4> QED BY <2>1, <4>1
    <3> QED BY <1>6, <3>4 DEF pieces
  <2> QED BY <1>3, <2>4, <2>5 DEF NextCastling, adjust_castling_rights
<1>7. r \in b2.castling => /\ king_home(r) \in pieces(b2, c, "king")
                           /\ rook_home(r) \in pieces(b2, c, "rook")
  BY <1>4 DEF Sound, CastlingRightsSound
<1> QED BY <1>6, <1>7 DEF AtHome

LEMMA CastlingLeft ==
  ASSUME NEW b, WellFormed(b), NEW m \in append_castling_moves(b), NEW r \in b.castling
  PROVE  r \in do_move(b, m).castling <=> AtHome(do_move(b, m), r)
<1> DEFINE b2 == do_move(b, m)
           side == b.side_to_move
           c == right_side(r)
           to == home_square(side, king_file(m))
<1>1. b \in BoardType /\ PiecesDisjoint(b) /\ OneKingEach(b) /\ side \in Color
  BY DEF WellFormed, BoardType
<1>2. CastleFacts(b, m)
  BY CastlingMoves
<1>3. /\ b2 \in BoardType /\ PiecesDisjoint(b2) /\ CastledBitboards(b, m, b2.bb)
      /\ b2.castling = adjust_castling_rights(b.castling, m)
  BY <1>1, <1>2, AfterCastling
<1>4. Sound(b2)
  BY <1>2, CastlingKeepsSound
<1>5. c \in Color /\ "king" \in Piece /\ "rook" \in Piece
  BY DEF right_side, Color, Piece
<1>6. /\ m.piece_moving_ = "king" /\ m.src_square_ = home_square(side, 4) /\ m.dst_square_ = to
  BY <1>2 DEF CastleFacts
<1>7. b2.bb[<<side, "king">>] = {to}
  BY <1>1, <1>3, <1>5 DEF CastledBitboards
<1>8. ASSUME king_home(r) \in pieces(b2, c, "king"), rook_home(r) \in pieces(b2, c, "rook")
      PROVE  r \in b2.castling
  <2>1. rook_home(r) # to
    <3>1. <<c, "rook">> # <<side, "king">> /\ <<c, "rook">> \in Color \X Piece
          /\ <<side, "king">> \in Color \X Piece
      BY <1>1, <1>5
    <3> QED BY <1>3, <1>7, <1>8, <3>1 DEF PiecesDisjoint, Disjoint, pieces
  <2>2. king_home(r) # home_square(side, 4)
    <3> SUFFICES ASSUME king_home(r) = home_square(side, 4) PROVE FALSE
      OBVIOUS
    <3>1. /\ file_idx(home_square(side, 4)) = 4 /\ rank_idx(home_square(side, 4)) = Chess!FirstRank(side)
          /\ file_idx(to) = king_file(m) /\ king_file(m) \in {2, 6}
          /\ rank_idx(king_home(r)) = Chess!FirstRank(c)
      BY <1>1, <1>5, HomeRank DEF king_file, king_home
    <3>2. c = side
      BY <1>1, <1>5, <3>1 DEF Chess!FirstRank, Color
    <3>3. home_square(side, 4) = to
      BY <1>7, <1>8, <3>2 DEF pieces
    <3> QED BY <3>1, <3>3
  <2> QED BY <1>3, <1>6, <2>1, <2>2 DEF adjust_castling_rights
<1>9. r \in b2.castling => /\ king_home(r) \in pieces(b2, c, "king")
                           /\ rook_home(r) \in pieces(b2, c, "rook")
  BY <1>4 DEF Sound, CastlingRightsSound
<1> QED BY <1>8, <1>9 DEF AtHome

\* do_castle_move has the effect of castling.
LEMMA CastlingEffectAgrees ==
  ASSUME WellFormed(board), NEW m, CastleFacts(board, m)
  PROVE  Mailbox(do_move(board, m)) = Chess!AfterCastling(corner_file(m))
<1> DEFINE side == board.side_to_move
           b2 == do_move(board, m)
           p == Mailbox(board)
           q == Mailbox(b2)
           H(file) == home_square(side, file)
           corner == H(corner_file(m))
           king == H(king_file(m))
           rook == H(beside_file(m))
           from == H(4)
           after == Chess!AfterCastling(corner_file(m))
<1>1. board \in BoardType /\ PiecesDisjoint(board) /\ OneKingEach(board) /\ side \in Color
  BY DEF WellFormed, BoardType
<1>2. b2 \in BoardType /\ PiecesDisjoint(b2) /\ CastledBitboards(board, m, b2.bb)
  BY <1>1, AfterCastling
<1>3. Depicts(p, board.bb) /\ Depicts(q, b2.bb) /\ q = [s \in Chess!Squares |-> q[s]]
  BY <1>1, <1>2, MailboxDepicts
<1>4. \/ corner_file(m) = 7 /\ king_file(m) = 6 /\ beside_file(m) = 5
      \/ corner_file(m) = 0 /\ king_file(m) = 2 /\ beside_file(m) = 3
  BY DEF corner_file, king_file, beside_file
<1>5. /\ corner \in Square /\ SquareAt(corner) = <<corner_file(m), Chess!FirstRank(side)>>
      /\ king \in Square /\ SquareAt(king) = Chess!KingTo(corner_file(m))
      /\ rook \in Square /\ SquareAt(rook) = Chess!RookTo(corner_file(m))
      /\ from \in Square /\ SquareAt(from) = Chess!KingFrom
  BY <1>1, <1>4, HomeRank DEF Chess!KingTo, Chess!RookTo, Chess!KingFrom
<1>6. king # rook /\ king # from /\ king # corner /\ rook # from /\ rook # corner /\ from # corner
  <2>1. \A x, y \in 0..7 : H(x) = H(y) => x = y
    BY <1>1, HomeRank
  <2>2. /\ corner_file(m) \in 0..7 /\ king_file(m) \in 0..7 /\ beside_file(m) \in 0..7 /\ 4 \in 0..7
        /\ king_file(m) # beside_file(m) /\ king_file(m) # 4 /\ king_file(m) # corner_file(m)
        /\ beside_file(m) # 4 /\ beside_file(m) # corner_file(m) /\ corner_file(m) # 4
    BY <1>4
  <2> HIDE DEF H
  <2> QED BY <2>1, <2>2
<1>7. after = [u \in Chess!Squares |->
                 IF u = SquareAt(king) THEN <<side, "king">>
                 ELSE IF u = SquareAt(rook) THEN <<side, "rook">>
                 ELSE IF u = SquareAt(from) \/ u = SquareAt(corner) THEN Chess!Empty
                 ELSE p[u]]
  <2>1. ASSUME NEW u \in Chess!Squares
        PROVE  (CASE u = Chess!KingTo(corner_file(m)) -> <<side, "king">>
                  [] u = Chess!RookTo(corner_file(m)) -> <<side, "rook">>
                  [] u \in {Chess!KingFrom, <<corner_file(m), Chess!FirstRank(side)>>} -> Chess!Empty
                  [] OTHER -> p[u])
               = IF u = SquareAt(king) THEN <<side, "king">>
                 ELSE IF u = SquareAt(rook) THEN <<side, "rook">>
                 ELSE IF u = SquareAt(from) \/ u = SquareAt(corner) THEN Chess!Empty
                 ELSE p[u]
    <3>1. /\ SquareAt(king) # SquareAt(rook) /\ SquareAt(king) # SquareAt(from)
          /\ SquareAt(king) # SquareAt(corner) /\ SquareAt(rook) # SquareAt(from)
          /\ SquareAt(rook) # SquareAt(corner)
      BY <1>5, <1>6, SquaresCorrespond
    <3> HIDE DEF king, rook, from, corner, p, side
    <3> QED BY <1>5, <3>1
  <2> QED BY <2>1 DEF Chess!AfterCastling
<1>8. /\ from \in board.bb[<<side, "king">>] /\ corner \in board.bb[<<side, "rook">>]
      /\ ~occupied(board.bb, king) /\ ~occupied(board.bb, rook)
  BY DEF CastleFacts
<1>9. /\ board.bb[<<side, "king">>] = {from}
      /\ \A x \in Color \X Piece : /\ from \in board.bb[x] => x = <<side, "king">>
                                   /\ corner \in board.bb[x] => x = <<side, "rook">>
  <2>1. is_square(board.bb[<<side, "king">>])
    BY <1>1 DEF OneKingEach, pieces
  <2>2. <<side, "king">> \in Color \X Piece /\ <<side, "rook">> \in Color \X Piece
    BY <1>1 DEF Piece
  <2> HIDE DEF from, corner
  <2> QED BY <1>1, <1>8, <2>1, <2>2 DEF is_square, PiecesDisjoint, Disjoint
<1>10. \A c \in Color, k \in Piece :
         b2.bb[<<c, k>>] = IF c # side \/ k \notin {"king", "rook"} THEN board.bb[<<c, k>>]
                           ELSE IF k = "king" THEN {king}
                           ELSE (board.bb[<<c, k>>] \ {from, corner}) \cup {rook}
  BY <1>2 DEF CastledBitboards
<1>11. ASSUME NEW sq \in Square
       PROVE  q[SquareAt(sq)] = IF sq = king THEN <<side, "king">>
                                ELSE IF sq = rook THEN <<side, "rook">>
                                ELSE IF sq = from \/ sq = corner THEN Chess!Empty
                                ELSE p[SquareAt(sq)]
  <2>1. /\ \A cp \in Color \X Piece : sq \in b2.bb[cp] => q[SquareAt(sq)] = cp
        /\ ~occupied(b2.bb, sq) => q[SquareAt(sq)] = Chess!Empty
        /\ \A cp \in Color \X Piece : sq \in board.bb[cp] => p[SquareAt(sq)] = cp
        /\ ~occupied(board.bb, sq) => p[SquareAt(sq)] = Chess!Empty
    BY <1>3 DEF Depicts
  <2>2. "king" \in Piece /\ "rook" \in Piece
        /\ <<side, "king">> \in Color \X Piece /\ <<side, "rook">> \in Color \X Piece
    BY <1>1 DEF Piece
  <2>3. \A c \in Color, k \in Piece : <<c, k>> \in Color \X Piece
    OBVIOUS
  <2>4. ASSUME NEW bb
        PROVE  occupied(bb, sq) <=> \E c \in Color, k \in Piece : sq \in bb[<<c, k>>]
    <3>1. ASSUME NEW cp \in Color \X Piece, sq \in bb[cp]
          PROVE  \E c \in Color, k \in Piece : sq \in bb[<<c, k>>]
      <4>1. cp[1] \in Color /\ cp[2] \in Piece /\ cp = <<cp[1], cp[2]>>
        OBVIOUS
      <4> QED BY <3>1, <4>1
    <3> QED BY <2>3, <3>1 DEF occupied
  <2> HIDE DEF king, rook, from, corner, p, q, b2, side
  <2>5. CASE sq = king
    BY <1>1, <1>10, <2>1, <2>2, <2>5
  <2>6. CASE sq = rook
    <3>1. sq \in b2.bb[<<side, "rook">>]
      BY <1>1, <1>10, <2>2, <2>6
    <3> QED BY <1>6, <2>1, <2>2, <2>6, <3>1
  <2>7. CASE sq = from \/ sq = corner
    <3>1. ASSUME NEW c \in Color, NEW k \in Piece PROVE sq \notin b2.bb[<<c, k>>]
      <4>1. sq \in board.bb[<<c, k>>] => c = side /\ k \in {"king", "rook"}
        BY <1>9, <2>3, <2>7
      <4> QED BY <1>6, <1>10, <2>7, <4>1
    <3> QED BY <1>6, <2>1, <2>4, <2>7, <3>1
  <2>8. CASE sq # king /\ sq # rook /\ sq # from /\ sq # corner
    <3>1. ASSUME NEW c \in Color, NEW k \in Piece
          PROVE  sq \in b2.bb[<<c, k>>] <=> sq \in board.bb[<<c, k>>]
      <4>1. CASE c # side \/ k \notin {"king", "rook"}
        BY <1>10, <4>1
      <4>2. CASE c = side /\ k = "king"
        <5>1. b2.bb[<<c, k>>] = {king} /\ board.bb[<<c, k>>] = {from}
          BY <1>9, <1>10, <4>2
        <5> QED BY <2>8, <5>1
      <4>3. CASE c = side /\ k = "rook"
        <5>1. b2.bb[<<c, k>>] = (board.bb[<<c, k>>] \ {from, corner}) \cup {rook}
          BY <1>10, <4>3
        <5> QED BY <2>8, <5>1
      <4> QED BY <4>1, <4>2, <4>3
    <3>2. CASE occupied(board.bb, sq)
      <4>1. PICK c \in Color, k \in Piece : sq \in board.bb[<<c, k>>]
        BY <2>4, <3>2
      <4>2. sq \in b2.bb[<<c, k>>] /\ <<c, k>> \in Color \X Piece
        BY <3>1, <4>1
      <4>3. q[SquareAt(sq)] = <<c, k>> /\ p[SquareAt(sq)] = <<c, k>>
        BY <2>1, <4>1, <4>2
      <4> QED BY <2>8, <4>3
    <3>3. CASE ~occupied(board.bb, sq)
      <4>1. ~occupied(b2.bb, sq)
        BY <2>4, <3>1, <3>3
      <4> QED BY <2>1, <2>8, <3>3, <4>1
    <3> QED BY <3>2, <3>3
  <2> QED BY <2>5, <2>6, <2>7, <2>8
<1>12. ASSUME NEW sq \in Square PROVE q[SquareAt(sq)] = after[SquareAt(sq)]
  <2>1. /\ SquareAt(sq) \in Chess!Squares
        /\ \A x \in {king, rook, from, corner} : SquareAt(sq) = SquareAt(x) <=> sq = x
    BY <1>5, SquaresCorrespond
  <2> HIDE DEF king, rook, from, corner, p, q, b2, side, after
  <2> QED BY <1>7, <1>11, <2>1
<1> HIDE DEF q, after, p
<1>13. \A s \in Chess!Squares : q[s] = after[s]
  BY <1>12, SquaresCorrespond
<1>14. q = [s \in Chess!Squares |-> q[s]] /\ after = [s \in Chess!Squares |-> after[s]]
  BY <1>3, <1>7
<1>15. q = after
  BY <1>13, <1>14
<1> QED BY <1>15 DEF q, after

\* An ordinary move that legal_moves lists is played as the rules say.
LEMMA OrdinaryStep ==
  ASSUME WellFormed(board), NEW m \in pseudolegal_moves(board, board.side_to_move),
         is_pseudolegal_move_legal(board, m), board' = do_move(board, m)
  PROVE  Chess!PlayOrdinary
<1> DEFINE side == board.side_to_move
           p == Mailbox(board)
           q == Mailbox(do_move(board, m))
           s == SquareAt(m.src_square_)
           t == SquareAt(m.dst_square_)
           b2 == do_move(board, m)
<1>1. board \in BoardType /\ PiecesDisjoint(board) /\ side \in Color /\ board.castling \in SUBSET Right
  BY DEF WellFormed, BoardType
<1>2. MoveFacts(board, m)
  BY PseudolegalFacts
<1>3. /\ b2 \in BoardType /\ PiecesDisjoint(b2)
      /\ b2.side_to_move = flip_color(side)
      /\ b2.en_passant_square_ = NextEnPassant(m)
      /\ b2.castling = NextCastling(board, m)
  BY <1>1, <1>2, AfterMove
<1>4. Depicts(q, b2.bb)
  BY <1>3, MailboxDepicts
<1>5. q = Chess!After(p, s, t, PromotionOf(m))
  BY EffectAgrees
<1>6. /\ s \in Chess!Squares /\ t \in Chess!Squares
      /\ p[s] = <<side, m.piece_moving_>> /\ p[t][1] # side
      /\ Chess!Reaches(p, s, t) /\ PromotionOf(m) \in Chess!Promotions(p, s, t)
  BY PseudolegalReaches
<1>7. p[s][1] = side /\ q[s] = Chess!Empty /\ q[t][1] = side
  <2>1. p[s][1] = side /\ s # t
    BY <1>6
  <2>2. q[s] = Chess!Empty
    BY <1>5, <1>6, <2>1 DEF Chess!After
  <2>3. q[t] = IF PromotionOf(m) = "none" THEN p[s] ELSE <<side, PromotionOf(m)>>
    BY <1>5, <1>6 DEF Chess!After
  <2> QED BY <2>1, <2>2, <2>3
<1>8. ~Chess!InCheck(q, side)
  <2>1. is_king_attacked(b2, side) <=> Chess!InCheck(q, side)
    BY <1>1, <1>3, <1>4, CheckIsSeen
  <2> QED BY <2>1 DEF is_pseudolegal_move_legal
<1>9. {SquareAt(sq) : sq \in b2.en_passant_square_}
        = IF p[s][2] = "pawn" /\ Chess!Abs(t[2] - s[2]) = 2
          THEN {<<s[1], s[2] + Chess!Up(side)>>} ELSE {}
  BY <1>3, TargetAgrees
<1>10. {RightAt(r) : r \in b2.castling} = KeptIn(q, board.castling)
  <2>1. b2.castling \in SUBSET board.castling
    BY <1>3 DEF NextCastling, adjust_castling_rights
  <2>2. \A r \in board.castling : r \in b2.castling <=> AtHome(b2, r)
    BY OrdinaryLeft
  <2> HIDE DEF b2, q
  <2> QED BY <1>1, <1>4, <2>1, <2>2, KeptAgrees
<1>11. flip_color(side) = Chess!Opponent(side)
  BY DEF flip_color, Chess!Opponent
<1>12. board' = b2 /\ Mailbox(board)' = q
  OBVIOUS
<1> HIDE DEF b2, q
<1>13. board'.side_to_move = Chess!Opponent(side)
  BY <1>3, <1>11, <1>12
<1>14. {RightAt(r) : r \in board.castling}' = Chess!KeptRights
  <2>1. {RightAt(r) : r \in board.castling}' = {RightAt(r) : r \in b2.castling}
    BY <1>12
  <2> QED BY <1>10, <1>12, <2>1 DEF Chess!KeptRights, KeptIn
<1>15. {SquareAt(sq) : sq \in board.en_passant_square_}'
         = IF p[s][2] = "pawn" /\ Chess!Abs(t[2] - s[2]) = 2
           THEN {<<s[1], s[2] + Chess!Up(side)>>} ELSE {}
  BY <1>9, <1>12
<1> HIDE DEF s, t, p
<1> QED BY <1>5, <1>6, <1>7, <1>8, <1>12, <1>13, <1>14, <1>15 DEF Chess!PlayOrdinary, p

\* And so is a castling move.
LEMMA CastlingStep ==
  ASSUME WellFormed(board), NEW m \in append_castling_moves(board), board' = do_move(board, m)
  PROVE  Chess!PlayCastling
<1> DEFINE side == board.side_to_move
           b2 == do_move(board, m)
           q == Mailbox(do_move(board, m))
<1>1. board \in BoardType /\ PiecesDisjoint(board) /\ OneKingEach(board)
      /\ side \in Color /\ board.castling \in SUBSET Right
  BY DEF WellFormed, BoardType
<1>2. CastleFacts(board, m)
  BY CastlingMoves
<1>3. /\ b2 \in BoardType /\ PiecesDisjoint(b2)
      /\ b2.side_to_move = flip_color(side)
      /\ b2.en_passant_square_ = {}
      /\ b2.castling = adjust_castling_rights(board.castling, m)
  BY <1>1, <1>2, AfterCastling
<1>4. Depicts(q, b2.bb)
  BY <1>3, MailboxDepicts
<1>5. q = Chess!AfterCastling(corner_file(m))
  BY <1>2, CastlingEffectAgrees
<1>6. corner_file(m) \in {0, 7} /\ Chess!MayCastle(corner_file(m))
  <2>1. CASE m = castle_kingside_move(side) /\ is_castle_kingside_legal(board)
    <3>1. corner_file(m) = 7
      BY <2>1 DEF castle_kingside_move, Move, corner_file
    <3> QED BY <2>1, <3>1, CastlingAgrees
  <2>2. CASE m = castle_queenside_move(side) /\ is_castle_queenside_legal(board)
    <3>1. corner_file(m) = 0
      BY <2>2 DEF castle_queenside_move, Move, corner_file
    <3> QED BY <2>2, <3>1, CastlingAgrees
  <2> QED BY <2>1, <2>2 DEF append_castling_moves
<1>7. {RightAt(r) : r \in b2.castling} = KeptIn(q, board.castling)
  <2>1. b2.castling \in SUBSET board.castling
    BY <1>3 DEF adjust_castling_rights
  <2>2. \A r \in board.castling : r \in b2.castling <=> AtHome(b2, r)
    BY CastlingLeft
  <2> HIDE DEF b2, q
  <2> QED BY <1>1, <1>4, <2>1, <2>2, KeptAgrees
<1>8. flip_color(side) = Chess!Opponent(side)
  BY DEF flip_color, Chess!Opponent
<1>9. board' = b2 /\ Mailbox(board)' = q
  OBVIOUS
<1> HIDE DEF b2, q
<1>10. board'.side_to_move = Chess!Opponent(side)
  BY <1>3, <1>8, <1>9
<1>11. {RightAt(r) : r \in board.castling}' = Chess!KeptRights
  <2>1. {RightAt(r) : r \in board.castling}' = {RightAt(r) : r \in b2.castling}
    BY <1>9
  <2> QED BY <1>7, <1>9, <2>1 DEF Chess!KeptRights, KeptIn
<1>12. {SquareAt(sq) : sq \in board.en_passant_square_}' = {}
  BY <1>3, <1>9
<1> QED BY <1>5, <1>6, <1>9, <1>10, <1>11, <1>12 DEF Chess!PlayCastling

\* The engine plays chess: from every well-formed position, every do_move of a move
\* of legal_moves() is a move of the rules, with its effect on the position, the
\* castling rights and the e.p. square, and everything else leaves them alone.
THEOREM EnginePlaysChess == Spec => PlaysChess
<1>1. Init => Chess!RulesInit
  <2> SUFFICES ASSUME Init PROVE Chess!RulesInit
    OBVIOUS
  <2> DEFINE other == flip_color(board.side_to_move)
  <2>1. WellFormed(board)
    BY StartsAssumption DEF Init
  <2>2. board \in BoardType /\ PiecesDisjoint(board) /\ board.side_to_move \in Color
        /\ ~is_king_attacked(board, other)
    BY <2>1 DEF WellFormed, BoardType, KingNotLeftInCheck
  <2>3. other \in Color /\ Chess!Opponent(board.side_to_move) = other
    BY <2>2, FlipColor DEF Chess!Opponent, flip_color
  <2>4. Depicts(Mailbox(board), board.bb)
    BY <2>2, MailboxDepicts
  <2>5. ~Chess!InCheck(Mailbox(board), other)
    BY <2>2, <2>3, <2>4, CheckIsSeen
  <2> QED BY <2>3, <2>5 DEF Chess!RulesInit
<1>2. Inv /\ [Next]_vars => [Chess!RulesNext]_(Chess!rvars)
  <2> SUFFICES ASSUME Inv, [Next]_vars PROVE [Chess!RulesNext]_(Chess!rvars)
    OBVIOUS
  <2>1. CASE board' = board
    BY <2>1 DEF Chess!rvars
  <2>2. CASE board' # board
    <3>1. PICK m \in legal_moves(board) : board' = do_move(board, m)
      BY <2>2, BoardChanges
    <3>2. WellFormed(board)
      BY DEF Inv
    <3>3. CASE m \in append_castling_moves(board)
      BY <3>1, <3>2, <3>3, CastlingStep DEF Chess!RulesNext
    <3>4. CASE m \notin append_castling_moves(board)
      BY <3>1, <3>2, <3>4, OrdinaryStep DEF Chess!RulesNext, legal_moves
    <3> QED BY <3>3, <3>4
  <2> QED BY <2>1, <2>2
<1> QED BY <1>1, <1>2, Invariance, PTL DEF Spec, PlaysChess, Chess!RulesSpec
=============================================================================
