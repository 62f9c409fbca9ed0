------------------------------- MODULE Rules -------------------------------
(***************************************************************************)
(* The rules of chess, as the abstract specification the engine's board    *)
(* must implement.  It shares nothing with the engine's data structures:   *)
(* the position is a function from squares to what stands on them, a       *)
(* square is a pair <<file, rank>>, and attacks are stated by the geometry *)
(* of a from/to pair and not by stepping.                                  *)
(***************************************************************************)
EXTENDS Integers

VARIABLES
  pos,      \* pos[s] = <<colour, piece>>, or Empty
  turn,     \* the side to move
  rights,   \* castling rights: a set of <<colour, corner file>>
  target    \* the en passant square, in a set of at most one element

rvars == <<pos, turn, rights, target>>

Squares == (0..7) \X (0..7)
Empty   == <<"none", "none">>
Officers == {"rook", "knight", "bishop", "queen"}

Opponent(c) == IF c = "white" THEN "black" ELSE "white"
Up(c)       == IF c = "white" THEN 1 ELSE -1
FirstRank(c) == IF c = "white" THEN 0 ELSE 7

Abs(n) == IF n < 0 THEN -n ELSE n
Sign(n) == IF n < 0 THEN -1 ELSE IF n > 0 THEN 1 ELSE 0

-----------------------------------------------------------------------------
(* Attacks. *)

OnFileOrRank(s, t) == (s[1] = t[1]) # (s[2] = t[2])
OnDiagonal(s, t)   == s # t /\ Abs(t[1] - s[1]) = Abs(t[2] - s[2])

\* The squares strictly between two squares of one line are empty in p.
Open(p, s, t) ==
  LET df == Sign(t[1] - s[1])
      dr == Sign(t[2] - s[2])
      distance == IF df # 0 THEN Abs(t[1] - s[1]) ELSE Abs(t[2] - s[2])
  IN  \A k \in 1..(distance - 1) : p[<<s[1] + k * df, s[2] + k * dr>>] = Empty

\* What stands on s in p attacks t.
Attacks(p, s, t) ==
  LET df == Abs(t[1] - s[1])
      dr == Abs(t[2] - s[2])
  IN  \/ p[s][2] = "pawn"   /\ df = 1 /\ t[2] = s[2] + Up(p[s][1])
      \/ p[s][2] = "knight" /\ {df, dr} = {1, 2}
      \/ p[s][2] = "king"   /\ s # t /\ df <= 1 /\ dr <= 1
      \/ p[s][2] \in {"rook", "queen"}   /\ OnFileOrRank(s, t) /\ Open(p, s, t)
      \/ p[s][2] \in {"bishop", "queen"} /\ OnDiagonal(s, t) /\ Open(p, s, t)

Attacked(p, by, t) == \E s \in Squares : p[s][1] = by /\ Attacks(p, s, t)

InCheck(p, c) == \E s \in Squares : p[s] = <<c, "king">> /\ Attacked(p, Opponent(c), s)

-----------------------------------------------------------------------------
(* Moves <<from, to, promotion>>; the promotion is "none" for most. *)

PawnReaches(p, s, t) ==
  LET ahead == <<s[1], s[2] + Up(turn)>>
  IN  \/ t = ahead /\ p[t] = Empty
      \/ /\ s[2] = FirstRank(turn) + Up(turn)
         /\ t = <<s[1], s[2] + 2 * Up(turn)>>
         /\ p[ahead] = Empty
         /\ p[t] = Empty
      \/ Attacks(p, s, t) /\ (p[t][1] = Opponent(turn) \/ t \in target)

Reaches(p, s, t) ==
  IF p[s][2] = "pawn"
  THEN PawnReaches(p, s, t)
  ELSE Attacks(p, s, t) /\ p[t][1] # turn

Promotions(p, s, t) ==
  IF p[s][2] = "pawn" /\ t[2] = FirstRank(Opponent(turn)) THEN Officers ELSE {"none"}

\* The square cleared by a move besides its origin: that of a pawn taken e.p.
TakenEnPassant(p, s, t) ==
  IF p[s][2] = "pawn" /\ t \in target /\ s[1] # t[1] THEN {<<t[1], s[2]>>} ELSE {}

After(p, s, t, promotion) ==
  [u \in Squares |->
     IF u = t THEN IF promotion = "none" THEN p[s] ELSE <<turn, promotion>>
     ELSE IF u = s \/ u \in TakenEnPassant(p, s, t) THEN Empty
     ELSE p[u]]

\* A move of chess leaves the mover's king out of check.
OrdinaryMoves ==
  LET p == pos
      fromTo == { x \in {s \in Squares : p[s][1] = turn} \X Squares :
                    /\ Reaches(p, x[1], x[2])
                    /\ ~InCheck(After(p, x[1], x[2], "none"), turn) }
  IN  UNION { { <<x[1], x[2], promotion>> : promotion \in Promotions(p, x[1], x[2]) }
              : x \in fromTo }

\* Castling with the rook of the given corner: the king goes two files
\* towards it, the rook to the square the king has crossed.
KingFrom    == <<4, FirstRank(turn)>>
KingTo(corner)  == <<IF corner = 7 THEN 6 ELSE 2, FirstRank(turn)>>
RookTo(corner)  == <<IF corner = 7 THEN 5 ELSE 3, FirstRank(turn)>>

MayCastle(corner) ==
  /\ <<turn, corner>> \in rights
  /\ Open(pos, KingFrom, <<corner, FirstRank(turn)>>)
  /\ ~Attacked(pos, Opponent(turn), KingFrom)
  /\ ~Attacked(pos, Opponent(turn), RookTo(corner))
  /\ ~Attacked(pos, Opponent(turn), KingTo(corner))

AfterCastling(corner) ==
  [u \in Squares |->
     CASE u = KingTo(corner) -> <<turn, "king">>
       [] u = RookTo(corner) -> <<turn, "rook">>
       [] u \in {KingFrom, <<corner, FirstRank(turn)>>} -> Empty
       [] OTHER -> pos[u]]

Castlings == { <<KingFrom, KingTo(corner), "none">> : corner \in {c \in {0, 7} : MayCastle(c)} }

LegalMoves == OrdinaryMoves \cup Castlings

-----------------------------------------------------------------------------
\* A right is kept while king and rook stand where they started.
KeptRights ==
  { r \in rights : /\ pos'[<<4, FirstRank(r[1])>>] = <<r[1], "king">>
                   /\ pos'[<<r[2], FirstRank(r[1])>>] = <<r[1], "rook">> }

\* The first conjuncts on q, the position afterwards, follow from the others;
\* they leave TLC few pairs of squares to try.
PlayOrdinary ==
  /\ turn' = Opponent(turn)
  /\ LET p == pos
         q == pos'
     IN  \E s \in {x \in Squares : p[x][1] = turn /\ q[x] = Empty} :
         \E t \in {x \in Squares : p[x][1] # turn /\ q[x][1] = turn} :
           /\ Reaches(p, s, t)
           /\ \E promotion \in Promotions(p, s, t) : q = After(p, s, t, promotion)
           /\ ~InCheck(q, turn)
           /\ target' = IF p[s][2] = "pawn" /\ Abs(t[2] - s[2]) = 2
                        THEN {<<s[1], s[2] + Up(turn)>>} ELSE {}
           /\ rights' = KeptRights

PlayCastling ==
  /\ turn' = Opponent(turn)
  /\ target' = {}
  /\ rights' = KeptRights
  /\ \E corner \in {0, 7} :
       /\ MayCastle(corner)
       /\ pos' = AfterCastling(corner)

\* A game may start anywhere the side that has moved is not in check.
RulesInit == ~InCheck(pos, Opponent(turn))
RulesNext == PlayOrdinary \/ PlayCastling
RulesSpec == RulesInit /\ [][RulesNext]_rvars
=============================================================================
