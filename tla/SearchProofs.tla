---------------------------- MODULE SearchProofs ----------------------------
(***************************************************************************)
(* The windows of the search nest, and it plays only legal moves, whatever *)
(* the game.  In every game in which captures run out it returns the       *)
(* minimax value.  The second half (from "Chess is such a game" on) shows  *)
(* that chess is such a game, so the search returns the minimax value of   *)
(* every well-formed position, to every depth.                             *)
(***************************************************************************)
EXTENDS ChessSearch, PositionProofs, WellFoundedInduction

-----------------------------------------------------------------------------
(* What the three ways to change the stack do to it. *)

\* The running frame is replaced (Continue).
LEMMA ReplaceTop ==
  ASSUME NEW S, NEW s \in Seq(S), s # <<>>, NEW f
  PROVE  LET t == <<f>> \o Tail(s)
         IN  /\ t \in Seq(S \cup {f})
             /\ Len(t) = Len(s)
             /\ t[1] = f
             /\ \A i \in 2..Len(s) : t[i] = s[i]
<1> DEFINE T == S \cup {f}
           t == <<f>> \o Tail(s)
<1>1. Tail(s) \in Seq(T) /\ Len(Tail(s)) = Len(s) - 1 /\ Len(s) \in Nat \ {0}
  OBVIOUS
<1>2. <<f>> \in Seq(T) /\ Len(<<f>>) = 1
  OBVIOUS
<1>3. t \in Seq(T) /\ Len(t) = Len(s)
  BY <1>1, <1>2
<1>4. t[1] = f
  BY <1>1, <1>2
<1>5. ASSUME NEW i \in 2..Len(s) PROVE t[i] = s[i]
  BY <1>1, <1>2
<1> QED BY <1>3, <1>4, <1>5

\* A frame is put on top of the replaced one (a call).
LEMMA PushTop ==
  ASSUME NEW S, NEW s \in Seq(S), s # <<>>, NEW f, NEW g
  PROVE  LET t == <<g, f>> \o Tail(s)
         IN  /\ t \in Seq(S \cup {f, g})
             /\ Len(t) = Len(s) + 1
             /\ t[1] = g
             /\ t[2] = f
             /\ \A i \in 2..Len(s) : t[i + 1] = s[i]
<1> DEFINE T == S \cup {f, g}
           t == <<g, f>> \o Tail(s)
<1>1. Tail(s) \in Seq(T) /\ Len(Tail(s)) = Len(s) - 1 /\ Len(s) \in Nat \ {0}
  OBVIOUS
<1>2. <<g, f>> \in Seq(T) /\ Len(<<g, f>>) = 2
  OBVIOUS
<1>3. t \in Seq(T) /\ Len(t) = Len(s) + 1
  BY <1>1, <1>2
<1>4. t[1] = g /\ t[2] = f
  BY <1>1, <1>2
<1>5. ASSUME NEW i \in 2..Len(s) PROVE t[i + 1] = s[i]
  BY <1>1, <1>2
<1> QED BY <1>3, <1>4, <1>5

\* The running frame is dropped (Return).
LEMMA PopTop ==
  ASSUME NEW S, NEW s \in Seq(S), s # <<>>
  PROVE  /\ Tail(s) \in Seq(S)
         /\ Len(Tail(s)) = Len(s) - 1
         /\ \A i \in 1..(Len(s) - 1) : Tail(s)[i] = s[i + 1]
  OBVIOUS

-----------------------------------------------------------------------------
(* The inductive invariant. *)

\* A frame is a record with the fields of `call`, and its bounds are integers.
Frame(f) ==
  /\ DOMAIN f = { "fn", "phase", "board", "depth", "alpha", "beta",
                  "moves", "trying", "pv" }
  /\ f.alpha \in Int
  /\ f.beta \in Int

\* The list that the loop of a call goes through.
MovesOf(f) ==
  IF f.fn = "alpha_beta" THEN LegalMoves(f.board) ELSE LegalCaptureMoves(f.board)

\* A call plays on a board of the game: in its loop what is left of its list,
\* while it waits one move of it.
Playing(f) ==
  /\ f.fn \in {"alpha_beta", "quiescence_search"}
  /\ f.phase \in {"called", "looping", "waiting"}
  /\ f.board \in Boards
  /\ f.fn = "alpha_beta" => f.depth \in Nat
  /\ f.phase = "called" => f.pv = <<>>
  /\ f.phase # "called" =>
       /\ f.moves \in Seq(Promise!Range(MovesOf(f)))
       /\ f.fn = "alpha_beta" => f.depth # 0 /\ LegalMoves(f.board) # <<>>
  /\ f.phase = "waiting" => \E m \in Promise!Range(MovesOf(f)) : f.trying = <<m>>

\* What holds of every call, and how it is linked to its caller.
SoundCall(f) == Frame(f) /\ Window(f) /\ Playing(f)

Linked(callee, caller) ==
  /\ caller.phase = "waiting"
  /\ callee.beta = -caller.alpha
  /\ callee.alpha >= -caller.beta

SoundStack(s) ==
  /\ \E S : s \in Seq(S)
  /\ \A i \in 1..Len(s) : SoundCall(s[i])
  /\ \A i \in 2..Len(s) : Linked(s[i - 1], s[i])

Inv == SoundStack(stack) /\ result.score \in Int

\* The invariant contains the property.
LEMMA InvImpliesWindowsNest == Inv => WindowsNest
<1> SUFFICES ASSUME Inv PROVE WindowsNest
  OBVIOUS
<1>1. PICK S : stack \in Seq(S)
  BY DEF Inv, SoundStack
<1>2. DOMAIN stack = 1..Len(stack) /\ Len(stack) \in Nat
  BY <1>1
<1>3. ASSUME NEW i \in 1..Len(stack) PROVE Window(stack[i])
  BY DEF Inv, SoundStack, SoundCall
<1>4. ASSUME NEW i \in 1..Len(stack), i > 1
      PROVE  Linked(stack[i - 1], stack[i])
  BY <1>2, <1>4 DEF Inv, SoundStack
<1> QED BY <1>2, <1>3, <1>4 DEF WindowsNest, Linked

\* The running frame goes on with a window that may have shrunk from below.
LEMMA ReplaceKeepsSound ==
  ASSUME NEW s, SoundStack(s), s # <<>>, NEW f, SoundCall(f),
         f.beta = Head(s).beta, f.alpha >= Head(s).alpha
  PROVE  SoundStack(<<f>> \o Tail(s))
<1> DEFINE t == <<f>> \o Tail(s)
<1>1. PICK S : s \in Seq(S)
  BY DEF SoundStack
<1>2. /\ t \in Seq(S \cup {f})
      /\ Len(t) = Len(s)
      /\ t[1] = f
      /\ \A i \in 2..Len(s) : t[i] = s[i]
  BY <1>1, ReplaceTop
<1>3. Len(s) \in Nat \ {0} /\ Head(s) = s[1]
  BY <1>1
<1> HIDE DEF t
<1>4. ASSUME NEW i \in 1..Len(t) PROVE SoundCall(t[i])
  <2>1. CASE i = 1 BY <2>1, <1>2
  <2>2. CASE i # 1 BY <2>2, <1>2, <1>3 DEF SoundStack
  <2> QED BY <2>1, <2>2
<1>5. ASSUME NEW i \in 2..Len(t) PROVE Linked(t[i - 1], t[i])
  <2>1. Linked(s[i - 1], s[i])
    BY <1>2, <1>3 DEF SoundStack
  <2>2. CASE i = 2
    <3>1. Linked(s[1], s[2]) /\ t[1] = f /\ t[2] = s[2] /\ 1 \in 1..Len(s)
      BY <2>1, <2>2, <1>2, <1>3
    <3>2. s[1].alpha \in Int /\ f.alpha \in Int /\ s[2].beta \in Int
      BY <3>1, <1>3, <1>2, <2>2 DEF SoundStack, SoundCall, Frame
    <3>3. f.beta = s[1].beta /\ f.alpha >= s[1].alpha
      BY <1>3
    <3> QED BY <2>2, <3>1, <3>2, <3>3 DEF Linked
  <2>3. CASE i # 2
    <3>1. i - 1 \in 2..Len(s) /\ i \in 2..Len(s)
      BY <2>3, <1>2, <1>3
    <3> QED BY <3>1, <2>1, <1>2
  <2> QED BY <2>2, <2>3
<1> QED BY <1>2, <1>4, <1>5 DEF SoundStack, t

\* A return.
LEMMA PopKeepsSound ==
  ASSUME NEW s, SoundStack(s), s # <<>>
  PROVE  SoundStack(Tail(s))
<1> DEFINE t == Tail(s)
<1>1. PICK S : s \in Seq(S)
  BY DEF SoundStack
<1>2. /\ t \in Seq(S)
      /\ Len(t) = Len(s) - 1
      /\ \A i \in 1..(Len(s) - 1) : t[i] = s[i + 1]
  BY <1>1, PopTop
<1>3. Len(s) \in Nat \ {0}
  BY <1>1
<1> HIDE DEF t
<1>4. ASSUME NEW i \in 1..Len(t) PROVE SoundCall(t[i])
  <2>1. i + 1 \in 1..Len(s) /\ t[i] = s[i + 1]
    BY <1>2, <1>3
  <2> QED BY <2>1 DEF SoundStack
<1>5. ASSUME NEW i \in 2..Len(t) PROVE Linked(t[i - 1], t[i])
  <2>1. i + 1 \in 2..Len(s) /\ t[i] = s[i + 1] /\ t[i - 1] = s[i] /\ i = (i + 1) - 1
    BY <1>2, <1>3
  <2>2. Linked(s[(i + 1) - 1], s[i + 1])
    BY <2>1 DEF SoundStack
  <2> QED BY <2>1, <2>2
<1> QED BY <1>2, <1>4, <1>5 DEF SoundStack, t

\* A call.
LEMMA PushKeepsSound ==
  ASSUME NEW s, SoundStack(s), s # <<>>, NEW f, NEW g, SoundCall(f), SoundCall(g),
         Linked(g, f), f.beta = Head(s).beta, f.alpha = Head(s).alpha
  PROVE  SoundStack(<<g, f>> \o Tail(s))
<1> DEFINE t == <<g, f>> \o Tail(s)
<1>1. PICK S : s \in Seq(S)
  BY DEF SoundStack
<1>2. /\ t \in Seq(S \cup {f, g})
      /\ Len(t) = Len(s) + 1
      /\ t[1] = g
      /\ t[2] = f
      /\ \A i \in 2..Len(s) : t[i + 1] = s[i]
  BY <1>1, PushTop
<1>3. Len(s) \in Nat \ {0} /\ Head(s) = s[1]
  BY <1>1
<1> HIDE DEF t
<1>4. ASSUME NEW i \in 3..Len(t) PROVE i - 1 \in 2..Len(s) /\ t[i] = s[i - 1]
  <2>1. i - 1 \in 2..Len(s) /\ i = (i - 1) + 1
    BY <1>2, <1>3
  <2>2. t[(i - 1) + 1] = s[i - 1]
    BY <2>1, <1>2
  <2> QED BY <2>1, <2>2
<1>5. ASSUME NEW i \in 1..Len(t) PROVE SoundCall(t[i])
  <2>1. CASE i \in {1, 2} BY <2>1, <1>2
  <2>2. CASE i \notin {1, 2}
    <3>1. i \in 3..Len(t)
      BY <2>2, <1>2, <1>3
    <3>2. i - 1 \in 1..Len(s)
      BY <3>1, <1>4, <1>3
    <3> QED BY <3>1, <3>2, <1>4 DEF SoundStack
  <2> QED BY <2>1, <2>2
<1>6. ASSUME NEW i \in 2..Len(t) PROVE Linked(t[i - 1], t[i])
  <2>1. CASE i = 2 BY <2>1, <1>2
  <2>2. CASE i = 3
    <3>1. 2 \in 2..Len(s) /\ t[3] = s[2] /\ 3 \in 3..Len(t)
      BY <2>2, <1>2, <1>3
    <3>2. Linked(s[1], s[2])
      BY <3>1 DEF SoundStack
    <3> QED BY <2>2, <3>1, <3>2, <1>2, <1>3 DEF Linked
  <2>3. CASE i \notin {2, 3}
    <3>1. i \in 3..Len(t) /\ i - 1 \in 3..Len(t)
      BY <2>3, <1>2, <1>3
    <3>2. t[i] = s[i - 1] /\ t[i - 1] = s[(i - 1) - 1] /\ i - 1 \in 2..Len(s)
      BY <3>1, <1>4
    <3>3. Linked(s[(i - 1) - 1], s[i - 1])
      BY <3>2 DEF SoundStack
    <3> QED BY <3>2, <3>3
  <2> QED BY <2>1, <2>2, <2>3
<1> QED BY <1>2, <1>5, <1>6 DEF SoundStack, t

-----------------------------------------------------------------------------
(* The steps. *)

\* The running frame, while there is one.
LEMMA TopIsSound ==
  ASSUME Inv, stack # <<>>
  PROVE  SoundCall(top) /\ SoundStack(stack) /\ result.score \in Int
<1>1. PICK S : stack \in Seq(S)
  BY DEF Inv, SoundStack
<1>2. top = stack[1] /\ 1 \in 1..Len(stack)
  BY <1>1 DEF top
<1> QED BY <1>2 DEF Inv, SoundStack

\* A step inside the running call.
LEMMA ContinueKeepsInv ==
  ASSUME Inv, stack # <<>>, NEW f, SoundCall(f),
         f.beta = top.beta, f.alpha >= top.alpha, Continue(f)
  PROVE  Inv'
<1>1. SoundStack(<<f>> \o Tail(stack))
  BY TopIsSound, ReplaceKeepsSound DEF top
<1>2. result.score \in Int
  BY DEF Inv
<1> QED BY <1>1, <1>2 DEF Continue, Inv

\* A return hands back an integer.
LEMMA ReturnKeepsInv ==
  ASSUME Inv, stack # <<>>, NEW score \in Int, Return(score)
  PROVE  Inv'
<1>1. SoundStack(Tail(stack))
  BY TopIsSound, PopKeepsSound
<1>2. result'.score = score
  BY DEF Return
<1> QED BY <1>1, <1>2 DEF Return, Inv

\* The frame of a call on a board of the game with a proper window is sound.
LEMMA CallIsSound ==
  ASSUME NEW fn \in {"alpha_beta", "quiescence_search"}, NEW board \in Boards, NEW depth,
         fn = "alpha_beta" => depth \in Nat, NEW alpha \in Int, NEW beta \in Int,
         -Infinity <= alpha, alpha < beta, beta <= Infinity
  PROVE  LET f == call(fn, board, depth, alpha, beta)
         IN  SoundCall(f) /\ f.alpha = alpha /\ f.beta = beta
  BY InfinityAssumption DEF call, SoundCall, Frame, Window, Playing

\* The first call has the widest window.
LEMMA InitImpliesInv == IsGame /\ Init => Inv
<1> SUFFICES ASSUME IsGame, Init PROVE Inv
  OBVIOUS
<1> DEFINE f == call("alpha_beta", query[1], query[2], -Infinity, Infinity)
<1>0. query[1] \in Boards /\ query[2] \in Nat
  BY DEF IsGame, Init
<1>1. SoundCall(f)
  BY <1>0, CallIsSound, InfinityAssumption
<1>2. stack = <<f>> /\ result.score = 0
  BY DEF Init
<1> HIDE DEF f
<1>3. stack \in Seq({f}) /\ Len(stack) = 1 /\ stack[1] = f
  BY <1>2
<1>4. \E S : stack \in Seq(S)
  BY <1>3
<1>5. \A i \in 1..Len(stack) : SoundCall(stack[i])
  BY <1>1, <1>3
<1>6. \A i \in 2..Len(stack) : Linked(stack[i - 1], stack[i])
  BY <1>3
<1> QED BY <1>2, <1>4, <1>5, <1>6 DEF Inv, SoundStack

\* The window is handed over as it is.
LEMMA EnterAlphaBetaKeepsInv ==
  ASSUME IsGame, Inv, EnterAlphaBeta PROVE Inv'
<1> DEFINE moves == LegalMoves(top.board)
           handed == [top EXCEPT !.fn = "quiescence_search"]
           looping == [top EXCEPT !.phase = "looping", !.moves = moves]
<1>1. /\ stack # <<>> /\ top.fn = "alpha_beta" /\ top.phase = "called"
      /\ IF top.depth = 0 \/ moves = <<>> THEN Continue(handed) ELSE Continue(looping)
  BY DEF EnterAlphaBeta, At
<1>2. SoundCall(top)
  BY <1>1, TopIsSound
<1>3. handed.alpha = top.alpha /\ handed.beta = top.beta /\ SoundCall(handed)
  BY <1>1, <1>2 DEF SoundCall, Frame, Window, Playing
<1>4. /\ looping.alpha = top.alpha /\ looping.beta = top.beta
      /\ ~(top.depth = 0 \/ moves = <<>>) => SoundCall(looping)
  <2>1. /\ looping.fn = "alpha_beta" /\ looping.phase = "looping" /\ looping.board = top.board
        /\ looping.depth = top.depth /\ looping.moves = moves /\ DOMAIN looping = DOMAIN top
        /\ looping.alpha = top.alpha /\ looping.beta = top.beta
    BY <1>1, <1>2 DEF SoundCall, Frame
  <2>2. Frame(looping) /\ Window(looping)
    BY <1>2, <2>1 DEF SoundCall, Frame, Window
  <2>3. MovesOf(looping) = moves
    BY <2>1 DEF MovesOf
  <2>4. moves \in Seq(Promise!Range(moves))
    BY <1>2 DEF IsGame, SoundCall, Playing
  <2> HIDE DEF looping, moves
  <2>5. ~(top.depth = 0 \/ moves = <<>>) => Playing(looping)
    BY <1>1, <1>2, <2>1, <2>3, <2>4 DEF SoundCall, Playing, moves
  <2> QED BY <2>1, <2>2, <2>5 DEF SoundCall
<1>5. top.alpha >= top.alpha
  BY <1>2 DEF SoundCall, Frame
<1> HIDE DEF handed, looping
<1> QED BY <1>1, <1>3, <1>4, <1>5, ContinueKeepsInv

\* Standing pat raises alpha, but not to beta.
LEMMA EnterQuiescenceKeepsInv ==
  ASSUME IsGame, Inv, EnterQuiescence PROVE Inv'
<1> DEFINE score == own_score(top.board)
           raised == IF score > top.alpha THEN score ELSE top.alpha
           moves == LegalCaptureMoves(top.board)
           looping == [top EXCEPT !.phase = "looping", !.alpha = raised, !.moves = moves]
<1>1. /\ stack # <<>> /\ top.fn = "quiescence_search"
      /\ IF score >= top.beta THEN Return(top.beta) ELSE Continue(looping)
  BY DEF EnterQuiescence, At
<1>2. SoundCall(top)
  BY <1>1, TopIsSound
<1>3. score \in Int
  <2>1. StaticEvaluation(top.board) \in Int
    BY <1>2 DEF IsGame, SoundCall, Playing
  <2> QED BY <2>1 DEF own_score
<1> HIDE DEF score
<1>4. CASE score >= top.beta
  BY <1>1, <1>2, <1>4, ReturnKeepsInv DEF SoundCall, Frame
<1>5. CASE ~(score >= top.beta)
  <2>1. raised \in Int /\ raised >= top.alpha /\ raised < top.beta
    BY <1>2, <1>3, <1>5 DEF SoundCall, Frame, Window
  <2> HIDE DEF raised
  <2>2. /\ looping.fn = "quiescence_search" /\ looping.phase = "looping" /\ looping.board = top.board
        /\ looping.moves = moves /\ DOMAIN looping = DOMAIN top
        /\ looping.alpha = raised /\ looping.beta = top.beta
    BY <1>1, <1>2 DEF SoundCall, Frame
  <2>3. moves \in Seq(Promise!Range(moves))
    BY <1>2 DEF IsGame, SoundCall, Playing
  <2>4. Continue(looping)
    BY <1>1, <1>5
  <2> HIDE DEF looping, moves
  <2>5. Frame(looping) /\ Window(looping)
    BY <1>2, <2>1, <2>2, InfinityAssumption DEF SoundCall, Frame, Window
  <2>6. Playing(looping)
    BY <1>2, <2>2, <2>3 DEF SoundCall, Playing, MovesOf, moves
  <2> QED BY <1>1, <2>1, <2>2, <2>4, <2>5, <2>6, ContinueKeepsInv DEF SoundCall
<1> QED BY <1>4, <1>5

\* The frame that a call leaves behind, and the frame of the callee.
LEMMA CallerAndCallee ==
  ASSUME IsGame, NEW t, SoundCall(t), t.phase = "looping", t.moves # <<>>
  PROVE  LET move == Head(t.moves)
             f == [t EXCEPT !.phase = "waiting", !.trying = <<move>>, !.moves = Tail(t.moves)]
             g == call(t.fn, DoMove(t.board, move), t.depth - 1, -t.beta, -t.alpha)
         IN  SoundCall(f) /\ SoundCall(g) /\ Linked(g, f) /\ f.alpha = t.alpha /\ f.beta = t.beta
<1> DEFINE move == Head(t.moves)
           f == [t EXCEPT !.phase = "waiting", !.trying = <<move>>, !.moves = Tail(t.moves)]
           g == call(t.fn, DoMove(t.board, move), t.depth - 1, -t.beta, -t.alpha)
           R == Promise!Range(MovesOf(t))
<1>1. t.moves \in Seq(R) /\ Playing(t) /\ Frame(t) /\ Window(t)
  BY DEF SoundCall, Playing
<1>2. move \in R /\ Tail(t.moves) \in Seq(R)
  BY <1>1
<1>3. /\ f.fn = t.fn /\ f.phase = "waiting" /\ f.board = t.board /\ f.depth = t.depth
      /\ f.alpha = t.alpha /\ f.beta = t.beta /\ f.moves = Tail(t.moves)
      /\ f.trying = <<move>> /\ DOMAIN f = DOMAIN t
  BY <1>1 DEF Frame
<1>4. t.fn \in {"alpha_beta", "quiescence_search"} /\ t.board \in Boards
  BY <1>1 DEF Playing
<1>5. DoMove(t.board, move) \in Boards
  BY <1>2, <1>4 DEF IsGame, MovesOf
<1>6. t.fn = "alpha_beta" => t.depth - 1 \in Nat
  BY <1>1 DEF Playing
<1>7. /\ -t.beta \in Int /\ -t.alpha \in Int
      /\ -Infinity <= -t.beta /\ -t.beta < -t.alpha /\ -t.alpha <= Infinity
  BY <1>1, InfinityAssumption DEF Frame, Window
<1>8. SoundCall(g) /\ g.alpha = -t.beta /\ g.beta = -t.alpha
  BY <1>4, <1>5, <1>6, <1>7, CallIsSound
<1> HIDE DEF f, g, move
<1>9. MovesOf(f) = MovesOf(t)
  BY <1>3 DEF MovesOf
<1> HIDE DEF R
<1>10. Playing(f)
  <2>1. f.moves \in Seq(Promise!Range(MovesOf(f))) /\ move \in Promise!Range(MovesOf(f))
    BY <1>2, <1>3, <1>9 DEF R
  <2> QED BY <1>1, <1>3, <2>1 DEF Playing
<1>11. SoundCall(f)
  BY <1>1, <1>3, <1>10 DEF SoundCall, Frame, Window
<1>12. Linked(g, f)
  BY <1>3, <1>7, <1>8 DEF Linked
<1> QED BY <1>3, <1>8, <1>11, <1>12 DEF f, g, move

\* Negating and swapping the bounds of a window gives a window.
LEMMA SearchChildKeepsInv ==
  ASSUME IsGame, Inv, SearchChild PROVE Inv'
<1> DEFINE move == Head(top.moves)
           g == call(top.fn, DoMove(top.board, move), top.depth - 1, -top.beta, -top.alpha)
           f == [top EXCEPT !.phase = "waiting", !.trying = <<move>>, !.moves = Tail(top.moves)]
<1>1. /\ stack # <<>> /\ top.phase = "looping" /\ top.moves # <<>>
      /\ stack' = <<g, f>> \o Tail(stack) /\ result' = result
  BY DEF SearchChild, At
<1>2. SoundCall(top) /\ SoundStack(stack) /\ result.score \in Int
  BY <1>1, TopIsSound
<1>3. SoundCall(f) /\ SoundCall(g) /\ Linked(g, f) /\ f.alpha = top.alpha /\ f.beta = top.beta
  BY <1>1, <1>2, CallerAndCallee
<1> HIDE DEF f, g
<1>4. SoundStack(<<g, f>> \o Tail(stack))
  BY <1>1, <1>2, <1>3, PushKeepsSound DEF top
<1> QED BY <1>1, <1>2, <1>4 DEF Inv

\* A cutoff returns beta.
LEMMA CutOffKeepsInv ==
  ASSUME Inv, CutOff PROVE Inv'
<1>1. stack # <<>> /\ Return(top.beta)
  BY DEF CutOff, At
<1>2. top.beta \in Int
  BY <1>1, TopIsSound DEF SoundCall, Frame
<1> QED BY <1>1, <1>2, ReturnKeepsInv

\* The loop goes on, with the window it had or a smaller one.
LEMMA LoopingIsSound ==
  ASSUME NEW t, SoundCall(t), t.phase = "waiting", NEW f, DOMAIN f = DOMAIN t, f.phase = "looping",
         f.fn = t.fn, f.board = t.board, f.depth = t.depth, f.moves = t.moves, f.beta = t.beta,
         f.alpha \in Int, f.alpha >= t.alpha, f.alpha < t.beta
  PROVE  SoundCall(f)
<1>1. MovesOf(f) = MovesOf(t)
  BY DEF MovesOf
<1>2. Playing(f)
  BY <1>1 DEF SoundCall, Playing
<1>3. Frame(f) /\ Window(f)
  BY InfinityAssumption DEF SoundCall, Frame, Window
<1> QED BY <1>2, <1>3 DEF SoundCall

\* A better score is below beta.
LEMMA ImproveKeepsInv ==
  ASSUME Inv, Improve PROVE Inv'
<1> DEFINE score == child_score
           f == [top EXCEPT !.phase = "looping", !.trying = <<>>, !.alpha = score,
                            !.pv = top.trying \o result.line]
<1>1. /\ stack # <<>> /\ top.phase = "waiting" /\ score < top.beta /\ score > top.alpha
      /\ Continue(f)
  BY DEF Improve, At
<1>2. SoundCall(top) /\ result.score \in Int
  BY <1>1, TopIsSound
<1>3. score \in Int
  BY <1>2 DEF child_score
<1> HIDE DEF score
<1>4. /\ DOMAIN f = DOMAIN top /\ f.phase = "looping" /\ f.fn = top.fn /\ f.board = top.board
      /\ f.depth = top.depth /\ f.moves = top.moves /\ f.beta = top.beta /\ f.alpha = score
  BY <1>2 DEF SoundCall, Frame
<1> HIDE DEF f
<1>5. f.alpha \in Int /\ f.alpha >= top.alpha /\ f.alpha < top.beta
  BY <1>1, <1>2, <1>3, <1>4 DEF SoundCall, Frame
<1>6. SoundCall(f)
  BY <1>1, <1>2, <1>4, <1>5, LoopingIsSound
<1> QED BY <1>1, <1>4, <1>5, <1>6, ContinueKeepsInv

\* The window stays.
LEMMA RejectKeepsInv ==
  ASSUME Inv, Reject PROVE Inv'
<1> DEFINE f == [top EXCEPT !.phase = "looping", !.trying = <<>>]
<1>1. stack # <<>> /\ top.phase = "waiting" /\ Continue(f)
  BY DEF Reject, At
<1>2. SoundCall(top)
  BY <1>1, TopIsSound
<1>3. /\ DOMAIN f = DOMAIN top /\ f.phase = "looping" /\ f.fn = top.fn /\ f.board = top.board
      /\ f.depth = top.depth /\ f.moves = top.moves /\ f.beta = top.beta /\ f.alpha = top.alpha
  BY <1>2 DEF SoundCall, Frame
<1> HIDE DEF f
<1>4. f.alpha \in Int /\ f.alpha >= top.alpha /\ f.alpha < top.beta
  BY <1>2, <1>3 DEF SoundCall, Frame, Window
<1>5. SoundCall(f)
  BY <1>1, <1>2, <1>3, <1>4, LoopingIsSound
<1> QED BY <1>1, <1>3, <1>4, <1>5, ContinueKeepsInv

\* The end of the loop returns alpha.
LEMMA ReturnAlphaKeepsInv ==
  ASSUME Inv, ReturnAlpha PROVE Inv'
<1>1. stack # <<>> /\ Return(top.alpha)
  BY DEF ReturnAlpha, At
<1>2. top.alpha \in Int
  BY <1>1, TopIsSound DEF SoundCall, Frame
<1> QED BY <1>1, <1>2, ReturnKeepsInv

-----------------------------------------------------------------------------
\* Every step keeps the invariant.
LEMMA NextKeepsInv ==
  ASSUME IsGame, Inv, [Next]_vars
  PROVE  Inv'
<1>1. CASE EnterAlphaBeta  BY <1>1, EnterAlphaBetaKeepsInv
<1>2. CASE EnterQuiescence BY <1>2, EnterQuiescenceKeepsInv
<1>3. CASE SearchChild     BY <1>3, SearchChildKeepsInv
<1>4. CASE CutOff          BY <1>4, CutOffKeepsInv
<1>5. CASE Improve         BY <1>5, ImproveKeepsInv
<1>6. CASE Reject          BY <1>6, RejectKeepsInv
<1>7. CASE ReturnAlpha     BY <1>7, ReturnAlphaKeepsInv
<1>8. CASE UNCHANGED vars  BY <1>8 DEF Inv, vars
<1> QED BY <1>1, <1>2, <1>3, <1>4, <1>5, <1>6, <1>7, <1>8 DEF Next

\* In every game alpha_beta and quiescence_search never call each other with an
\* empty window, and the window of a call stays inside that of its caller as the
\* enemy sees it.
THEOREM WindowsAlwaysNest == IsGame => (Spec => []WindowsNest)
<1> SUFFICES ASSUME IsGame PROVE Spec => []WindowsNest
  OBVIOUS
<1>1. Init => Inv
  BY InitImpliesInv
<1>2. Inv /\ [Next]_vars => Inv'
  BY NextKeepsInv
<1>3. Inv => WindowsNest
  BY InvImpliesWindowsNest
<1> QED BY <1>1, <1>2, <1>3, PTL DEF Spec

-----------------------------------------------------------------------------
(* Minimax. *)

\* No sequence of captures goes on for ever: every set of boards has one that no
\* capture leads from to another board of the set.
CapturesRunOut ==
  \A T \in SUBSET Boards :
    T # {} => \E b \in T : \A m \in Promise!Range(LegalCaptureMoves(b)) : DoMove(b, m) \notin T

-----------------------------------------------------------------------------
(* The recursive definition of Value defines a function. *)

\* Induction over numbers, in the form in which it is used here.
LEMMA LeastNumber ==
  ASSUME NEW T \in SUBSET Nat, T # {}
  PROVE  \E n \in T : \A k \in T : n <= k
<1> DEFINE R == OpToRel(<, Nat)
<1>1. IsWellFoundedOn(R, Nat)
  BY NatLessThanWellFounded, Zenon
<1>2. \E x \in T : \A y \in T : ~(<<y, x>> \in R)
  <2> HIDE DEF R
  <2> QED BY <1>1, WFMin
<1>3. ASSUME NEW x \in Nat, NEW y \in Nat, ~(y < x) PROVE x <= y
  BY <1>3
<1>4. ASSUME NEW x \in Nat, NEW y \in Nat, ~(<<y, x>> \in R) PROVE ~(y < x)
  BY <1>4, Zenon DEF OpToRel
<1> QED BY <1>2, <1>3, <1>4

Asked == Boards \X Nat

\* The board and depth asked for at the horizon or at the end of the game.
AtRest(q) == q[2] = 0 \/ LegalMoves(q[1]) = <<>>

\* What the value of q is made of.
Kids(q) ==
  IF AtRest(q)
  THEN {<<DoMove(q[1], m), 0>> : m \in Promise!Range(LegalCaptureMoves(q[1]))}
  ELSE {<<DoMove(q[1], m), q[2] - 1>> : m \in Promise!Range(LegalMoves(q[1]))}

\* The scores that the player to move chooses from, when f gives the values.
Choices(f, q) ==
  (IF AtRest(q) THEN {StaticEvaluation(q[1])} ELSE {}) \cup {f[k] : k \in Kids(q)}

Step(f, q) == Promise!Best(q[1], Choices(f, q))

\* Without legal moves there are no captures.
LEMMA NoMovesNoCaptures ==
  ASSUME IsGame, NEW b \in Boards, LegalMoves(b) = <<>>
  PROVE  Promise!Range(LegalCaptureMoves(b)) = {}
<1>1. Promise!Range(<<>>) = {}
  BY DEF Promise!Range
<1> QED BY <1>1 DEF IsGame

\* The values of q are values of boards of the game.
LEMMA KidsAreAsked ==
  ASSUME IsGame, NEW q \in Asked
  PROVE  Kids(q) \in SUBSET Asked
<1>1. q[1] \in Boards /\ q[2] \in Nat
  BY DEF Asked
<1>2. CASE AtRest(q)
  BY <1>1, <1>2 DEF Kids, IsGame, Asked
<1>3. CASE ~AtRest(q)
  <2>1. q[2] - 1 \in Nat
    BY <1>1, <1>3 DEF AtRest
  <2> QED BY <1>1, <1>3, <2>1 DEF Kids, IsGame, Asked
<1> QED BY <1>2, <1>3

\* Every set of questions has one that does not lead to another of the set:
\* depths run out, and then captures do.
LEMMA KidsRunOut ==
  ASSUME IsGame, CapturesRunOut, NEW T \in SUBSET Asked, T # {}
  PROVE  \E q \in T : Kids(q) \cap T = {}
<1> DEFINE D == {q[2] : q \in T}
<1>1. D \in SUBSET Nat /\ D # {}
  BY DEF Asked
<1>2. PICK d \in D : \A k \in D : d <= k
  BY <1>1, LeastNumber
<1>3. d \in Nat
  BY <1>1, <1>2
<1>4. CASE d = 0
  <2> DEFINE B == {q[1] : q \in {x \in T : x[2] = 0}}
  <2>1. B \in SUBSET Boards /\ B # {}
    BY <1>2, <1>4 DEF Asked
  <2>2. PICK b \in B : \A m \in Promise!Range(LegalCaptureMoves(b)) : DoMove(b, m) \notin B
    BY <2>1 DEF CapturesRunOut
  <2>3. PICK q \in T : q[1] = b /\ q[2] = 0
    BY <2>2
  <2>4. ASSUME NEW k \in Kids(q), k \in T PROVE FALSE
    <3>1. PICK m \in Promise!Range(LegalCaptureMoves(b)) : k = <<DoMove(b, m), 0>>
      BY <2>3, <2>4 DEF Kids, AtRest
    <3>2. k[1] = DoMove(b, m) /\ k[2] = 0
      BY <3>1
    <3>3. k[1] \in B
      BY <2>4, <3>2
    <3> QED BY <3>1, <3>2, <3>3, <2>2
  <2> QED BY <2>3, <2>4
<1>5. CASE d # 0
  <2>1. PICK q \in T : q[2] = d
    BY <1>2
  <2>2. q \in Asked /\ q[1] \in Boards
    BY <2>1 DEF Asked
  <2>3. ASSUME NEW k \in Kids(q), k \in T PROVE FALSE
    <3>1. CASE LegalMoves(q[1]) = <<>>
      <4>1. Kids(q) = {}
        BY <3>1, <2>2, NoMovesNoCaptures DEF Kids, AtRest
      <4> QED BY <4>1, <2>3
    <3>2. CASE LegalMoves(q[1]) # <<>>
      <4>1. PICK m : k = <<DoMove(q[1], m), d - 1>>
        BY <3>2, <1>5, <2>1, <2>3 DEF Kids, AtRest
      <4>2. d - 1 \in D
        BY <4>1, <2>3
      <4> QED BY <4>2, <1>2, <1>3
    <3> QED BY <3>1, <3>2
  <2> QED BY <2>1, <2>3
<1> QED BY <1>4, <1>5

\* Step looks at the values of the kids only.
LEMMA StepDependsOnKids ==
  ASSUME NEW f, NEW g, NEW q, \A k \in Kids(q) : f[k] = g[k]
  PROVE  Step(f, q) = Step(g, q)
<1>1. {f[k] : k \in Kids(q)} = {g[k] : k \in Kids(q)}
  OBVIOUS
<1> QED BY <1>1 DEF Step, Choices

\* A part of the questions, closed under Kids, for which g gives the values.
Attempt(A, g) ==
  /\ A \in SUBSET Asked
  /\ \A q \in A : Kids(q) \in SUBSET A
  /\ g = [q \in A |-> Step(g, q)]

\* Two attempts agree where both are defined.
LEMMA AttemptsAgree ==
  ASSUME IsGame, CapturesRunOut, NEW A, NEW g, Attempt(A, g), NEW B, NEW h, Attempt(B, h),
         NEW q, q \in A, q \in B
  PROVE  g[q] = h[q]
<1> DEFINE T == {x \in A \cap B : g[x] # h[x]}
<1>1. SUFFICES ASSUME T # {} PROVE FALSE
  OBVIOUS
<1>2. T \in SUBSET Asked
  BY DEF Attempt
<1>3. PICK x \in T : Kids(x) \cap T = {}
  BY <1>1, <1>2, KidsRunOut
<1>4. x \in A /\ x \in B /\ g[x] # h[x]
  BY <1>3
<1>5. \A k \in Kids(x) : g[k] = h[k]
  BY <1>3, <1>4 DEF Attempt
<1>6. Step(g, x) = Step(h, x)
  BY <1>5, StepDependsOnKids
<1>7. g[x] = Step(g, x) /\ h[x] = Step(h, x)
  BY <1>4 DEF Attempt
<1> QED BY <1>4, <1>6, <1>7

\* All attempts together are an attempt, and it leaves out no question.
LEMMA ValueExists ==
  ASSUME IsGame, CapturesRunOut
  PROVE  \E f : f = [q \in Asked |-> Step(f, q)]
<1> DEFINE Holds(p, q) == Attempt(p[1], p[2]) /\ q \in p[1]
           All == {q \in Asked : \E p : Holds(p, q)}
           F == [q \in All |-> (CHOOSE p : Holds(p, q))[2][q]]
<1>1. ASSUME NEW p, NEW q, Holds(p, q) PROVE q \in All /\ F[q] = p[2][q]
  <2>1. q \in All
    BY <1>1 DEF Attempt
  <2> DEFINE o == CHOOSE x : Holds(x, q)
  <2>2. Holds(o, q)
    BY <1>1
  <2>3. F[q] = o[2][q]
    BY <2>1
  <2> HIDE DEF o
  <2>4. o[2][q] = p[2][q]
    BY <1>1, <2>2, AttemptsAgree
  <2> QED BY <2>1, <2>3, <2>4
<1>2. ASSUME NEW q \in All PROVE Kids(q) \in SUBSET All /\ F[q] = Step(F, q)
  <2>1. PICK p : Holds(p, q)
    OBVIOUS
  <2>2. \A k \in Kids(q) : Holds(p, k)
    BY <2>1 DEF Attempt
  <2> HIDE DEF Holds, All, F
  <2>3. \A k \in Kids(q) : k \in All /\ F[k] = p[2][k]
    BY <2>2, <1>1
  <2>4. Step(F, q) = Step(p[2], q)
    BY <2>3, StepDependsOnKids
  <2>5. p[2][q] = Step(p[2], q)
    BY <2>1 DEF Holds, Attempt
  <2>6. F[q] = p[2][q]
    BY <2>1, <1>1
  <2> QED BY <2>3, <2>4, <2>5, <2>6
<1>3. DOMAIN F = All /\ F = [q \in All |-> F[q]] /\ All \in SUBSET Asked
  OBVIOUS
<1> HIDE DEF F
<1>4. Attempt(All, F)
  <2> HIDE DEF All
  <2> QED BY <1>2, <1>3 DEF Attempt
<1>5. Asked \subseteq All
  <2> SUFFICES ASSUME Asked \ All # {} PROVE FALSE
    OBVIOUS
  <2>1. PICK q \in Asked \ All : Kids(q) \cap (Asked \ All) = {}
    BY KidsRunOut
  <2>2. Kids(q) \in SUBSET All
    BY <2>1, KidsAreAsked
  <2> DEFINE A == All \cup {q}
             g == [x \in A |-> Step(F, x)]
  <2>3. \A x \in All : g[x] = F[x]
    BY <1>2
  <2>4. \A x \in A : Kids(x) \in SUBSET All
    BY <1>2, <2>2
  <2>5. ASSUME NEW x \in A PROVE Step(g, x) = Step(F, x)
    <3>1. \A k \in Kids(x) : g[k] = F[k]
      BY <2>3, <2>4
    <3> HIDE DEF g
    <3> QED BY <3>1, StepDependsOnKids
  <2>6. g = [x \in A |-> Step(g, x)]
    BY <2>5
  <2>7. A \in SUBSET Asked /\ \A x \in A : Kids(x) \in SUBSET A
    BY <1>3, <2>1, <2>4
  <2> HIDE DEF A, g, All
  <2>8. Attempt(A, g)
    BY <2>6, <2>7 DEF Attempt
  <2>9. q \in A
    BY DEF A
  <2>10. Holds(<<A, g>>, q)
    BY <2>8, <2>9
  <2>11. q \in All
    BY <2>10, <1>1
  <2> QED BY <2>1, <2>11
<1>6. All = Asked
  BY <1>3, <1>5
<1> HIDE DEF All
<1>7. F = [q \in Asked |-> Step(F, q)]
  BY <1>4, <1>6 DEF Attempt
<1> QED BY <1>7

\* The recursive definition holds as an equation.
LEMMA ValueEquation ==
  ASSUME IsGame, CapturesRunOut, NEW q \in Asked
  PROVE  Promise!Value[q] = Step(Promise!Value, q)
<1> DEFINE Body(f, x) ==
      Promise!Best(x[1],
        IF x[2] = 0 \/ LegalMoves(x[1]) = <<>>
        THEN {StaticEvaluation(x[1])} \cup
             {f[<<DoMove(x[1], m), 0>>] : m \in Promise!Range(LegalCaptureMoves(x[1]))}
        ELSE {f[<<DoMove(x[1], m), x[2] - 1>>] : m \in Promise!Range(LegalMoves(x[1]))})
<1>1. ASSUME NEW f, NEW x PROVE Body(f, x) = Step(f, x)
  BY DEF Step, Choices, Kids, AtRest
<1>2. Promise!Value = CHOOSE f : f = [x \in Boards \X Nat |-> Body(f, x)]
  BY Zenon DEF Promise!Value
<1> HIDE DEF Body
<1>3. \E f : f = [x \in Boards \X Nat |-> Body(f, x)]
  BY <1>1, ValueExists DEF Asked
<1>4. Promise!Value = [x \in Boards \X Nat |-> Body(Promise!Value, x)]
  BY <1>2, <1>3, Zenon
<1>5. Promise!Value[q] = Body(Promise!Value, q)
  BY <1>4 DEF Asked
<1> QED BY <1>1, <1>5

-----------------------------------------------------------------------------
(* The value is the best of the choices. *)

\* A list of integers has a largest element.
LEMMA ListHasMax ==
  ASSUME NEW n \in Nat \ {0}, NEW e \in [1..n -> Int]
  PROVE  \E i \in 1..n : \A j \in 1..n : e[j] <= e[i]
<1> DEFINE Top(k, i) == \A j \in 1..k : e[j] <= e[i]
           T == {k \in 1..n : ~\E i \in 1..k : Top(k, i)}
<1>0. T = {} => \E i \in 1..n : Top(n, i)
  <2>1. n \in 1..n
    OBVIOUS
  <2> HIDE DEF Top
  <2> QED BY <2>1
<1>1. SUFFICES ASSUME T # {} PROVE FALSE
  BY <1>0
<1>2. PICK k \in T : \A l \in T : k <= l
  <2>1. T \in SUBSET Nat
    OBVIOUS
  <2> HIDE DEF T
  <2> QED BY <1>1, <2>1, LeastNumber
<1>3. k \in 1..n /\ ~\E i \in 1..k : Top(k, i)
  BY <1>2
<1>4. CASE k = 1
  BY <1>3, <1>4
<1>5. CASE k # 1
  <2>1. k - 1 \in 1..n /\ k - 1 \notin T
    <3>1. k \in 1..n
      BY <1>3
    <3> HIDE DEF T
    <3> QED BY <3>1, <1>2, <1>5
  <2>2. PICK i \in 1..(k - 1) : Top(k - 1, i)
    BY <2>1
  <2>3. e[i] \in Int /\ e[k] \in Int /\ i \in 1..k /\ k \in 1..k
    BY <1>3, <2>2
  <2>4. CASE e[k] <= e[i]
    <3>1. Top(k, i)
      BY <1>3, <2>2, <2>4
    <3> QED BY <3>1, <2>3, <1>3
  <2>5. CASE ~(e[k] <= e[i])
    <3>1. ASSUME NEW j \in 1..k PROVE e[j] <= e[k]
      <4>1. CASE j = k BY <4>1, <2>3
      <4>2. CASE j # k
        <5>1. j \in 1..(k - 1) /\ e[j] \in Int
          BY <4>2, <1>3
        <5> QED BY <5>1, <2>2, <2>3, <2>5
      <4> QED BY <4>1, <4>2
    <3> QED BY <3>1, <2>3, <1>3
  <2> QED BY <2>4, <2>5
<1> QED BY <1>4, <1>5

\* So has the set of its elements; and a smallest one.
LEMMA ListHasBest ==
  ASSUME NEW n \in Nat \ {0}, NEW e \in [1..n -> Int], NEW C, C = {e[i] : i \in 1..n}
  PROVE  /\ Promise!Max(C) \in C /\ \A c \in C : c <= Promise!Max(C)
         /\ Promise!Min(C) \in C /\ \A c \in C : c >= Promise!Min(C)
<1>1. PICK i \in 1..n : \A j \in 1..n : e[j] <= e[i]
  BY ListHasMax
<1>2. \E x \in C : \A y \in C : x >= y
  <2>1. e[i] \in C /\ \A y \in C : e[i] >= y
    BY <1>1
  <2> QED BY <2>1
<1>3. Promise!Max(C) \in C /\ \A c \in C : Promise!Max(C) >= c
  BY <1>2 DEF Promise!Max
<1> DEFINE d == [j \in 1..n |-> -e[j]]
<1>4. d \in [1..n -> Int]
  OBVIOUS
<1>5. PICK k \in 1..n : \A j \in 1..n : d[j] <= d[k]
  BY <1>4, ListHasMax
<1>6. \E x \in C : \A y \in C : x <= y
  <2>1. \A j \in 1..n : e[k] <= e[j]
    BY <1>5
  <2>2. e[k] \in C /\ \A y \in C : e[k] <= y
    BY <2>1
  <2> QED BY <2>2
<1>7. Promise!Min(C) \in C /\ \A c \in C : Promise!Min(C) <= c
  BY <1>6 DEF Promise!Min
<1>8. C \in SUBSET Int
  OBVIOUS
<1> QED BY <1>3, <1>7, <1>8

\* The choices come as a list: the moves in their order, and the static score.
LEMMA ChoicesAreAList ==
  ASSUME IsGame, NEW q \in Asked, NEW f, \A k \in Kids(q) : f[k] \in Int
  PROVE  \E n \in Nat \ {0} : \E e \in [1..n -> Int] : Choices(f, q) = {e[i] : i \in 1..n}
<1>1. q[1] \in Boards /\ q[2] \in Nat /\ StaticEvaluation(q[1]) \in Int
  BY DEF Asked, IsGame
<1>2. CASE AtRest(q)
  <2>1. PICK S : LegalCaptureMoves(q[1]) \in Seq(S)
    BY <1>1 DEF IsGame
  <2> DEFINE s == LegalCaptureMoves(q[1])
             n == Len(s) + 1
             e == [i \in 1..n |-> IF i = n THEN StaticEvaluation(q[1])
                                           ELSE f[<<DoMove(q[1], s[i]), 0>>]]
  <2>2. Len(s) \in Nat /\ DOMAIN s = 1..Len(s)
    BY <2>1
  <2> HIDE DEF s
  <2>3. Kids(q) = {<<DoMove(q[1], s[i]), 0>> : i \in 1..Len(s)}
    BY <1>2, <2>2 DEF Kids, Promise!Range, s
  <2>4. e \in [1..n -> Int]
    BY <1>1, <2>2, <2>3
  <2>5. Choices(f, q) = {StaticEvaluation(q[1])} \cup {f[<<DoMove(q[1], s[i]), 0>>] : i \in 1..Len(s)}
    BY <1>2, <2>3 DEF Choices
  <2>6. {e[i] : i \in 1..n} = {StaticEvaluation(q[1])} \cup {f[<<DoMove(q[1], s[i]), 0>>] : i \in 1..Len(s)}
    <3>1. e[n] = StaticEvaluation(q[1]) /\ n \in 1..n
      BY <2>2
    <3>2. \A i \in 1..Len(s) : e[i] = f[<<DoMove(q[1], s[i]), 0>>] /\ i \in 1..n
      BY <2>2
    <3>3. \A i \in 1..n : i = n \/ i \in 1..Len(s)
      BY <2>2
    <3> HIDE DEF e, n
    <3> QED BY <3>1, <3>2, <3>3
  <2>7. n \in Nat \ {0}
    BY <2>2
  <2> HIDE DEF e, n
  <2> QED BY <2>4, <2>5, <2>6, <2>7
<1>3. CASE ~AtRest(q)
  <2>1. PICK S : LegalMoves(q[1]) \in Seq(S)
    BY <1>1 DEF IsGame
  <2> DEFINE s == LegalMoves(q[1])
             e == [i \in 1..Len(s) |-> f[<<DoMove(q[1], s[i]), q[2] - 1>>]]
  <2>2. Len(s) \in Nat \ {0} /\ DOMAIN s = 1..Len(s)
    BY <1>3, <2>1 DEF AtRest
  <2> HIDE DEF s
  <2>3. Kids(q) = {<<DoMove(q[1], s[i]), q[2] - 1>> : i \in 1..Len(s)}
    BY <1>3, <2>2 DEF Kids, Promise!Range, s
  <2>4. e \in [1..Len(s) -> Int]
    BY <2>3
  <2>5. Choices(f, q) = {f[<<DoMove(q[1], s[i]), q[2] - 1>>] : i \in 1..Len(s)}
    BY <1>3, <2>3 DEF Choices
  <2>6. Choices(f, q) = {e[i] : i \in 1..Len(s)}
    BY <2>5
  <2> HIDE DEF e
  <2> QED BY <2>2, <2>4, <2>6
<1> QED BY <1>2, <1>3

\* The best choice is one of the choices, and none is better.
LEMMA BestOfChoices ==
  ASSUME IsGame, NEW q \in Asked, NEW f, \A k \in Kids(q) : f[k] \in Int
  PROVE  /\ Choices(f, q) \in SUBSET Int
         /\ Step(f, q) \in Choices(f, q)
         /\ \A c \in Choices(f, q) :
              IF WhiteToMove(q[1]) THEN c <= Step(f, q) ELSE c >= Step(f, q)
<1>0. PICK n \in Nat \ {0} : \E e \in [1..n -> Int] : Choices(f, q) = {e[i] : i \in 1..n}
  BY ChoicesAreAList
<1>1. PICK e \in [1..n -> Int] : Choices(f, q) = {e[i] : i \in 1..n}
  BY <1>0
<1> DEFINE C == Choices(f, q)
<1> HIDE DEF C
<1>2. /\ Promise!Max(C) \in C /\ \A c \in C : c <= Promise!Max(C)
      /\ Promise!Min(C) \in C /\ \A c \in C : c >= Promise!Min(C)
  BY <1>1, ListHasBest DEF C
<1>3. Step(f, q) = IF WhiteToMove(q[1]) THEN Promise!Max(C) ELSE Promise!Min(C)
  BY DEF Step, Promise!Best, C
<1>4. C \in SUBSET Int
  BY <1>1 DEF C
<1> QED BY <1>2, <1>3, <1>4 DEF C

-----------------------------------------------------------------------------
(* The value from the side of the player to move. *)

Own(q) == Promise!Value[q] * Promise!Sign(q[1])

\* A value is made of static scores: it has all the properties they share.
LEMMA ValuesAreScores ==
  ASSUME IsGame, CapturesRunOut, NEW W \in SUBSET Int,
         \A b \in Boards : StaticEvaluation(b) \in W, NEW q \in Asked
  PROVE  Promise!Value[q] \in W
<1> DEFINE T == {x \in Asked : Promise!Value[x] \notin W}
<1>1. SUFFICES ASSUME T # {} PROVE FALSE
  OBVIOUS
<1>2. T \in SUBSET Asked
  OBVIOUS
<1>3. PICK x \in T : Kids(x) \cap T = {}
  BY <1>1, <1>2, KidsRunOut
<1>4. x \in Asked /\ Promise!Value[x] \notin W
  BY <1>3
<1>5. \A k \in Kids(x) : Promise!Value[k] \in W
  BY <1>3, <1>4, KidsAreAsked
<1>6. Choices(Promise!Value, x) \in SUBSET W
  BY <1>4, <1>5 DEF Choices, Asked
<1>7. Step(Promise!Value, x) \in Choices(Promise!Value, x)
  BY <1>4, <1>5, BestOfChoices
<1> QED BY <1>4, <1>6, <1>7, ValueEquation

LEMMA ValueIsInt ==
  ASSUME IsGame, CapturesRunOut, NEW q \in Asked
  PROVE  Promise!Value[q] \in Int
  BY ValuesAreScores DEF IsGame

\* It is the other player's turn after a move.
LEMMA KidsAlternate ==
  ASSUME IsGame, NEW q \in Asked, NEW k \in Kids(q)
  PROVE  /\ k \in Asked
         /\ WhiteToMove(q[1]) \in BOOLEAN
         /\ WhiteToMove(k[1]) = ~WhiteToMove(q[1])
<1>1. q[1] \in Boards
  BY DEF Asked
<1>2. PICK m \in Promise!Range(LegalMoves(q[1])) : k[1] = DoMove(q[1], m)
  BY <1>1 DEF Kids, IsGame
<1> QED BY <1>1, <1>2, KidsAreAsked DEF IsGame

\* The player to move takes the best of what the moves leave to the enemy and,
\* at rest, of the static score.
LEMMA OwnIsBest ==
  ASSUME IsGame, CapturesRunOut, NEW q \in Asked
  PROVE  /\ Own(q) \in Int
         /\ \A k \in Kids(q) : k \in Asked /\ Own(k) \in Int /\ -Own(k) <= Own(q)
         /\ AtRest(q) => own_score(q[1]) <= Own(q)
         /\ \/ AtRest(q) /\ Own(q) = own_score(q[1])
            \/ \E k \in Kids(q) : Own(q) = -Own(k)
<1> DEFINE V(x) == Promise!Value[x]
           W == WhiteToMove(q[1])
           e == StaticEvaluation(q[1])
<1>1. W \in BOOLEAN /\ e \in Int /\ V(q) \in Int
  BY ValueIsInt DEF Asked, IsGame
<1>2. \A k \in Kids(q) : k \in Asked /\ V(k) \in Int /\ WhiteToMove(k[1]) = ~W
  BY KidsAlternate, ValueIsInt
<1>3. /\ V(q) \in Choices(Promise!Value, q)
      /\ \A c \in Choices(Promise!Value, q) : IF W THEN c <= V(q) ELSE c >= V(q)
  BY <1>2, BestOfChoices, ValueEquation
<1>4. /\ (V(q) = e /\ AtRest(q)) \/ (\E k \in Kids(q) : V(q) = V(k))
      /\ AtRest(q) => IF W THEN e <= V(q) ELSE e >= V(q)
      /\ \A k \in Kids(q) : IF W THEN V(k) <= V(q) ELSE V(k) >= V(q)
  BY <1>3 DEF Choices
<1>5. /\ Own(q) = V(q) * (IF W THEN 1 ELSE -1)
      /\ own_score(q[1]) = e * (IF W THEN 1 ELSE -1)
  BY DEF Own, own_score, Promise!Sign
<1>6. \A k \in Kids(q) : Own(k) = V(k) * (IF W THEN -1 ELSE 1)
  BY <1>2 DEF Own, Promise!Sign
<1> HIDE DEF V, W, e
<1>7. CASE W = TRUE
  <2>1. Own(q) = V(q) /\ own_score(q[1]) = e /\ \A k \in Kids(q) : Own(k) = -V(k)
    BY <1>1, <1>2, <1>5, <1>6, <1>7
  <2> QED BY <1>1, <1>2, <1>4, <1>7, <2>1
<1>8. CASE W = FALSE
  <2>1. Own(q) = -V(q) /\ own_score(q[1]) = -e /\ \A k \in Kids(q) : Own(k) = V(k)
    BY <1>1, <1>2, <1>5, <1>6, <1>8
  <2> QED BY <1>1, <1>2, <1>4, <1>8, <2>1
<1> QED BY <1>1, <1>7, <1>8

-----------------------------------------------------------------------------
(* Lines. *)

\* The boards on a line are the start and what each move makes of the one before.
LEMMA PathEquation ==
  ASSUME NEW b, NEW l, Len(l) \in Nat
  PROVE  /\ Promise!Path(b, l)[0] = b
         /\ \A i \in 1..Len(l) : Promise!Path(b, l)[i] = DoMove(Promise!Path(b, l)[i - 1], l[i])
<1> DEFINE Body(f, i) == IF i = 0 THEN b ELSE DoMove(f[i - 1], l[i])
           Exists(n) == \E f : f = [i \in 0..n |-> Body(f, i)]
           T == {n \in Nat : ~Exists(n)}
<1>1. Exists(Len(l))
  <2>1. SUFFICES ASSUME T # {} PROVE FALSE
    <3> HIDE DEF Exists
    <3> QED OBVIOUS
  <2>2. PICK n \in T : \A k \in T : n <= k
    <3>1. T \in SUBSET Nat
      OBVIOUS
    <3> HIDE DEF T
    <3> QED BY <2>1, <3>1, LeastNumber
  <2>3. n \in Nat /\ ~Exists(n)
    BY <2>2
  <2>4. CASE n = 0
    <3> DEFINE f == [i \in 0..0 |-> b]
    <3>1. f = [i \in 0..n |-> Body(f, i)]
      BY <2>4
    <3> HIDE DEF f
    <3> QED BY <3>1, <2>3
  <2>5. CASE n # 0
    <3>1. n - 1 \in Nat /\ n - 1 \notin T
      <4> HIDE DEF T
      <4> QED BY <2>2, <2>3, <2>5
    <3>2. PICK f : f = [i \in 0..(n - 1) |-> Body(f, i)]
      BY <3>1
    <3> DEFINE g == [i \in 0..n |-> Body(f, i)]
    <3>3. ASSUME NEW i \in 0..(n - 1) PROVE f[i] = Body(f, i) /\ g[i] = Body(f, i)
      <4>1. i \in 0..n
        BY <2>3
      <4> HIDE DEF Body
      <4> QED BY <3>2, <4>1
    <3>4. ASSUME NEW i \in 0..n PROVE Body(g, i) = Body(f, i)
      <4>1. CASE i = 0 BY <4>1
      <4>2. CASE i # 0
        <5>1. i - 1 \in 0..(n - 1)
          BY <4>2, <2>3
        <5>2. f[i - 1] = g[i - 1]
          <6> HIDE DEF Body, g, T
          <6> QED BY <5>1, <3>3
        <5> HIDE DEF g
        <5> QED BY <5>2
      <4> QED BY <4>1, <4>2
    <3>5. g = [i \in 0..n |-> Body(g, i)]
      <4> HIDE DEF Body
      <4> QED BY <3>4
    <3> HIDE DEF g
    <3> QED BY <3>5, <2>3
  <2> QED BY <2>4, <2>5
<1> DEFINE p == Promise!Path(b, l)
<1>2. p = CHOOSE f : f = [i \in 0..Len(l) |-> Body(f, i)]
  BY Zenon DEF Promise!Path
<1> HIDE DEF Body, p
<1>3. p = [i \in 0..Len(l) |-> Body(p, i)]
  BY <1>1, <1>2, Zenon
<1>4. \A i \in 0..Len(l) : p[i] = Body(p, i)
  BY <1>3
<1>5. p[0] = b /\ \A i \in 1..Len(l) : p[i] = DoMove(p[i - 1], l[i])
  BY <1>4 DEF Body
<1> QED BY <1>5 DEF p

\* A line, with a value from the side of the player to move.
Leads(q, l, own) ==
  /\ \E S : l \in Seq(S)
  /\ Promise!LineTo(q[1], q[2], l, own * Promise!Sign(q[1]))

\* The line l2 is the move m in front of the line l.
Prepends(m, l, l2) ==
  /\ Len(l) \in Nat
  /\ Len(l2) = Len(l) + 1
  /\ l2[1] = m
  /\ \A i \in 1..Len(l) : l2[i + 1] = l[i]

LEMMA PathPrepend ==
  ASSUME NEW b, NEW m, NEW l, NEW l2, Prepends(m, l, l2)
  PROVE  \A i \in 0..Len(l) : Promise!Path(b, l2)[i + 1] = Promise!Path(DoMove(b, m), l)[i]
<1> DEFINE p == Promise!Path(DoMove(b, m), l)
           p2 == Promise!Path(b, l2)
           T == {i \in 0..Len(l) : p2[i + 1] # p[i]}
<1>1. Len(l) \in Nat /\ Len(l2) = Len(l) + 1 /\ l2[1] = m /\ \A i \in 1..Len(l) : l2[i + 1] = l[i]
  BY DEF Prepends
<1>2. p[0] = DoMove(b, m) /\ \A i \in 1..Len(l) : p[i] = DoMove(p[i - 1], l[i])
  BY <1>1, PathEquation
<1>3. p2[0] = b /\ \A i \in 1..Len(l2) : p2[i] = DoMove(p2[i - 1], l2[i])
  <2>1. Len(l2) \in Nat
    BY <1>1
  <2> QED BY <2>1, PathEquation
<1> HIDE DEF p, p2
<1>4. T = {}
  <2>1. SUFFICES ASSUME T # {} PROVE FALSE
    OBVIOUS
  <2>2. PICK i \in T : \A k \in T : i <= k
    <3>1. T \in SUBSET Nat
      BY <1>1
    <3> HIDE DEF T
    <3> QED BY <2>1, <3>1, LeastNumber
  <2>3. i \in 0..Len(l) /\ p2[i + 1] # p[i]
    BY <2>2
  <2>4. CASE i = 0
    <3>1. p2[1] = DoMove(p2[1 - 1], l2[1]) /\ 1 - 1 = 0
      BY <1>1, <1>3
    <3> QED BY <3>1, <2>3, <2>4, <1>1, <1>2, <1>3
  <2>5. CASE i # 0
    <3>1. i \in 1..Len(l) /\ i - 1 \in 0..Len(l) /\ i + 1 \in 1..Len(l2) /\ (i + 1) - 1 = i
          /\ (i - 1) + 1 = i
      BY <2>3, <2>5, <1>1
    <3>2. i - 1 \notin T
      <4> HIDE DEF T
      <4> QED BY <3>1, <2>2
    <3>3. p2[i] = p[i - 1]
      BY <3>1, <3>2
    <3>4. p2[i + 1] = DoMove(p2[i], l2[i + 1]) /\ p[i] = DoMove(p[i - 1], l[i]) /\ l2[i + 1] = l[i]
      BY <3>1, <1>1, <1>2, <1>3
    <3> QED BY <3>3, <3>4, <2>3
  <2> QED BY <2>4, <2>5
<1>5. \A i \in 0..Len(l) : p2[i + 1] = p[i]
  BY <1>4
<1> QED BY <1>5 DEF p, p2

\* A line that leads to a value after a move leads to it with that move.
LEMMA LinePrepend ==
  ASSUME NEW b, NEW d \in Nat, NEW m, NEW v, NEW l, NEW l2, Prepends(m, l, l2), NEW r,
         m \in Promise!Range(IF d = 0 THEN LegalCaptureMoves(b) ELSE LegalMoves(b)),
         r = IF d = 0 THEN 0 ELSE d - 1,
         Promise!LineTo(DoMove(b, m), r, l, v)
  PROVE  Promise!LineTo(b, d, l2, v)
<1> DEFINE p == Promise!Path(DoMove(b, m), l)
           p2 == Promise!Path(b, l2)
           Next1(i) == IF i <= r THEN LegalMoves(p[i - 1]) ELSE LegalCaptureMoves(p[i - 1])
           Next2(i) == IF i <= d THEN LegalMoves(p2[i - 1]) ELSE LegalCaptureMoves(p2[i - 1])
<1>1. /\ Len(l2) = Len(l) + 1 /\ l2[1] = m /\ \A i \in 1..Len(l) : l2[i + 1] = l[i]
      /\ \A i \in 0..Len(l) : p2[i + 1] = p[i]
  BY PathPrepend DEF Prepends
<1>2. /\ \A i \in 1..Len(l) : l[i] \in Promise!Range(Next1(i))
      /\ Len(l) < r => LegalMoves(p[Len(l)]) = <<>>
      /\ StaticEvaluation(p[Len(l)]) = v
  BY Zenon DEF Promise!LineTo
<1>3. Len(l) \in Nat /\ Len(l2) \in Nat
  BY <1>1 DEF Prepends
<1>4. p2[0] = b
  BY <1>3, PathEquation
<1> HIDE DEF p, p2
<1>5. ASSUME NEW i \in 1..Len(l2) PROVE l2[i] \in Promise!Range(Next2(i))
  <2>1. CASE i = 1
    <3>1. p2[i - 1] = b /\ (i <= d <=> d # 0)
      BY <2>1, <1>4
    <3> QED BY <3>1, <2>1, <1>1
  <2>2. CASE i # 1
    <3>1. /\ i - 1 \in 1..Len(l) /\ (i - 1) - 1 \in 0..Len(l)
          /\ (i - 1) + 1 = i /\ ((i - 1) - 1) + 1 = i - 1
      BY <2>2, <1>1, <1>3
    <3>2. l2[i] = l[i - 1] /\ p2[i - 1] = p[(i - 1) - 1]
      BY <3>1, <1>1
    <3>3. i <= d <=> i - 1 <= r
      BY <2>2, <1>3
    <3>4. Next2(i) = Next1(i - 1)
      BY <3>2, <3>3
    <3> HIDE DEF Next1, Next2
    <3> QED BY <3>1, <3>2, <3>4, <1>2
  <2> QED BY <2>1, <2>2
<1>6. p2[Len(l2)] = p[Len(l)]
  BY <1>1, <1>3
<1>7. Len(l2) < d => LegalMoves(p2[Len(l2)]) = <<>>
  BY <1>1, <1>2, <1>3, <1>6
<1>8. StaticEvaluation(p2[Len(l2)]) = v
  BY <1>2, <1>6
<1> QED BY <1>5, <1>7, <1>8 DEF Promise!LineTo, p2

\* The empty line leads to the static score.
LEMMA EmptyLine ==
  ASSUME IsGame, NEW q \in Asked, AtRest(q)
  PROVE  Leads(q, <<>>, own_score(q[1]))
<1>1. q[1] \in Boards /\ q[2] \in Nat /\ StaticEvaluation(q[1]) \in Int /\ WhiteToMove(q[1]) \in BOOLEAN
  BY DEF Asked, IsGame
<1>2. Len(<<>>) = 0 /\ Promise!Path(q[1], <<>>)[0] = q[1]
  BY PathEquation
<1>3. own_score(q[1]) * Promise!Sign(q[1]) = StaticEvaluation(q[1])
  <2> DEFINE e == StaticEvaluation(q[1])
             W == WhiteToMove(q[1])
  <2>1. own_score(q[1]) * Promise!Sign(q[1]) = (e * (IF W THEN 1 ELSE -1)) * (IF W THEN 1 ELSE -1)
    BY DEF own_score, Promise!Sign
  <2>2. e \in Int /\ W \in BOOLEAN
    BY <1>1
  <2> HIDE DEF e, W
  <2>3. CASE W BY <2>1, <2>2, <2>3 DEF e
  <2>4. CASE ~W BY <2>1, <2>2, <2>4 DEF e
  <2> QED BY <2>3, <2>4
<1>4. 0 < q[2] => LegalMoves(q[1]) = <<>>
  BY <1>1 DEF AtRest
<1>5. Promise!LineTo(q[1], q[2], <<>>, StaticEvaluation(q[1]))
  BY <1>2, <1>4 DEF Promise!LineTo
<1>6. <<>> \in Seq({})
  OBVIOUS
<1> QED BY <1>3, <1>5, <1>6 DEF Leads

\* A line from a kid of q, and the move that leads to it.
LEMMA LeadsPrepend ==
  ASSUME IsGame, NEW q \in Asked, NEW m, NEW k, k \in Kids(q), NEW l, NEW own \in Int,
         IF AtRest(q) THEN q[2] = 0 /\ m \in Promise!Range(LegalCaptureMoves(q[1])) /\ k = <<DoMove(q[1], m), 0>>
                      ELSE m \in Promise!Range(LegalMoves(q[1])) /\ k = <<DoMove(q[1], m), q[2] - 1>>,
         Leads(k, l, own)
  PROVE  Leads(q, <<m>> \o l, -own)
<1>1. PICK S : l \in Seq(S)
  BY DEF Leads
<1>2. q[1] \in Boards /\ q[2] \in Nat /\ WhiteToMove(q[1]) \in BOOLEAN
      /\ WhiteToMove(k[1]) = ~WhiteToMove(q[1])
  BY KidsAlternate DEF Asked
<1>3. own * Promise!Sign(k[1]) = (-own) * Promise!Sign(q[1])
  <2>1. \/ Promise!Sign(q[1]) = 1 /\ Promise!Sign(k[1]) = -1
        \/ Promise!Sign(q[1]) = -1 /\ Promise!Sign(k[1]) = 1
    BY <1>2 DEF Promise!Sign
  <2> QED BY <2>1
<1>4. /\ m \in Promise!Range(IF q[2] = 0 THEN LegalCaptureMoves(q[1]) ELSE LegalMoves(q[1]))
      /\ k[1] = DoMove(q[1], m) /\ k[2] = IF q[2] = 0 THEN 0 ELSE q[2] - 1
  BY DEF AtRest
<1>5. Promise!LineTo(DoMove(q[1], m), k[2], l, own * Promise!Sign(k[1]))
  BY <1>4 DEF Leads
<1> DEFINE l2 == <<m>> \o l
<1>6. l2 \in Seq({m} \cup S) /\ Prepends(m, l, l2)
  <2>1. <<m>> \in Seq({m} \cup S) /\ l \in Seq({m} \cup S) /\ Len(l) \in Nat /\ Len(<<m>>) = 1
    BY <1>1
  <2> QED BY <2>1 DEF Prepends
<1> HIDE DEF l2
<1>7. Promise!LineTo(q[1], q[2], l2, own * Promise!Sign(k[1]))
  BY <1>2, <1>4, <1>5, <1>6, LinePrepend
<1> QED BY <1>3, <1>6, <1>7 DEF Leads, l2

-----------------------------------------------------------------------------
(* What a call is asked, and what it has found out. *)

\* The question that a call works on; quiescence_search ignores its depth.
Question(f) == <<f.board, IF f.fn = "alpha_beta" THEN f.depth ELSE 0>>

\* The question that it asks about a move.
KidOf(f, m) == <<DoMove(f.board, m), IF f.fn = "alpha_beta" THEN f.depth - 1 ELSE 0>>

\* The loop of a call goes through the kids of its question.
LEMMA LoopOverKids ==
  ASSUME IsGame, NEW f, SoundCall(f)
  PROVE  /\ Question(f) \in Asked
         /\ f.phase # "called" =>
              /\ Kids(Question(f)) = {KidOf(f, m) : m \in Promise!Range(MovesOf(f))}
              /\ f.fn = "alpha_beta" => ~AtRest(Question(f))
         /\ f.fn # "alpha_beta" => AtRest(Question(f)) /\ Question(f)[2] = 0
<1>1. Playing(f)
  BY DEF SoundCall
<1>2. Question(f)[1] = f.board /\ Question(f)[2] = IF f.fn = "alpha_beta" THEN f.depth ELSE 0
  BY DEF Question
<1>3. Question(f) \in Asked
  BY <1>1 DEF Question, Asked, Playing
<1>4. CASE f.fn = "alpha_beta"
  <2>1. f.phase # "called" => ~AtRest(Question(f))
    BY <1>1, <1>2, <1>4 DEF AtRest, Playing
  <2> QED BY <1>2, <1>3, <1>4, <2>1 DEF Kids, KidOf, MovesOf
<1>5. CASE f.fn # "alpha_beta"
  <2>1. AtRest(Question(f)) /\ Question(f)[2] = 0
    BY <1>2, <1>5 DEF AtRest
  <2> QED BY <1>2, <1>3, <1>5, <2>1 DEF Kids, KidOf, MovesOf
<1> QED BY <1>4, <1>5

\* The question p may be answered in place of q.
Stands(p, q) == p[1] = q[1] /\ (p[2] = q[2] \/ (p[2] = 0 /\ LegalMoves(p[1]) = <<>>))

\* At the end of the game the depth does not matter.
LEMMA StandsForIt ==
  ASSUME IsGame, CapturesRunOut, NEW p \in Asked, NEW q \in Asked, Stands(p, q)
  PROVE  /\ Own(p) = Own(q)
         /\ \A l, own : Leads(p, l, own) => Leads(q, l, own)
<1>1. CASE p[2] = q[2]
  <2>1. p = q
    BY <1>1 DEF Stands, Asked
  <2> QED BY <2>1
<1>2. CASE p[2] # q[2]
  <2> DEFINE b == p[1]
  <2>1. p[2] = 0 /\ q[1] = b /\ b \in Boards /\ q[2] \in Nat /\ LegalMoves(b) = <<>>
    BY <1>2 DEF Stands, Asked
  <2>2. Promise!Range(LegalCaptureMoves(b)) = {}
    BY <2>1, NoMovesNoCaptures
  <2>3. Kids(p) = {} /\ Kids(q) = {}
    BY <2>1, <2>2 DEF Kids, AtRest
  <2>4. Own(p) = own_score(b) /\ Own(q) = own_score(b)
    BY <2>1, <2>3, OwnIsBest
  <2>5. ASSUME NEW l, NEW own, Leads(p, l, own) PROVE Leads(q, l, own)
    <3> DEFINE v == own * Promise!Sign(b)
               path == Promise!Path(b, l)
    <3>1. PICK S : l \in Seq(S)
      BY <2>5 DEF Leads
    <3>2. Promise!LineTo(b, 0, l, v)
      BY <2>5, <2>1 DEF Leads
    <3>3. Len(l) \in Nat /\ path[0] = b
      BY <3>1, PathEquation
    <3> HIDE DEF v, path
    <3>4. /\ \A i \in 1..Len(l) : l[i] \in Promise!Range(IF i <= 0 THEN LegalMoves(path[i - 1])
                                                                   ELSE LegalCaptureMoves(path[i - 1]))
          /\ StaticEvaluation(path[Len(l)]) = v
      BY <3>2 DEF Promise!LineTo, path
    <3>5. Len(l) = 0
      <4> SUFFICES ASSUME Len(l) # 0 PROVE FALSE
        OBVIOUS
      <4>1. 1 \in 1..Len(l) /\ ~(1 <= 0) /\ 1 - 1 = 0
        BY <3>3
      <4>2. l[1] \in Promise!Range(LegalCaptureMoves(path[0]))
        BY <3>4, <4>1
      <4> QED BY <4>2, <3>3, <2>2
    <3>6. Promise!LineTo(b, q[2], l, v)
      BY <3>3, <3>4, <3>5, <2>1 DEF Promise!LineTo, path
    <3> QED BY <3>1, <3>6, <2>1 DEF Leads, v
  <2> QED BY <2>4, <2>5
<1> QED BY <1>1, <1>2

\* What a caller asks for: a question and a window.
Asks(f) == <<KidOf(f, Head(f.trying)), -f.beta, -f.alpha>>
Goal(s, q, i) == IF i < Len(s) THEN Asks(s[i + 1]) ELSE <<q, -Infinity, Infinity>>

\* No choice that the loop has left behind is better than alpha.
Behind(f) ==
  /\ f.fn # "alpha_beta" => own_score(f.board) <= f.alpha
  /\ \A m \in Promise!Range(MovesOf(f)) :
       \/ m \in Promise!Range(f.moves)
       \/ f.phase = "waiting" /\ f.trying = <<m>>
       \/ -Own(KidOf(f, m)) <= f.alpha

\* The call f works on the goal g: alpha is the lower bound it was called with
\* or a score that its line leads to.
Serves(f, g) ==
  /\ g[1] \in Asked /\ g[2] \in Int
  /\ Stands(Question(f), g[1])
  /\ f.beta = g[3]
  /\ g[2] <= f.alpha
  /\ f.phase = "called" => f.alpha = g[2]
  /\ f.phase # "called" => Behind(f)
  /\ f.alpha > g[2] => f.alpha <= Own(Question(f)) /\ Leads(Question(f), f.pv, f.alpha)

\* The goal g has been reached with the result r.
Reached(r, g) ==
  /\ r.score = Clamp(Own(g[1]), g[2], g[3])
  /\ g[2] < Own(g[1]) /\ Own(g[1]) < g[3] => Leads(g[1], r.line, Own(g[1]))

AllServe(s, q) == \A i \in 1..Len(s) : Serves(s[i], Goal(s, q, i))

Correct ==
  /\ AllServe(stack, query)
  /\ stack = <<>> => Reached(result, <<query, -Infinity, Infinity>>)
  /\ At("waiting") => Reached(result, Asks(top))

\* The goal of the running call stays while it is running,
LEMMA ReplaceKeepsServing ==
  ASSUME NEW s, NEW q, NEW S, s \in Seq(S), s # <<>>, AllServe(s, q), NEW f, Serves(f, Goal(s, q, 1))
  PROVE  AllServe(<<f>> \o Tail(s), q)
<1> DEFINE t == <<f>> \o Tail(s)
<1>1. Len(t) = Len(s) /\ t[1] = f /\ \A i \in 2..Len(s) : t[i] = s[i]
  BY ReplaceTop
<1>2. Len(s) \in Nat \ {0}
  OBVIOUS
<1> HIDE DEF t
<1>3. \A i \in 1..Len(s) : Goal(t, q, i) = Goal(s, q, i)
  BY <1>1, <1>2 DEF Goal
<1>4. ASSUME NEW i \in 1..Len(t) PROVE Serves(t[i], Goal(t, q, i))
  <2>1. CASE i = 1 BY <2>1, <1>1, <1>2, <1>3
  <2>2. CASE i # 1
    <3>1. i \in 2..Len(s) /\ i \in 1..Len(s)
      BY <2>2, <1>1, <1>2
    <3> QED BY <3>1, <1>1, <1>3 DEF AllServe
  <2> QED BY <2>1, <2>2
<1> QED BY <1>4 DEF AllServe, t

\* while its callee works,
LEMMA PushKeepsServing ==
  ASSUME NEW s, NEW q, NEW S, s \in Seq(S), s # <<>>, AllServe(s, q),
         NEW f, Serves(f, Goal(s, q, 1)), NEW g, Serves(g, Asks(f))
  PROVE  AllServe(<<g, f>> \o Tail(s), q)
<1> DEFINE t == <<g, f>> \o Tail(s)
<1>1. Len(t) = Len(s) + 1 /\ t[1] = g /\ t[2] = f /\ \A i \in 2..Len(s) : t[i + 1] = s[i]
  BY PushTop
<1>2. Len(s) \in Nat \ {0}
  OBVIOUS
<1> HIDE DEF t
<1>3. Goal(t, q, 1) = Asks(f)
  BY <1>1, <1>2 DEF Goal
<1>4. ASSUME NEW i \in 1..Len(s) PROVE Goal(t, q, i + 1) = Goal(s, q, i)
  <2>1. CASE i < Len(s)
    <3>1. i + 1 \in 2..Len(s) /\ i + 1 < Len(t)
      BY <2>1, <1>1, <1>2
    <3>2. t[(i + 1) + 1] = s[i + 1]
      BY <3>1, <1>1
    <3> QED BY <2>1, <3>1, <3>2 DEF Goal
  <2>2. CASE ~(i < Len(s))
    BY <2>2, <1>1, <1>2 DEF Goal
  <2> QED BY <2>1, <2>2
<1>5. ASSUME NEW i \in 1..Len(t) PROVE Serves(t[i], Goal(t, q, i))
  <2>1. CASE i = 1 BY <2>1, <1>1, <1>3
  <2>2. CASE i = 2
    <3>1. 1 \in 1..Len(s) /\ 1 + 1 = 2
      BY <1>2
    <3>2. Goal(t, q, 2) = Goal(s, q, 1)
      BY <3>1, <1>4
    <3> QED BY <2>2, <3>2, <1>1
  <2>3. CASE i \notin {1, 2}
    <3>1. i - 1 \in 2..Len(s) /\ i - 1 \in 1..Len(s) /\ (i - 1) + 1 = i
      BY <2>3, <1>1, <1>2
    <3>2. t[i] = s[i - 1] /\ Goal(t, q, i) = Goal(s, q, i - 1)
      BY <3>1, <1>1, <1>4
    <3> QED BY <3>1, <3>2 DEF AllServe
  <2> QED BY <2>1, <2>2, <2>3
<1> QED BY <1>5 DEF AllServe, t

\* and when it returns.
LEMMA PopKeepsServing ==
  ASSUME NEW s, NEW q, NEW S, s \in Seq(S), s # <<>>, AllServe(s, q)
  PROVE  /\ AllServe(Tail(s), q)
         /\ Tail(s) = <<>> => Goal(s, q, 1) = <<q, -Infinity, Infinity>>
         /\ Tail(s) # <<>> => Goal(s, q, 1) = Asks(Head(Tail(s)))
<1> DEFINE t == Tail(s)
<1>1. t \in Seq(S) /\ Len(t) = Len(s) - 1 /\ \A i \in 1..(Len(s) - 1) : t[i] = s[i + 1]
  BY PopTop
<1>2. Len(s) \in Nat \ {0}
  OBVIOUS
<1> HIDE DEF t
<1>3. ASSUME NEW i \in 1..Len(t) PROVE Serves(t[i], Goal(t, q, i))
  <2>1. i + 1 \in 1..Len(s) /\ t[i] = s[i + 1]
    BY <1>1, <1>2
  <2>2. Goal(t, q, i) = Goal(s, q, i + 1)
    <3>1. CASE i < Len(t)
      <4>1. t[i + 1] = s[(i + 1) + 1] /\ i + 1 < Len(s)
        BY <3>1, <1>1, <1>2
      <4> QED BY <3>1, <4>1 DEF Goal
    <3>2. CASE ~(i < Len(t))
      BY <3>2, <1>1, <1>2 DEF Goal
    <3> QED BY <3>1, <3>2
  <2> QED BY <2>1, <2>2 DEF AllServe
<1>4. CASE t = <<>>
  <2>1. Len(s) = 1
    BY <1>4, <1>1, <1>2
  <2> QED BY <2>1, <1>3, <1>4 DEF Goal, AllServe, t
<1>5. CASE t # <<>>
  <2>1. 1 < Len(s) /\ Head(t) = s[1 + 1]
    BY <1>5, <1>1, <1>2
  <2> QED BY <2>1, <1>3, <1>5 DEF Goal, AllServe, t
<1> QED BY <1>4, <1>5

-----------------------------------------------------------------------------
(* The steps. *)

\* The running call and its goal.
LEMMA TopServes ==
  ASSUME IsGame, Inv, Correct, stack # <<>>
  PROVE  /\ SoundCall(top) /\ result.score \in Int
         /\ Serves(top, Goal(stack, query, 1))
         /\ Question(top) \in Asked
         /\ \E S : stack \in Seq(S)
         /\ top = stack[1]
<1>1. PICK S : stack \in Seq(S)
  BY DEF Inv, SoundStack
<1>2. top = stack[1] /\ 1 \in 1..Len(stack)
  BY <1>1 DEF top
<1>3. Serves(top, Goal(stack, query, 1))
  BY <1>2 DEF Correct, AllServe
<1>4. SoundCall(top) /\ result.score \in Int
  BY TopIsSound
<1> QED BY <1>1, <1>2, <1>3, <1>4, LoopOverKids

\* The running call goes on.
LEMMA ContinueKeepsCorrect ==
  ASSUME IsGame, Inv, Correct, stack # <<>>, NEW f, f.phase # "waiting",
         Serves(f, Goal(stack, query, 1)), Continue(f)
  PROVE  Correct'
<1>1. PICK S : stack \in Seq(S)
  BY TopServes
<1>2. AllServe(<<f>> \o Tail(stack), query)
  BY <1>1, ReplaceKeepsServing DEF Correct
<1>3. stack' = <<f>> \o Tail(stack) /\ query' = query
  BY DEF Continue
<1>4. AllServe(stack', query')
  BY <1>2, <1>3
<1>5. Len(stack') = Len(stack) /\ stack' \in Seq(S \cup {f}) /\ stack'[1] = f
  BY <1>1, <1>3, ReplaceTop
<1>6. stack' # <<>> /\ Head(stack') = f
  BY <1>1, <1>5
<1> QED BY <1>4, <1>6 DEF Correct, At, top

\* The running call returns what its goal asks for.
LEMMA ReturnKeepsCorrect ==
  ASSUME IsGame, CapturesRunOut, Inv, Correct, stack # <<>>, NEW score,
         score = Clamp(Own(Question(top)), Goal(stack, query, 1)[2], top.beta),
         Goal(stack, query, 1)[2] < Own(Question(top)) /\ Own(Question(top)) < top.beta
           => Leads(Question(top), top.pv, Own(Question(top))),
         Return(score)
  PROVE  Correct'
<1> DEFINE g == Goal(stack, query, 1)
<1>1. PICK S : stack \in Seq(S)
  BY TopServes
<1>2. Serves(top, g) /\ Question(top) \in Asked
  BY TopServes
<1>3. stack' = Tail(stack) /\ query' = query /\ result'.score = score /\ result'.line = top.pv
  BY DEF Return
<1>4. /\ AllServe(Tail(stack), query)
      /\ Tail(stack) = <<>> => g = <<query, -Infinity, Infinity>>
      /\ Tail(stack) # <<>> => g = Asks(Head(Tail(stack)))
  BY <1>1, PopKeepsServing DEF Correct
<1>5. Reached(result', g)
  <2>1. /\ Own(Question(top)) = Own(g[1])
        /\ \A l, own : Leads(Question(top), l, own) => Leads(g[1], l, own)
    BY <1>2, StandsForIt DEF Serves
  <2>2. top.beta = g[3]
    BY <1>2 DEF Serves
  <2> HIDE DEF g
  <2> QED BY <1>3, <2>1, <2>2 DEF Reached, g
<1> HIDE DEF g
<1>6. AllServe(stack', query')
  BY <1>3, <1>4
<1>7. stack' = <<>> => Reached(result', <<query', -Infinity, Infinity>>)
  BY <1>3, <1>4, <1>5
<1>8. stack' # <<>> => Reached(result', Asks(Head(stack')))
  BY <1>3, <1>4, <1>5
<1> QED BY <1>6, <1>7, <1>8 DEF Correct, At, top

\* The first call works on the question of main().
LEMMA InitImpliesCorrect ==
  ASSUME IsGame, Init
  PROVE  Correct
<1> DEFINE f == call("alpha_beta", query[1], query[2], -Infinity, Infinity)
<1>1. query \in Asked /\ query[1] \in Boards /\ query[2] \in Nat /\ query = <<query[1], query[2]>>
  BY DEF IsGame, Init, Asked
<1>2. stack = <<f>>
  BY DEF Init
<1>3. /\ f.fn = "alpha_beta" /\ f.phase = "called" /\ f.board = query[1] /\ f.depth = query[2]
      /\ f.alpha = -Infinity /\ f.beta = Infinity
  BY DEF call
<1> HIDE DEF f
<1>4. Question(f) = query
  BY <1>1, <1>3 DEF Question
<1>5. Serves(f, <<query, -Infinity, Infinity>>)
  <2>1. -Infinity \in Int /\ -Infinity <= -Infinity /\ ~(-Infinity > -Infinity)
    BY InfinityAssumption
  <2> QED BY <2>1, <1>1, <1>3, <1>4 DEF Serves, Stands
<1>6. stack # <<>> /\ Len(stack) = 1 /\ stack[1] = f /\ Head(stack) = f
  BY <1>2
<1>7. AllServe(stack, query)
  BY <1>5, <1>6 DEF AllServe, Goal
<1> QED BY <1>3, <1>6, <1>7 DEF Correct, At, top

LEMMA EnterAlphaBetaKeepsCorrect ==
  ASSUME IsGame, Inv, Correct, EnterAlphaBeta
  PROVE  Correct'
<1> DEFINE moves == LegalMoves(top.board)
           handed == [top EXCEPT !.fn = "quiescence_search"]
           looping == [top EXCEPT !.phase = "looping", !.moves = moves]
           g == Goal(stack, query, 1)
<1>1. /\ stack # <<>> /\ top.fn = "alpha_beta" /\ top.phase = "called"
      /\ IF top.depth = 0 \/ moves = <<>> THEN Continue(handed) ELSE Continue(looping)
  BY DEF EnterAlphaBeta, At
<1>2. SoundCall(top) /\ Serves(top, g)
  BY <1>1, TopServes
<1>3. /\ handed.fn = "quiescence_search" /\ handed.phase = "called" /\ handed.board = top.board
      /\ handed.alpha = top.alpha /\ handed.beta = top.beta
  BY <1>1, <1>2 DEF SoundCall, Frame
<1>4. /\ looping.fn = "alpha_beta" /\ looping.phase = "looping" /\ looping.board = top.board
      /\ looping.depth = top.depth /\ looping.moves = moves
      /\ looping.alpha = top.alpha /\ looping.beta = top.beta
  BY <1>1, <1>2 DEF SoundCall, Frame
<1>5. top.alpha \in Int /\ top.alpha = g[2] /\ ~(top.alpha > g[2])
  BY <1>1, <1>2 DEF SoundCall, Frame, Serves
<1> HIDE DEF handed, looping, g, moves
<1>6. ASSUME top.depth = 0 \/ moves = <<>> PROVE Serves(handed, g)
  <2>1. Stands(Question(handed), g[1])
    BY <1>1, <1>2, <1>3, <1>6 DEF Serves, Stands, Question, moves
  <2> QED BY <2>1, <1>2, <1>3, <1>5 DEF Serves
<1>7. Serves(looping, g)
  <2>1. Question(looping) = Question(top)
    BY <1>1, <1>4 DEF Question
  <2>2. Behind(looping)
    BY <1>4 DEF Behind, MovesOf, moves
  <2> QED BY <2>1, <2>2, <1>2, <1>4, <1>5 DEF Serves
<1>8. CASE top.depth = 0 \/ moves = <<>>
  BY <1>1, <1>3, <1>6, <1>8, ContinueKeepsCorrect DEF g
<1>9. CASE ~(top.depth = 0 \/ moves = <<>>)
  BY <1>1, <1>4, <1>7, <1>9, ContinueKeepsCorrect DEF g
<1> QED BY <1>8, <1>9

LEMMA EnterQuiescenceKeepsCorrect ==
  ASSUME IsGame, CapturesRunOut, Inv, Correct, EnterQuiescence
  PROVE  Correct'
<1> DEFINE score == own_score(top.board)
           raised == IF score > top.alpha THEN score ELSE top.alpha
           moves == LegalCaptureMoves(top.board)
           looping == [top EXCEPT !.phase = "looping", !.alpha = raised, !.moves = moves]
           g == Goal(stack, query, 1)
           q == Question(top)
<1>1. /\ stack # <<>> /\ top.fn = "quiescence_search" /\ top.phase = "called"
      /\ IF score >= top.beta THEN Return(top.beta) ELSE Continue(looping)
  BY DEF EnterQuiescence, At
<1>2. SoundCall(top) /\ Serves(top, g) /\ q \in Asked
  BY <1>1, TopServes
<1>3. AtRest(q) /\ q[2] = 0 /\ q[1] = top.board
  BY <1>1, <1>2, LoopOverKids DEF Question
<1>4. score \in Int /\ score <= Own(q) /\ Own(q) \in Int
  <2>1. StaticEvaluation(top.board) \in Int
    BY <1>2 DEF IsGame, SoundCall, Playing
  <2>2. score \in Int
    BY <2>1 DEF own_score
  <2> QED BY <2>2, <1>2, <1>3, OwnIsBest
<1>5. /\ top.alpha \in Int /\ top.beta \in Int /\ top.alpha = g[2] /\ top.alpha < top.beta
      /\ top.pv = <<>>
  BY <1>1, <1>2 DEF SoundCall, Frame, Window, Serves, Playing
<1>6. /\ looping.fn = "quiescence_search" /\ looping.phase = "looping" /\ looping.board = top.board
      /\ looping.moves = moves /\ looping.alpha = raised /\ looping.beta = top.beta
      /\ looping.pv = <<>>
  BY <1>1, <1>2, <1>5 DEF SoundCall, Frame
<1>7. Leads(q, <<>>, score)
  BY <1>2, <1>3, EmptyLine
<1> HIDE DEF looping, g, moves, q, score
<1>8. CASE score >= top.beta
  <2>1. Own(q) >= top.beta /\ ~(Own(q) < top.beta) /\ ~(Own(q) <= g[2])
    BY <1>4, <1>5, <1>8
  <2>2. top.beta = Clamp(Own(q), g[2], top.beta)
    BY <2>1 DEF Clamp
  <2> QED BY <1>1, <1>8, <2>1, <2>2, ReturnKeepsCorrect DEF g, q
<1>9. CASE ~(score >= top.beta)
  <2>1. /\ raised \in Int /\ g[2] <= raised /\ score <= raised
        /\ raised > g[2] => raised = score
    BY <1>4, <1>5
  <2> HIDE DEF raised
  <2>2. Question(looping) = q
    BY <1>1, <1>6 DEF Question, q
  <2>3. Behind(looping)
    BY <1>6, <2>1 DEF Behind, MovesOf, moves, score
  <2>4. Serves(looping, g)
    BY <1>2, <1>4, <1>6, <1>7, <2>1, <2>2, <2>3 DEF Serves, q
  <2> QED BY <1>1, <1>6, <1>9, <2>4, ContinueKeepsCorrect DEF g
<1> QED BY <1>8, <1>9

\* An element of a list is its head or in its tail.
LEMMA HeadOrTail ==
  ASSUME NEW S, NEW s \in Seq(S), s # <<>>
  PROVE  \A m \in Promise!Range(s) : m = Head(s) \/ m \in Promise!Range(Tail(s))
<1> SUFFICES ASSUME NEW i \in 1..Len(s), i # 1 PROVE s[i] \in Promise!Range(Tail(s))
  BY DEF Promise!Range
<1>1. /\ Tail(s) \in Seq(S) /\ Len(Tail(s)) = Len(s) - 1
      /\ \A j \in 1..(Len(s) - 1) : Tail(s)[j] = s[j + 1]
  BY PopTop
<1>2. DOMAIN Tail(s) = 1..(Len(s) - 1)
  BY <1>1
<1>3. i - 1 \in 1..(Len(s) - 1) /\ (i - 1) + 1 = i
  OBVIOUS
<1>4. i - 1 \in DOMAIN Tail(s) /\ Tail(s)[i - 1] = s[i]
  BY <1>1, <1>2, <1>3
<1> QED BY <1>4 DEF Promise!Range

LEMMA SearchChildKeepsCorrect ==
  ASSUME IsGame, Inv, Correct, SearchChild
  PROVE  Correct'
<1> DEFINE move == Head(top.moves)
           g == call(top.fn, DoMove(top.board, move), top.depth - 1, -top.beta, -top.alpha)
           f == [top EXCEPT !.phase = "waiting", !.trying = <<move>>, !.moves = Tail(top.moves)]
           goal == Goal(stack, query, 1)
           R == Promise!Range(MovesOf(top))
<1>1. /\ stack # <<>> /\ top.phase = "looping" /\ top.moves # <<>>
      /\ stack' = <<g, f>> \o Tail(stack) /\ query' = query
  BY DEF SearchChild, At
<1>2. SoundCall(top) /\ Serves(top, goal)
  BY <1>1, TopServes
<1>3. PICK S : stack \in Seq(S)
  BY <1>1, TopServes
<1>4. top.moves \in Seq(R) /\ top.fn \in {"alpha_beta", "quiescence_search"}
  BY <1>1, <1>2 DEF SoundCall, Playing
<1>5. \A m \in Promise!Range(top.moves) : m = move \/ m \in Promise!Range(Tail(top.moves))
  BY <1>1, <1>4, HeadOrTail
<1>6. /\ f.fn = top.fn /\ f.phase = "waiting" /\ f.board = top.board /\ f.depth = top.depth
      /\ f.alpha = top.alpha /\ f.beta = top.beta /\ f.moves = Tail(top.moves)
      /\ f.trying = <<move>> /\ f.pv = top.pv
  BY <1>2 DEF SoundCall, Frame
<1>7. /\ g.fn = top.fn /\ g.phase = "called" /\ g.board = DoMove(top.board, move)
      /\ g.depth = top.depth - 1 /\ g.alpha = -top.beta /\ g.beta = -top.alpha
  BY DEF call
<1>8. SoundCall(f) /\ SoundCall(g)
  BY <1>1, <1>2, CallerAndCallee
<1> HIDE DEF f, g, goal, move
<1>9. Serves(f, goal)
  <2>1. Question(f) = Question(top) /\ MovesOf(f) = MovesOf(top)
    BY <1>6 DEF Question, MovesOf
  <2>2. \A m : KidOf(f, m) = KidOf(top, m)
    BY <1>6 DEF KidOf
  <2>3. Behind(top)
    BY <1>1, <1>2 DEF Serves
  <2>4. Behind(f)
    BY <1>1, <1>5, <1>6, <2>1, <2>2, <2>3 DEF Behind
  <2> QED BY <1>1, <1>2, <1>6, <2>1, <2>4 DEF Serves
<1>10. Asks(f) = <<Question(g), -top.beta, -top.alpha>>
  BY <1>6, <1>7 DEF Asks, KidOf, Question
<1>11. Question(g) \in Asked
  BY <1>8, LoopOverKids
<1>12. Serves(g, Asks(f))
  <2>1. -top.beta \in Int /\ -top.beta <= -top.beta /\ ~(-top.beta > -top.beta)
    BY <1>2 DEF SoundCall, Frame
  <2> QED BY <2>1, <1>7, <1>10, <1>11 DEF Serves, Stands
<1>13. AllServe(<<g, f>> \o Tail(stack), query)
  BY <1>1, <1>3, <1>9, <1>12, PushKeepsServing DEF Correct, goal
<1>14. stack' # <<>> /\ Head(stack') = g
  <2>1. stack' \in Seq(S \cup {f, g}) /\ Len(stack') = Len(stack) + 1 /\ stack'[1] = g
    BY <1>1, <1>3, PushTop
  <2>2. Len(stack') > 0
    BY <1>3, <2>1
  <2> QED BY <2>1, <2>2
<1>15. AllServe(stack', query')
  BY <1>1, <1>13
<1> QED BY <1>7, <1>14, <1>15 DEF Correct, At, top

\* What the child's result means for a call that waits for it.
LEMMA ChildAnswers ==
  ASSUME IsGame, CapturesRunOut, Inv, Correct, At("waiting")
  PROVE  \E m \in Promise!Range(MovesOf(top)) :
           /\ top.trying = <<m>>
           /\ KidOf(top, m) \in Kids(Question(top)) /\ KidOf(top, m) \in Asked
           /\ Own(KidOf(top, m)) \in Int /\ -Own(KidOf(top, m)) <= Own(Question(top))
           /\ child_score >= top.beta => -Own(KidOf(top, m)) >= top.beta
           /\ child_score <= top.alpha => -Own(KidOf(top, m)) <= top.alpha
           /\ child_score < top.beta /\ child_score > top.alpha =>
                /\ child_score = -Own(KidOf(top, m))
                /\ Leads(KidOf(top, m), result.line, Own(KidOf(top, m)))
<1>1. stack # <<>> /\ top.phase = "waiting"
  BY DEF At
<1>2. SoundCall(top) /\ Question(top) \in Asked /\ result.score \in Int
  BY <1>1, TopServes
<1>3. PICK m \in Promise!Range(MovesOf(top)) : top.trying = <<m>>
  BY <1>1, <1>2 DEF SoundCall, Playing
<1> DEFINE k == KidOf(top, m)
<1>4. k \in Kids(Question(top))
  BY <1>1, <1>2, LoopOverKids
<1>5. k \in Asked /\ Own(k) \in Int /\ -Own(k) <= Own(Question(top))
  BY <1>2, <1>4, OwnIsBest
<1>6. Head(top.trying) = m
  BY <1>3
<1>7. Asks(top) = <<k, -top.beta, -top.alpha>>
  BY <1>6 DEF Asks
<1> HIDE DEF k
<1>8. /\ result.score = Clamp(Own(k), -top.beta, -top.alpha)
      /\ -top.beta < Own(k) /\ Own(k) < -top.alpha => Leads(k, result.line, Own(k))
  BY <1>7 DEF Correct, Reached
<1>9. top.alpha \in Int /\ top.beta \in Int /\ top.alpha < top.beta
  BY <1>2 DEF SoundCall, Frame, Window
<1>10. child_score = -result.score
  BY DEF child_score
<1>11. /\ child_score >= top.beta => -Own(k) >= top.beta
       /\ child_score <= top.alpha => -Own(k) <= top.alpha
       /\ child_score < top.beta /\ child_score > top.alpha =>
            child_score = -Own(k) /\ -top.beta < Own(k) /\ Own(k) < -top.alpha
  BY <1>2, <1>5, <1>8, <1>9, <1>10 DEF Clamp
<1> QED BY <1>3, <1>4, <1>5, <1>8, <1>11 DEF k

LEMMA CutOffKeepsCorrect ==
  ASSUME IsGame, CapturesRunOut, Inv, Correct, CutOff
  PROVE  Correct'
<1> DEFINE q == Question(top)
           g == Goal(stack, query, 1)
<1>1. At("waiting") /\ stack # <<>> /\ child_score >= top.beta /\ Return(top.beta)
  BY DEF CutOff, At
<1>2. SoundCall(top) /\ Serves(top, g) /\ q \in Asked
  BY <1>1, TopServes
<1>3. PICK m \in Promise!Range(MovesOf(top)) :
        Own(KidOf(top, m)) \in Int /\ -Own(KidOf(top, m)) <= Own(q) /\ -Own(KidOf(top, m)) >= top.beta
  BY <1>1, ChildAnswers
<1>4. Own(q) \in Int
  BY <1>2, OwnIsBest
<1>5. top.alpha \in Int /\ top.beta \in Int /\ top.alpha < top.beta /\ g[2] \in Int /\ g[2] <= top.alpha
  BY <1>2 DEF SoundCall, Frame, Window, Serves
<1> HIDE DEF q, g
<1>6. ~(Own(q) < top.beta) /\ Own(q) >= top.beta /\ ~(Own(q) <= g[2])
  BY <1>3, <1>4, <1>5
<1>7. top.beta = Clamp(Own(q), g[2], top.beta)
  BY <1>6 DEF Clamp
<1> QED BY <1>1, <1>6, <1>7, ReturnKeepsCorrect DEF q, g

\* The move that was tried joins the ones left behind.
LEMMA NextInLine ==
  ASSUME IsGame, NEW t, SoundCall(t), t.phase = "waiting", NEW g, Serves(t, g),
         NEW m, t.trying = <<m>>, NEW f, f.phase = "looping",
         f.fn = t.fn, f.board = t.board, f.depth = t.depth, f.moves = t.moves,
         f.alpha \in Int, f.alpha >= t.alpha, Own(KidOf(t, m)) \in Int, -Own(KidOf(t, m)) <= f.alpha,
         \A n \in Promise!Range(MovesOf(t)) : Own(KidOf(t, n)) \in Int
  PROVE  Question(f) = Question(t) /\ Behind(f)
<1>1. Question(f) = Question(t) /\ MovesOf(f) = MovesOf(t) /\ \A n : KidOf(f, n) = KidOf(t, n)
  BY DEF Question, MovesOf, KidOf
<1>2. Behind(t)
  BY DEF Serves
<1>3. t.alpha \in Int /\ t.board \in Boards
  BY DEF SoundCall, Frame, Playing
<1>4. ASSUME NEW n \in Promise!Range(MovesOf(f)), n \notin Promise!Range(f.moves)
      PROVE  -Own(KidOf(f, n)) <= f.alpha
  <2>1. t.trying = <<n>> \/ -Own(KidOf(t, n)) <= t.alpha
    BY <1>1, <1>2, <1>4 DEF Behind
  <2>2. CASE t.trying = <<n>>
    <3>1. n = m
      BY <2>2
    <3> QED BY <3>1, <1>1
  <2>3. CASE -Own(KidOf(t, n)) <= t.alpha
    <3>1. Own(KidOf(t, n)) \in Int
      BY <1>1
    <3> QED BY <2>3, <3>1, <1>1, <1>3
  <2> QED BY <2>1, <2>2, <2>3
<1>5. f.fn # "alpha_beta" => own_score(f.board) <= f.alpha
  <2>1. StaticEvaluation(f.board) \in Int
    BY <1>3 DEF IsGame
  <2>2. own_score(f.board) \in Int
    BY <2>1 DEF own_score
  <2> QED BY <1>2, <1>3, <2>2 DEF Behind
<1> QED BY <1>1, <1>4, <1>5 DEF Behind

\* All kids have integer values.
LEMMA KidsHaveValues ==
  ASSUME IsGame, CapturesRunOut, NEW t, SoundCall(t), t.phase # "called"
  PROVE  \A n \in Promise!Range(MovesOf(t)) : Own(KidOf(t, n)) \in Int
<1>1. Question(t) \in Asked /\ Kids(Question(t)) = {KidOf(t, n) : n \in Promise!Range(MovesOf(t))}
  BY LoopOverKids
<1> QED BY <1>1, OwnIsBest

LEMMA ImproveKeepsCorrect ==
  ASSUME IsGame, CapturesRunOut, Inv, Correct, Improve
  PROVE  Correct'
<1> DEFINE score == child_score
           f == [top EXCEPT !.phase = "looping", !.trying = <<>>, !.alpha = score,
                            !.pv = top.trying \o result.line]
           q == Question(top)
           g == Goal(stack, query, 1)
<1>1. /\ At("waiting") /\ stack # <<>> /\ top.phase = "waiting"
      /\ score < top.beta /\ score > top.alpha /\ Continue(f)
  BY DEF Improve, At
<1>2. SoundCall(top) /\ Serves(top, g) /\ q \in Asked /\ result.score \in Int
  BY <1>1, TopServes
<1>3. score \in Int
  BY <1>2 DEF child_score
<1>4. PICK m \in Promise!Range(MovesOf(top)) :
        /\ top.trying = <<m>> /\ KidOf(top, m) \in Kids(q)
        /\ Own(KidOf(top, m)) \in Int /\ -Own(KidOf(top, m)) <= Own(q)
        /\ score = -Own(KidOf(top, m))
        /\ Leads(KidOf(top, m), result.line, Own(KidOf(top, m)))
  BY <1>1, ChildAnswers
<1>5. Leads(q, <<m>> \o result.line, -Own(KidOf(top, m)))
  <2>1. /\ top.fn = "alpha_beta" => ~AtRest(q)
        /\ top.fn # "alpha_beta" => AtRest(q) /\ q[2] = 0
        /\ q[1] = top.board
        /\ top.fn = "alpha_beta" => q[2] = top.depth
    BY <1>1, <1>2, LoopOverKids DEF Question
  <2>2. IF AtRest(q)
        THEN /\ q[2] = 0 /\ m \in Promise!Range(LegalCaptureMoves(q[1]))
             /\ KidOf(top, m) = <<DoMove(q[1], m), 0>>
        ELSE /\ m \in Promise!Range(LegalMoves(q[1]))
             /\ KidOf(top, m) = <<DoMove(q[1], m), q[2] - 1>>
    BY <1>4, <2>1 DEF KidOf, MovesOf, Question
  <2> HIDE DEF q
  <2> QED BY <1>2, <1>4, <2>2, LeadsPrepend
<1> HIDE DEF score
<1>6. /\ f.phase = "looping" /\ f.fn = top.fn /\ f.board = top.board
      /\ f.depth = top.depth /\ f.moves = top.moves /\ f.beta = top.beta /\ f.alpha = score
      /\ f.pv = <<m>> \o result.line
  BY <1>2, <1>4 DEF SoundCall, Frame
<1> HIDE DEF f, q, g
<1>7. /\ top.alpha \in Int /\ g[2] \in Int /\ g[2] <= top.alpha
      /\ f.alpha \in Int /\ f.alpha >= top.alpha /\ -Own(KidOf(top, m)) <= f.alpha /\ g[2] <= f.alpha
  BY <1>1, <1>2, <1>3, <1>4, <1>6 DEF SoundCall, Frame, Serves
<1>8. \A n \in Promise!Range(MovesOf(top)) : Own(KidOf(top, n)) \in Int
  BY <1>1, <1>2, KidsHaveValues
<1>9. Question(f) = q /\ Behind(f)
  BY <1>1, <1>2, <1>4, <1>6, <1>7, <1>8, NextInLine DEF q
<1>10. f.alpha <= Own(q) /\ Leads(q, f.pv, f.alpha)
  BY <1>4, <1>5, <1>6
<1>11. Serves(f, g)
  BY <1>2, <1>6, <1>7, <1>9, <1>10 DEF Serves, q
<1> QED BY <1>1, <1>6, <1>11, ContinueKeepsCorrect DEF g

LEMMA RejectKeepsCorrect ==
  ASSUME IsGame, CapturesRunOut, Inv, Correct, Reject
  PROVE  Correct'
<1> DEFINE f == [top EXCEPT !.phase = "looping", !.trying = <<>>]
           g == Goal(stack, query, 1)
<1>1. /\ At("waiting") /\ stack # <<>> /\ top.phase = "waiting"
      /\ child_score <= top.alpha /\ Continue(f)
  BY DEF Reject, At
<1>2. SoundCall(top) /\ Serves(top, g)
  BY <1>1, TopServes
<1>3. PICK m \in Promise!Range(MovesOf(top)) :
        top.trying = <<m>> /\ Own(KidOf(top, m)) \in Int /\ -Own(KidOf(top, m)) <= top.alpha
  BY <1>1, ChildAnswers
<1>4. /\ f.phase = "looping" /\ f.fn = top.fn /\ f.board = top.board
      /\ f.depth = top.depth /\ f.moves = top.moves /\ f.beta = top.beta /\ f.alpha = top.alpha
      /\ f.pv = top.pv
  BY <1>2 DEF SoundCall, Frame
<1> HIDE DEF f, g
<1>5. f.alpha \in Int /\ f.alpha >= top.alpha /\ -Own(KidOf(top, m)) <= f.alpha
  BY <1>2, <1>3, <1>4 DEF SoundCall, Frame
<1>6. \A n \in Promise!Range(MovesOf(top)) : Own(KidOf(top, n)) \in Int
  BY <1>1, <1>2, KidsHaveValues
<1>7. Question(f) = Question(top) /\ Behind(f)
  BY <1>1, <1>2, <1>3, <1>4, <1>5, <1>6, NextInLine
<1>8. Serves(f, g)
  BY <1>2, <1>4, <1>7 DEF Serves
<1> QED BY <1>1, <1>4, <1>8, ContinueKeepsCorrect DEF g

LEMMA ReturnAlphaKeepsCorrect ==
  ASSUME IsGame, CapturesRunOut, Inv, Correct, ReturnAlpha
  PROVE  Correct'
<1> DEFINE q == Question(top)
           g == Goal(stack, query, 1)
<1>1. stack # <<>> /\ top.phase = "looping" /\ top.moves = <<>> /\ Return(top.alpha)
  BY DEF ReturnAlpha, At
<1>2. SoundCall(top) /\ Serves(top, g) /\ q \in Asked
  BY <1>1, TopServes
<1>3. /\ Own(q) \in Int
      /\ \/ AtRest(q) /\ Own(q) = own_score(q[1])
         \/ \E k \in Kids(q) : Own(q) = -Own(k)
  BY <1>2, OwnIsBest
<1>4. /\ Kids(q) = {KidOf(top, m) : m \in Promise!Range(MovesOf(top))}
      /\ top.fn = "alpha_beta" => ~AtRest(q)
      /\ q[1] = top.board
  BY <1>1, <1>2, LoopOverKids DEF Question
<1>5. Promise!Range(<<>>) = {}
  BY DEF Promise!Range
<1>6. /\ top.fn # "alpha_beta" => own_score(top.board) <= top.alpha
      /\ \A m \in Promise!Range(MovesOf(top)) : -Own(KidOf(top, m)) <= top.alpha
  BY <1>1, <1>2, <1>5 DEF Serves, Behind
<1> HIDE DEF q, g
<1>7. Own(q) <= top.alpha
  BY <1>3, <1>4, <1>6
<1>8. /\ top.alpha \in Int /\ top.beta \in Int /\ top.alpha < top.beta
      /\ g[2] \in Int /\ g[2] <= top.alpha
      /\ top.alpha > g[2] => top.alpha <= Own(q) /\ Leads(q, top.pv, top.alpha)
  BY <1>2 DEF SoundCall, Frame, Window, Serves, q
<1>9. CASE top.alpha > g[2]
  <2>1. Own(q) = top.alpha /\ Leads(q, top.pv, Own(q))
    BY <1>3, <1>7, <1>8, <1>9
  <2>2. top.alpha = Clamp(Own(q), g[2], top.beta)
    BY <2>1, <1>3, <1>8, <1>9 DEF Clamp
  <2> QED BY <1>1, <2>1, <2>2, ReturnKeepsCorrect DEF q, g
<1>10. CASE ~(top.alpha > g[2])
  <2>1. top.alpha = g[2] /\ Own(q) <= g[2] /\ ~(g[2] < Own(q))
    BY <1>3, <1>7, <1>8, <1>10
  <2>2. top.alpha = Clamp(Own(q), g[2], top.beta)
    BY <2>1 DEF Clamp
  <2> QED BY <1>1, <2>1, <2>2, ReturnKeepsCorrect DEF q, g
<1> QED BY <1>9, <1>10

LEMMA NextKeepsCorrect ==
  ASSUME IsGame, CapturesRunOut, Inv, Correct, [Next]_vars
  PROVE  Correct'
<1>1. CASE EnterAlphaBeta  BY <1>1, EnterAlphaBetaKeepsCorrect
<1>2. CASE EnterQuiescence BY <1>2, EnterQuiescenceKeepsCorrect
<1>3. CASE SearchChild     BY <1>3, SearchChildKeepsCorrect
<1>4. CASE CutOff          BY <1>4, CutOffKeepsCorrect
<1>5. CASE Improve         BY <1>5, ImproveKeepsCorrect
<1>6. CASE Reject          BY <1>6, RejectKeepsCorrect
<1>7. CASE ReturnAlpha     BY <1>7, ReturnAlphaKeepsCorrect
<1>8. CASE UNCHANGED vars  BY <1>8 DEF Correct, vars, At, top
<1> QED BY <1>1, <1>2, <1>3, <1>4, <1>5, <1>6, <1>7, <1>8 DEF Next

-----------------------------------------------------------------------------
\* The sign of a side, twice, is none.
LEMMA OwnAndValue ==
  ASSUME IsGame, CapturesRunOut, NEW q \in Asked
  PROVE  Own(q) * Promise!Sign(q[1]) = Promise!Value[q]
<1> DEFINE v == Promise!Value[q]
           s == Promise!Sign(q[1])
<1>1. v \in Int /\ s \in {1, -1}
  BY ValueIsInt DEF Promise!Sign
<1>2. Own(q) = v * s
  BY DEF Own
<1> HIDE DEF v, s
<1>3. CASE s = 1 BY <1>1, <1>2, <1>3 DEF v, s
<1>4. CASE s = -1 BY <1>1, <1>2, <1>4 DEF v, s
<1> QED BY <1>1, <1>3, <1>4

LEMMA CorrectImpliesClamped ==
  ASSUME IsGame, CapturesRunOut, Inv, Correct
  PROVE  EveryCallIsClamped
<1> SUFFICES ASSUME At("waiting") PROVE EveryCallIsClamped
  BY DEF EveryCallIsClamped
<1>1. PICK m \in Promise!Range(MovesOf(top)) : top.trying = <<m>> /\ KidOf(top, m) \in Asked
  BY ChildAnswers
<1> DEFINE k == KidOf(top, m)
           board == DoMove(top.board, Head(top.trying))
           depth == IF top.fn = "alpha_beta" THEN top.depth - 1 ELSE 0
<1>2. k = <<board, depth>> /\ k[1] = board /\ k[2] = depth
  BY <1>1 DEF KidOf
<1>3. Asks(top) = <<k, -top.beta, -top.alpha>>
  BY <1>1 DEF Asks
<1>4. Own(k) * Promise!Sign(board) = Promise!Value[k] /\ Own(k) = Promise!Value[k] * Promise!Sign(board)
  BY <1>1, <1>2, OwnAndValue DEF Own
<1> HIDE DEF k, board, depth
<1>5. /\ result.score = Clamp(Own(k), -top.beta, -top.alpha)
      /\ -top.beta < Own(k) /\ Own(k) < -top.alpha => Leads(k, result.line, Own(k))
  BY <1>3 DEF Correct, Reached
<1>6. Own(k) > -top.beta => -top.beta < Own(k)
  <2>1. stack # <<>>
    BY DEF At
  <2>2. Own(k) \in Int /\ top.beta \in Int
    BY <1>1, <2>1, OwnIsBest, TopIsSound DEF SoundCall, Frame, k
  <2> QED BY <2>2
<1>7. Own(k) > -top.beta /\ Own(k) < -top.alpha
        => Promise!LineTo(board, depth, result.line, Promise!Value[k])
  BY <1>2, <1>4, <1>5, <1>6 DEF Leads
<1> QED BY <1>2, <1>4, <1>5, <1>7 DEF EveryCallIsClamped, board, depth

\* Every return of alpha_beta and quiescence_search, on every board of every
\* game: the minimax value clamped to the window of the call, and inside the
\* window a line that leads to it.
THEOREM EveryReturnIsClamped == IsGame /\ CapturesRunOut => (Spec => []EveryCallIsClamped)
<1> SUFFICES ASSUME IsGame, CapturesRunOut PROVE Spec => []EveryCallIsClamped
  OBVIOUS
<1>1. Init => Inv /\ Correct
  BY InitImpliesInv, InitImpliesCorrect
<1>2. Inv /\ Correct /\ [Next]_vars => (Inv /\ Correct)'
  BY NextKeepsInv, NextKeepsCorrect
<1>3. Inv /\ Correct => EveryCallIsClamped
  BY CorrectImpliesClamped
<1> QED BY <1>1, <1>2, <1>3, PTL DEF Spec

\* Such scores have values inside the first window.
LEMMA OwnInside ==
  ASSUME IsGame, CapturesRunOut, ScoresInside, NEW q \in Asked
  PROVE  -Infinity < Own(q) /\ Own(q) < Infinity
<1> DEFINE W == {x \in Int : -Infinity < x /\ x < Infinity}
           v == Promise!Value[q]
<1>1. v \in W
  BY ValuesAreScores DEF ScoresInside, IsGame
<1>2. Own(q) = v * Promise!Sign(q[1]) /\ Promise!Sign(q[1]) \in {1, -1}
  BY DEF Own, Promise!Sign
<1> HIDE DEF v
<1>3. CASE Promise!Sign(q[1]) = 1
  BY <1>1, <1>2, <1>3
<1>4. CASE Promise!Sign(q[1]) = -1
  BY <1>1, <1>2, <1>4, InfinityAssumption
<1> QED BY <1>2, <1>3, <1>4

\* A step of the search answers, or changes nothing that the promise is about.
LEMMA StepAnswers ==
  ASSUME IsGame, CapturesRunOut, ScoresInside, Inv, Correct, Correct', query \in Asked, [Next]_vars
  PROVE  [Promise!Answer]_<<query, stack = <<>>, IF stack = <<>> THEN result.score ELSE 0,
                            IF stack = <<>> THEN result.line ELSE <<>> >>
<1>1. CASE UNCHANGED vars
  BY <1>1 DEF vars
<1>2. CASE Next
  <2>1. stack # <<>> /\ query' = query
    BY <1>2 DEF Next, At, EnterAlphaBeta, EnterQuiescence, SearchChild, CutOff, Improve, Reject,
                ReturnAlpha, Continue, Return
  <2>2. CASE stack' # <<>>
    BY <2>1, <2>2
  <2>3. CASE stack' = <<>>
    <3>1. Reached(result', <<query, -Infinity, Infinity>>)
      BY <2>1, <2>3 DEF Correct
    <3>2. -Infinity < Own(query) /\ Own(query) < Infinity /\ Own(query) \in Int
      BY OwnInside, OwnIsBest
    <3>3. result'.score = Own(query) /\ Leads(query, result'.line, Own(query))
      BY <3>1, <3>2, InfinityAssumption DEF Reached, Clamp
    <3>4. Promise!LineTo(query[1], query[2], result'.line, Promise!Value[query])
      BY <3>3, OwnAndValue DEF Leads
    <3>5. Promise!Answer
      BY <2>1, <2>3, <3>3, <3>4 DEF Promise!Answer, Own
    <3> QED BY <3>5
  <2> QED BY <2>2, <2>3
<1> QED BY <1>1, <1>2

\* evaluation() keeps its promise: the search with its stack, its windows and its
\* cutoffs implements the specification that answers in one step with the
\* minimax value and a line to it.
THEOREM SearchImplementsMinimax ==
  IsGame /\ CapturesRunOut /\ ScoresInside => (Spec => ReturnsTheMinimaxValue)
<1> SUFFICES ASSUME IsGame, CapturesRunOut, ScoresInside PROVE Spec => ReturnsTheMinimaxValue
  OBVIOUS
<1> DEFINE I == Inv /\ Correct /\ query \in Asked
<1>1. Init => I
  BY InitImpliesInv, InitImpliesCorrect DEF Init, IsGame, Asked
<1>2. I /\ [Next]_vars => I'
  <2>1. [Next]_vars => query' = query
    BY DEF Next, EnterAlphaBeta, EnterQuiescence, SearchChild, CutOff, Improve, Reject,
           ReturnAlpha, Continue, Return, vars
  <2> QED BY <2>1, NextKeepsInv, NextKeepsCorrect
<1>3. Init => Promise!Init
  <2> SUFFICES ASSUME Init PROVE Promise!Init
    OBVIOUS
  <2>1. stack # <<>>
    BY DEF Init
  <2> QED BY <2>1 DEF Promise!Init
<1>4. I /\ I' /\ [Next]_vars
        => [Promise!Answer]_<<query, stack = <<>>, IF stack = <<>> THEN result.score ELSE 0,
                              IF stack = <<>> THEN result.line ELSE <<>> >>
  BY StepAnswers
<1> HIDE DEF I
<1> QED BY <1>1, <1>2, <1>3, <1>4, PTL DEF Spec, ReturnsTheMinimaxValue, Promise!Spec

-----------------------------------------------------------------------------
(* Chess is such a game.  First the vectors of moves. *)

\* There are finitely many moves.
LEMMA MoveSetFinite == IsFiniteSet(MoveSet)
<1>1. IsFiniteSet(Square)
  <2>1. Square = 0..63 /\ 0 \in Int /\ 63 \in Int
    BY DEF Square, board_size
  <2> QED BY <2>1, FS_Interval
<1>2. IsFiniteSet(Piece) /\ IsFiniteSet(MoveType)
  <2> DEFINE N == 1..10
             p == [i \in N |-> <<"pawn", "rook", "knight", "bishop", "queen", "king",
                                 "king", "king", "king", "king">>[i]]
             t == [i \in N |-> <<"simple", "en_passant", "castle_kingside", "castle_queenside",
                                 "capture", "two_step_pawn", "promotion_to_rook",
                                 "promotion_to_bishop", "promotion_to_knight",
                                 "promotion_to_queen">>[i]]
  <2>0. 1 \in Int /\ 10 \in Int
    OBVIOUS
  <2>1. IsFiniteSet(N)
    <3>1. IsFiniteSet(1..10)
      BY <2>0, FS_Interval, Zenon
    <3> QED BY <3>1
  <2>2. N = {1, 2, 3, 4, 5, 6, 7, 8, 9, 10}
    OBVIOUS
  <2> HIDE DEF N
  <2>3. p \in Surjection(N, Piece)
    BY <2>2 DEF Surjection, Piece
  <2>4. t \in Surjection(N, MoveType)
    BY <2>2 DEF Surjection, MoveType, promotion_move_types
  <2> HIDE DEF p, t
  <2> QED BY <2>1, <2>3, <2>4, FS_Surjection
<1> DEFINE P == (Square \X Square) \X (Piece \X MoveType)
           f == [m \in MoveSet |-> << <<m.src_square_, m.dst_square_>>, <<m.piece_moving_, m.move_type_>> >>]
<1>3. IsFiniteSet(P)
  BY <1>1, <1>2, FS_Product
<1>4. f \in Injection(MoveSet, P)
  BY DEF Injection, IsInjective, MoveSet
<1> HIDE DEF f, P
<1> QED BY <1>3, <1>4, FS_Injection


\* What vector builds: the first n moves, all different.
Pushed(M, v, n) ==
  /\ v \in Seq(M)
  /\ Len(v) = n
  /\ \A i, j \in 1..n : v[i] = v[j] => i = j

\* As long as moves are left, there is one to push.
LEMMA MoreToPush ==
  ASSUME NEW M, IsFiniteSet(M), NEW n \in Nat, n < Cardinality(M), NEW v, Pushed(M, v, n)
  PROVE  \E m \in M : \A i \in 1..n : v[i] # m
<1>1. SUFFICES ASSUME \A m \in M : \E i \in 1..n : v[i] = m PROVE FALSE
  BY <1>1
<1>2. Cardinality(M) \in Nat
  BY FS_CardinalityType
<1>3. v \in [1..n -> M]
  BY DEF Pushed
<1>4. v \in Surjection(1..n, M)
  BY <1>1, <1>3 DEF Surjection
<1>5. Cardinality(M) <= n
  BY <1>4, FS_SurjCardinalityBound DEF ExistsSurjection
<1> QED BY <1>2, <1>5

LEMMA PushOne ==
  ASSUME NEW M, NEW n \in Nat, NEW v, Pushed(M, v, n), NEW m \in M, \A i \in 1..n : v[i] # m
  PROVE  Pushed(M, Append(v, m), n + 1)
<1>1. v \in Seq(M) /\ Len(v) = n /\ \A i, j \in 1..n : v[i] = v[j] => i = j
  BY DEF Pushed
<1> DEFINE w == Append(v, m)
<1>2. w \in Seq(M) /\ Len(w) = n + 1 /\ w[n + 1] = m /\ \A i \in 1..n : w[i] = v[i]
  BY <1>1
<1> HIDE DEF w
<1>3. ASSUME NEW i \in 1..(n + 1), NEW j \in 1..(n + 1), w[i] = w[j] PROVE i = j
  <2>1. CASE i = n + 1 /\ j = n + 1
    BY <2>1
  <2>2. CASE i \in 1..n /\ j \in 1..n
    BY <2>2, <1>1, <1>2, <1>3
  <2>3. CASE i = n + 1 /\ j \in 1..n
    BY <2>3, <1>2, <1>3
  <2>4. CASE i \in 1..n /\ j = n + 1
    BY <2>4, <1>2, <1>3
  <2> QED BY <2>1, <2>2, <2>3, <2>4
<1>4. Pushed(M, w, n + 1)
  BY <1>2, <1>3 DEF Pushed
<1> QED BY <1>4 DEF w


\* One step of vector: v with the n-th move.
PushNext(M, v, n) == Append(v, CHOOSE m \in M : \A i \in 1..(n - 1) : v[i] # m)

\* A function that recurs from n to n - 1 is defined, here the one of vector.
LEMMA PushedEquation ==
  ASSUME NEW M, NEW size \in Nat
  PROVE  \E f : f = [n \in 0..size |-> IF n = 0 THEN <<>> ELSE PushNext(M, f[n - 1], n)]
<1> DEFINE Body(f, n) == IF n = 0 THEN <<>> ELSE PushNext(M, f[n - 1], n)
           Exists(k) == \E f : f = [n \in 0..k |-> Body(f, n)]
           T == {k \in Nat : ~Exists(k)}
<1>1. Exists(size)
  <2>1. SUFFICES ASSUME T # {} PROVE FALSE
    <3> HIDE DEF Exists
    <3> QED OBVIOUS
  <2>2. PICK k \in T : \A j \in T : k <= j
    <3>1. T \in SUBSET Nat
      OBVIOUS
    <3> HIDE DEF T
    <3> QED BY <2>1, <3>1, LeastNumber
  <2>3. k \in Nat /\ ~Exists(k)
    BY <2>2
  <2>4. CASE k = 0
    <3> DEFINE f == [n \in 0..0 |-> <<>>]
    <3>1. f = [n \in 0..k |-> Body(f, n)]
      BY <2>4
    <3> HIDE DEF f
    <3> QED BY <3>1, <2>3
  <2>5. CASE k # 0
    <3>1. k - 1 \in Nat /\ k - 1 \notin T
      <4> HIDE DEF T
      <4> QED BY <2>2, <2>3, <2>5
    <3>2. PICK f : f = [n \in 0..(k - 1) |-> Body(f, n)]
      BY <3>1
    <3> DEFINE g == [n \in 0..k |-> Body(f, n)]
    <3>3. ASSUME NEW n \in 0..(k - 1) PROVE f[n] = Body(f, n) /\ g[n] = Body(f, n)
      <4>1. n \in 0..k
        BY <2>3
      <4> HIDE DEF Body
      <4> QED BY <3>2, <4>1
    <3>4. ASSUME NEW n \in 0..k PROVE Body(g, n) = Body(f, n)
      <4>1. CASE n = 0 BY <4>1
      <4>2. CASE n # 0
        <5>1. n - 1 \in 0..(k - 1)
          BY <4>2, <2>3
        <5>2. f[n - 1] = g[n - 1]
          <6> HIDE DEF Body, g, T
          <6> QED BY <5>1, <3>3
        <5> HIDE DEF g
        <5> QED BY <5>2
      <4> QED BY <4>1, <4>2
    <3>5. g = [n \in 0..k |-> Body(g, n)]
      <4> HIDE DEF Body
      <4> QED BY <3>4
    <3> HIDE DEF g
    <3> QED BY <3>5, <2>3
  <2> QED BY <2>4, <2>5
<1> QED BY <1>1

\* vector puts every move of a finite set into a sequence, once.
LEMMA VectorIsPushed ==
  ASSUME NEW M, IsFiniteSet(M)
  PROVE  Pushed(M, vector(M), Cardinality(M))
<1> DEFINE size == Cardinality(M)
           Body(f, n) == IF n = 0 THEN <<>> ELSE PushNext(M, f[n - 1], n)
           p == CHOOSE f : f = [n \in 0..size |-> Body(f, n)]
<1>1. size \in Nat
  BY FS_CardinalityType
<1>2. vector(M) = p[size]
  BY Zenon DEF vector, PushNext
<1>3. p = [n \in 0..size |-> Body(p, n)]
  <2>1. \E f : f = [n \in 0..size |-> Body(f, n)]
    <3> HIDE DEF size
    <3> QED BY <1>1, PushedEquation
  <2> HIDE DEF Body
  <2> QED BY <2>1, Zenon
<1> HIDE DEF p
<1>4. \A n \in 0..size : p[n] = Body(p, n)
  <2> HIDE DEF Body
  <2> QED BY <1>3
<1> HIDE DEF size
<1> DEFINE T == {n \in 0..size : ~Pushed(M, p[n], n)}
<1>5. T = {}
  <2>1. SUFFICES ASSUME T # {} PROVE FALSE
    OBVIOUS
  <2>2. PICK n \in T : \A j \in T : n <= j
    <3>1. T \in SUBSET Nat
      BY <1>1
    <3> HIDE DEF T
    <3> QED BY <2>1, <3>1, LeastNumber
  <2>3. n \in 0..size /\ ~Pushed(M, p[n], n)
    BY <2>2
  <2>4. CASE n = 0
    <3>1. p[n] = <<>>
      BY <1>4, <2>3, <2>4
    <3> QED BY <3>1, <2>3, <2>4 DEF Pushed
  <2>5. CASE n # 0
    <3>1. n - 1 \in 0..size /\ n - 1 \in Nat /\ n - 1 < size /\ n - 1 + 1 = n /\ n - 1 < n
      BY <2>3, <2>5, <1>1
    <3>2. n - 1 \notin T
      <4> HIDE DEF T
      <4> QED BY <3>1, <2>2, <2>3, <1>1
    <3> DEFINE k == n - 1
               v == p[k]
               Fresh(m) == \A i \in 1..k : v[i] # m
               c == CHOOSE m \in M : Fresh(m)
    <3>3. Pushed(M, v, k)
      BY <3>1, <3>2
    <3>4. p[n] = Append(v, c)
      BY <1>4, <2>3, <2>5 DEF PushNext
    <3> HIDE DEF v
    <3>5. \E m \in M : Fresh(m)
      <4>1. k \in Nat /\ k < Cardinality(M)
        BY <3>1 DEF size
      <4> HIDE DEF k
      <4> QED BY <4>1, <3>3, MoreToPush
    <3>6. c \in M /\ Fresh(c)
      <4> HIDE DEF Fresh
      <4> QED BY <3>5
    <3> HIDE DEF c
    <3>7. Pushed(M, Append(v, c), k + 1)
      <4>1. k \in Nat
        BY <3>1
      <4> HIDE DEF k
      <4> QED BY <4>1, <3>3, <3>6, PushOne
    <3> QED BY <3>7, <3>4, <3>1, <2>3
  <2> QED BY <2>4, <2>5
<1>6. size \in 0..size
  BY <1>1
<1>7. Pushed(M, p[size], size)
  BY <1>5, <1>6
<1> QED BY <1>7, <1>2 DEF size

LEMMA VectorHoldsTheMoves ==
  ASSUME NEW M, IsFiniteSet(M)
  PROVE  /\ vector(M) \in Seq(M)
         /\ Promise!Range(vector(M)) = M
<1> DEFINE n == Cardinality(M)
           v == vector(M)
<1>1. v \in Seq(M) /\ Len(v) = n /\ \A i, j \in 1..n : v[i] = v[j] => i = j
  BY VectorIsPushed DEF Pushed
<1>2. n \in Nat
  BY FS_CardinalityType
<1> HIDE DEF v
<1>3. IsFiniteSet(1..n) /\ Cardinality(1..n) = n
  <2>1. 1 \in Int /\ n \in Int /\ (1 > n => n = 0) /\ n - 1 + 1 = n
    BY <1>2
  <2> QED BY <2>1, FS_Interval
<1>4. v \in Injection(1..n, M)
  <2>1. v \in [1..n -> M]
    BY <1>1
  <2> QED BY <2>1, <1>1 DEF Injection, IsInjective
<1>5. v \in Surjection(1..n, M)
  BY <1>3, <1>4, FS_Injection
<1>6. \A m \in M : \E i \in 1..n : v[i] = m
  BY <1>5 DEF Surjection
<1>7. Promise!Range(v) = M
  <2>1. DOMAIN v = 1..n /\ \A i \in 1..n : v[i] \in M
    BY <1>1
  <2> QED BY <2>1, <1>6 DEF Promise!Range
<1> QED BY <1>1, <1>7 DEF v


-----------------------------------------------------------------------------
(* Chess is a game. *)

\* The constants of the search are those of chess, as ChessSearch.cfg gives them;
\* any well-formed board may be asked about, to any depth.
IsChess ==
  /\ Boards = ChessBoards
  /\ Infinity = 1000000
  /\ Queries \subseteq ChessBoards \X Nat
  /\ \A b \in ChessBoards :
       /\ LegalMoves(b) = ChessLegalMoves(b)
       /\ LegalCaptureMoves(b) = ChessLegalCaptureMoves(b)
       /\ StaticEvaluation(b) = static_evaluation(b)
       /\ WhiteToMove(b) = is_whites_move_(b)
       /\ \A m \in legal_moves(b) : DoMove(b, m) = do_move(b, m)

\* The vectors that a board returns.
LEMMA ChessVectors ==
  ASSUME NEW b, WellFormed(b)
  PROVE  /\ ChessLegalMoves(b) \in Seq(legal_moves(b))
         /\ Promise!Range(ChessLegalMoves(b)) = legal_moves(b)
         /\ ChessLegalCaptureMoves(b) \in Seq(legal_capture_moves(b))
         /\ Promise!Range(ChessLegalCaptureMoves(b)) = legal_capture_moves(b)
         /\ legal_capture_moves(b) \subseteq legal_moves(b)
<1>1. legal_capture_moves(b) \subseteq legal_moves(b)
  BY DEF legal_capture_moves
<1>2. IsFiniteSet(legal_moves(b)) /\ IsFiniteSet(legal_capture_moves(b))
  BY <1>1, LegalMovesType, MoveSetFinite, FS_Subset
<1> QED BY <1>1, <1>2, VectorHoldsTheMoves DEF ChessLegalMoves, ChessLegalCaptureMoves

\* What a side has is worth little: no Bitboard has more than 64 squares.
LEMMA MaterialIsSmall ==
  ASSUME NEW b \in BoardType, NEW side \in Color
  PROVE  material(b, side) \in 0..1344
<1>1. IsFiniteSet(Square) /\ Cardinality(Square) = 64
  <2>1. Square = 0..63 /\ 0 \in Int /\ 63 \in Int /\ ~(0 > 63) /\ 63 - 0 + 1 = 64
    BY DEF Square, board_size
  <2> QED BY <2>1, FS_Interval
<1>2. ASSUME NEW p \in Piece
      PROVE  Cardinality(pieces(b, side, p)) \in 0..64
  <2>1. pieces(b, side, p) \in SUBSET Square
    BY DEF pieces, BoardType, BitboardArray, Bitboard
  <2>2. Cardinality(pieces(b, side, p)) \in Nat /\ Cardinality(pieces(b, side, p)) <= 64
    BY <2>1, <1>1, FS_Subset, FS_CardinalityType
  <2> QED BY <2>2
<1> DEFINE p == Cardinality(pieces(b, side, "pawn"))
           r == Cardinality(pieces(b, side, "rook"))
           k == Cardinality(pieces(b, side, "knight"))
           s == Cardinality(pieces(b, side, "bishop"))
           q == Cardinality(pieces(b, side, "queen"))
<1>3. p \in 0..64 /\ r \in 0..64 /\ k \in 0..64 /\ s \in 0..64 /\ q \in 0..64
  BY <1>2 DEF Piece
<1>4. material(b, side) = 1 * p + 5 * r + 3 * k + 3 * s + 9 * q
  BY DEF material, piece_value
<1> HIDE DEF p, r, k, s, q
<1>5. 1 * p + 5 * r + 3 * k + 3 * s + 9 * q \in 0..1344
  BY <1>3
<1> QED BY <1>4, <1>5

LEMMA StaticScoreIsSmall ==
  ASSUME NEW b \in BoardType
  PROVE  /\ static_evaluation(b) \in Int
         /\ -1344 <= static_evaluation(b)
         /\ static_evaluation(b) <= 1344
<1>1. material(b, "white") \in 0..1344 /\ material(b, "black") \in 0..1344
  BY MaterialIsSmall DEF Color
<1>2. \/ static_evaluation(b) \in {-1000, 1000}
      \/ static_evaluation(b) = material(b, "white") - material(b, "black")
  BY DEF static_evaluation
<1>3. CASE static_evaluation(b) \in {-1000, 1000}
  BY <1>3
<1>4. CASE static_evaluation(b) = material(b, "white") - material(b, "black")
  <2> DEFINE w == material(b, "white")
             l == material(b, "black")
  <2>1. w \in 0..1344 /\ l \in 0..1344 /\ static_evaluation(b) = w - l
    BY <1>1, <1>4
  <2> HIDE DEF w, l
  <2> QED BY <2>1
<1> QED BY <1>2, <1>3, <1>4

\* The turn passes.
LEMMA TurnPasses ==
  ASSUME NEW b, WellFormed(b), NEW m \in legal_moves(b)
  PROVE  do_move(b, m).side_to_move = flip_color(b.side_to_move)
<1>1. b \in BoardType /\ PiecesDisjoint(b) /\ OneKingEach(b)
  BY DEF WellFormed
<1>2. CASE m \in append_castling_moves(b)
  BY <1>1, <1>2, CastlingMoves, AfterCastling
<1>3. CASE m \in pseudolegal_moves(b, b.side_to_move)
  BY <1>1, <1>3, PseudolegalFacts, AfterMove
<1> QED BY <1>2, <1>3 DEF legal_moves

\* The number of men on the board.
Men(b) == Cardinality(friends(b, "white")) + Cardinality(friends(b, "black"))

LEMMA MenOfBothSides ==
  ASSUME NEW b \in BoardType, NEW side \in Color
  PROVE  /\ Men(b) \in Nat
         /\ Cardinality(friends(b, side)) \in Nat
         /\ Cardinality(enemies(b, side)) \in Nat
         /\ Men(b) = Cardinality(friends(b, side)) + Cardinality(enemies(b, side))
<1>1. \A c \in Color : Cardinality(friends(b, c)) \in Nat
  BY FriendsFinite, FS_CardinalityType
<1>2. Cardinality(friends(b, "white")) \in Nat /\ Cardinality(friends(b, "black")) \in Nat
  BY <1>1 DEF Color
<1>3. CASE side = "white"
  <2>1. enemies(b, side) = friends(b, "black")
    BY <1>3 DEF enemies, flip_color
  <2> QED BY <1>2, <1>3, <2>1 DEF Men
<1>4. CASE side = "black"
  <2>1. enemies(b, side) = friends(b, "white")
    BY <1>4 DEF enemies, flip_color
  <2> QED BY <1>2, <1>4, <2>1 DEF Men
<1> QED BY <1>3, <1>4 DEF Color

\* A move that legal_capture_moves returns takes a man off the board: castling
\* never is one, its square of arrival being empty.
LEMMA CapturesTake ==
  ASSUME NEW b, WellFormed(b), NEW m \in legal_capture_moves(b)
  PROVE  Men(do_move(b, m)) < Men(b)
<1> DEFINE side == b.side_to_move
           b2 == do_move(b, m)
<1>1. m \in legal_moves(b) /\ m.dst_square_ \in enemies(b, side)
  BY DEF legal_capture_moves, is_capture_move
<1>2. b \in BoardType /\ side \in Color
  BY DEF WellFormed, BoardType
<1>3. b2 \in BoardType
  BY <1>1, LegalKeepsWellFormed DEF WellFormed
<1>4. m \in pseudolegal_moves(b, side)
  <2>1. SUFFICES ASSUME m \in append_castling_moves(b) PROVE FALSE
    BY <1>1 DEF legal_moves
  <2>2. CastleFacts(b, m)
    BY <2>1, CastlingMoves
  <2>3. ~occupied(b.bb, m.dst_square_)
    BY <2>2 DEF CastleFacts
  <2>4. PICK p \in Piece : m.dst_square_ \in b.bb[<<flip_color(side), p>>]
    BY <1>1, Friends DEF enemies
  <2>5. <<flip_color(side), p>> \in Color \X Piece
    BY <1>2, FlipColor
  <2> QED BY <2>3, <2>4, <2>5 DEF occupied
<1>5. Cardinality(friends(b2, side)) = Cardinality(friends(b, side))
  BY <1>1, LegalAccounting DEF MoveAccounting
<1>6. enemies(b2, side) \subseteq enemies(b, side) \ {m.dst_square_}
  BY <1>4, MenAfter
<1>7. IsFiniteSet(enemies(b, side))
  BY <1>2, FriendsFinite, FlipColor DEF enemies
<1> HIDE DEF b2, side
<1>8. Cardinality(enemies(b2, side)) <= Cardinality(enemies(b, side)) /\ enemies(b2, side) # enemies(b, side)
  BY <1>1, <1>6, <1>7, FS_Subset
<1>9. Cardinality(enemies(b2, side)) # Cardinality(enemies(b, side))
  BY <1>6, <1>7, <1>8, FS_Subset
<1>10. /\ Men(b) = Cardinality(friends(b, side)) + Cardinality(enemies(b, side))
       /\ Men(b2) = Cardinality(friends(b2, side)) + Cardinality(enemies(b2, side))
       /\ Cardinality(friends(b, side)) \in Nat
       /\ Cardinality(enemies(b, side)) \in Nat
       /\ Cardinality(enemies(b2, side)) \in Nat
  BY <1>2, <1>3, MenOfBothSides
<1>11. Men(b2) < Men(b)
  BY <1>5, <1>8, <1>9, <1>10
<1> QED BY <1>11 DEF b2


LEMMA ChessIsAGame == IsChess => IsGame
<1> SUFFICES ASSUME IsChess PROVE IsGame
  OBVIOUS
<1>1. Boards = ChessBoards /\ Queries \subseteq Boards \X Nat
  BY DEF IsChess
<1>2. ASSUME NEW b \in Boards
      PROVE  /\ LegalMoves(b) \in Seq(Promise!Range(LegalMoves(b)))
             /\ LegalCaptureMoves(b) \in Seq(Promise!Range(LegalCaptureMoves(b)))
             /\ Promise!Range(LegalCaptureMoves(b)) \subseteq Promise!Range(LegalMoves(b))
             /\ WhiteToMove(b) \in BOOLEAN
             /\ StaticEvaluation(b) \in Int
             /\ \A m \in Promise!Range(LegalMoves(b)) :
                  /\ DoMove(b, m) \in Boards
                  /\ WhiteToMove(DoMove(b, m)) = ~WhiteToMove(b)
  <2>1. b \in ChessBoards /\ b \in BoardType /\ WellFormed(b)
    BY <1>1, <1>2 DEF ChessBoards
  <2>2. LegalMoves(b) = ChessLegalMoves(b) /\ LegalCaptureMoves(b) = ChessLegalCaptureMoves(b)
    BY <2>1 DEF IsChess
  <2>3. /\ LegalMoves(b) \in Seq(Promise!Range(LegalMoves(b)))
        /\ LegalCaptureMoves(b) \in Seq(Promise!Range(LegalCaptureMoves(b)))
        /\ Promise!Range(LegalCaptureMoves(b)) \subseteq Promise!Range(LegalMoves(b))
    BY <2>1, <2>2, ChessVectors
  <2>4. WhiteToMove(b) = is_whites_move_(b)
    BY <2>1 DEF IsChess
  <2>5. WhiteToMove(b) \in BOOLEAN
    BY <2>4 DEF is_whites_move_
  <2>6. StaticEvaluation(b) \in Int
    <3>1. StaticEvaluation(b) = static_evaluation(b)
      BY <2>1 DEF IsChess
    <3> QED BY <2>1, <3>1, StaticScoreIsSmall
  <2>7. ASSUME NEW m \in Promise!Range(LegalMoves(b))
        PROVE  DoMove(b, m) \in Boards /\ WhiteToMove(DoMove(b, m)) = ~WhiteToMove(b)
    <3>1. m \in legal_moves(b)
      BY <2>1, <2>2, <2>7, ChessVectors
    <3>2. DoMove(b, m) = do_move(b, m)
      BY <2>1, <3>1 DEF IsChess
    <3> DEFINE b2 == do_move(b, m)
    <3>3. WellFormed(b2) /\ b2 \in BoardType
      BY <2>1, <3>1, LegalKeepsWellFormed DEF WellFormed
    <3>4. b2 \in ChessBoards
      BY <3>3 DEF ChessBoards
    <3>5. b2.side_to_move = flip_color(b.side_to_move)
      BY <2>1, <3>1, TurnPasses
    <3>6. WhiteToMove(b2) = is_whites_move_(b2)
      <4> HIDE DEF b2
      <4> QED BY <3>4 DEF IsChess
    <3>7. is_whites_move_(b2) = ~is_whites_move_(b)
      <4>1. b.side_to_move \in Color
        BY <2>1 DEF BoardType
      <4> HIDE DEF b2
      <4> QED BY <3>5, <4>1 DEF is_whites_move_, flip_color, Color
    <3>8. WhiteToMove(b2) = ~WhiteToMove(b)
      BY <3>6, <3>7, <2>4, Zenon
    <3> HIDE DEF b2
    <3>9. DoMove(b, m) = b2
      BY <3>2 DEF b2
    <3> QED BY <1>1, <3>4, <3>8, <3>9, Zenon
  <2> QED BY <2>3, <2>5, <2>6, <2>7
<1> QED BY <1>1, <1>2 DEF IsGame

LEMMA ChessScoresInside == IsChess => ScoresInside
<1> SUFFICES ASSUME IsChess, NEW b \in Boards
             PROVE  -Infinity < StaticEvaluation(b) /\ StaticEvaluation(b) < Infinity
  BY DEF ScoresInside
<1>1. b \in ChessBoards /\ b \in BoardType
  BY DEF IsChess, ChessBoards
<1>2. StaticEvaluation(b) = static_evaluation(b) /\ Infinity = 1000000
  BY <1>1 DEF IsChess
<1> QED BY <1>1, <1>2, StaticScoreIsSmall

\* Captures run out: of the boards of a set, take one with the fewest men.
LEMMA ChessCapturesRunOut == IsChess => CapturesRunOut
<1> SUFFICES ASSUME IsChess, NEW T \in SUBSET Boards, T # {}
             PROVE  \E b \in T : \A m \in Promise!Range(LegalCaptureMoves(b)) : DoMove(b, m) \notin T
  BY DEF CapturesRunOut
<1>1. \A b \in T : b \in ChessBoards /\ b \in BoardType /\ WellFormed(b)
  BY DEF IsChess, ChessBoards
<1> DEFINE N == {Men(b) : b \in T}
<1>2. \A b \in BoardType : Men(b) \in Nat
  BY MenOfBothSides DEF Color
<1>3. N \in SUBSET Nat /\ N # {}
  BY <1>1, <1>2
<1>4. PICK n \in N : \A k \in N : n <= k
  <2> HIDE DEF N
  <2> QED BY <1>3, LeastNumber
<1>5. PICK b \in T : n = Men(b)
  BY <1>4
<1>6. ASSUME NEW m \in Promise!Range(LegalCaptureMoves(b)), DoMove(b, m) \in T PROVE FALSE
  <2>1. b \in ChessBoards /\ WellFormed(b)
    BY <1>1
  <2>2. LegalCaptureMoves(b) = ChessLegalCaptureMoves(b)
    BY <2>1 DEF IsChess
  <2>3. m \in legal_capture_moves(b) /\ m \in legal_moves(b)
    BY <1>6, <2>1, <2>2, ChessVectors
  <2>4. DoMove(b, m) = do_move(b, m)
    BY <2>1, <2>3 DEF IsChess
  <2>5. Men(DoMove(b, m)) < Men(b)
    BY <2>1, <2>3, <2>4, CapturesTake
  <2>6. Men(DoMove(b, m)) \in N
    BY <1>6
  <2>7. n <= Men(DoMove(b, m)) /\ Men(DoMove(b, m)) \in Nat /\ Men(b) \in Nat
    <3> HIDE DEF N
    <3> QED BY <2>6, <1>3, <1>4, <1>5
  <2> QED BY <2>5, <2>7, <1>5
<1> QED BY <1>6

-----------------------------------------------------------------------------
(* The search plays chess. *)

\* evaluation() of any well-formed board, to any depth, returns the minimax
\* value of the game of chess with captures played out, and a line of moves that
\* leads to it: what alpha_beta and quiescence_search leave out does not count.
THEOREM SearchIsRightInChess == IsChess => (Spec => ReturnsTheMinimaxValue)
BY ChessIsAGame, ChessCapturesRunOut, ChessScoresInside, SearchImplementsMinimax

\* Every call in between returns that value clamped to its window.
THEOREM CallsAreClampedInChess == IsChess => (Spec => []EveryCallIsClamped)
BY ChessIsAGame, ChessCapturesRunOut, EveryReturnIsClamped

-----------------------------------------------------------------------------
(* The colours exchanged.  Twins are boards that are mirror images of each  *)
(* other but for the counters, which no generator and no score looks at.    *)

Twins(b, c) ==
  /\ b \in BoardType /\ c \in BoardType
  /\ \A side \in Color : \A p \in Piece : \A sq \in Square :
       sq \in pieces(b, side, p) <=> MirrorSquare(sq) \in pieces(c, flip_color(side), p)
  /\ c.side_to_move = flip_color(b.side_to_move)
  /\ \A sq \in Square : sq \in b.en_passant_square_ <=> MirrorSquare(sq) \in c.en_passant_square_
  /\ \A r \in Right : r \in b.castling <=> MirrorRight(r) \in c.castling

\* A square and its mirror image are on one file, on opposite ranks.
LEMMA MirrorSquares ==
  ASSUME NEW sq \in Square
  PROVE  /\ MirrorSquare(sq) \in Square
         /\ MirrorSquare(MirrorSquare(sq)) = sq
         /\ file_idx(MirrorSquare(sq)) = file_idx(sq)
         /\ rank_idx(MirrorSquare(sq)) = 7 - rank_idx(sq)
<1>1. file_idx(sq) \in 0..7 /\ rank_idx(sq) \in 0..7 /\ coordinates_to_square(file_idx(sq), rank_idx(sq)) = sq
  BY Coordinates
<1>2. 7 - rank_idx(sq) \in 0..7 /\ 7 - (7 - rank_idx(sq)) = rank_idx(sq)
  BY <1>1
<1> QED BY <1>1, <1>2, Coordinates DEF MirrorSquare

\* The castling flag of the other side for the same wing.
LEMMA MirrorRights ==
  ASSUME NEW r \in Right
  PROVE  /\ MirrorRight(r) \in Right
         /\ MirrorRight(MirrorRight(r)) = r
         /\ right_side(MirrorRight(r)) = flip_color(right_side(r))
         /\ king_home(MirrorRight(r)) = MirrorSquare(king_home(r))
         /\ rook_home(MirrorRight(r)) = MirrorSquare(rook_home(r))
         /\ king_home(r) \in Square /\ rook_home(r) \in Square
  BY DEF MirrorRight, Right, right_side, king_home, rook_home, flip_color, home_square,
         MirrorSquare, coordinates_to_square, file_idx, rank_idx, board_size, Square

\* Being twins is mutual.
LEMMA TwinsAreMutual ==
  ASSUME NEW b, NEW c, Twins(b, c)
  PROVE  Twins(c, b)
<1>1. ASSUME NEW side \in Color, NEW p \in Piece, NEW sq \in Square
      PROVE  sq \in pieces(c, side, p) <=> MirrorSquare(sq) \in pieces(b, flip_color(side), p)
  <2>1. flip_color(side) \in Color /\ flip_color(flip_color(side)) = side
    BY FlipColor
  <2>2. MirrorSquare(sq) \in Square /\ MirrorSquare(MirrorSquare(sq)) = sq
    BY MirrorSquares
  <2>3. MirrorSquare(sq) \in pieces(b, flip_color(side), p)
          <=> MirrorSquare(MirrorSquare(sq)) \in pieces(c, flip_color(flip_color(side)), p)
    BY <2>1, <2>2 DEF Twins
  <2> QED BY <2>1, <2>2, <2>3
<1>2. ASSUME NEW sq \in Square
      PROVE  sq \in c.en_passant_square_ <=> MirrorSquare(sq) \in b.en_passant_square_
  <2>1. MirrorSquare(sq) \in Square /\ MirrorSquare(MirrorSquare(sq)) = sq
    BY MirrorSquares
  <2>2. MirrorSquare(sq) \in b.en_passant_square_
          <=> MirrorSquare(MirrorSquare(sq)) \in c.en_passant_square_
    BY <2>1 DEF Twins
  <2> QED BY <2>1, <2>2
<1>3. ASSUME NEW r \in Right
      PROVE  r \in c.castling <=> MirrorRight(r) \in b.castling
  <2>1. MirrorRight(r) \in Right /\ MirrorRight(MirrorRight(r)) = r
    BY MirrorRights
  <2>2. MirrorRight(r) \in b.castling <=> MirrorRight(MirrorRight(r)) \in c.castling
    BY <2>1 DEF Twins
  <2> QED BY <2>1, <2>2
<1>4. b \in BoardType /\ c \in BoardType /\ c.side_to_move = flip_color(b.side_to_move)
  BY DEF Twins
<1>5. b.side_to_move = flip_color(c.side_to_move)
  BY <1>4, FlipColor DEF BoardType
<1> QED BY <1>1, <1>2, <1>3, <1>4, <1>5 DEF Twins

\* The men of a side stand where the other's do on the twin.
LEMMA TwinMen ==
  ASSUME NEW b, NEW c, Twins(b, c), NEW sq \in Square
  PROVE  /\ \A side \in Color :
              /\ sq \in friends(b, side) <=> MirrorSquare(sq) \in friends(c, flip_color(side))
              /\ sq \in enemies(b, side) <=> MirrorSquare(sq) \in enemies(c, flip_color(side))
         /\ sq \in all_pieces(b) <=> MirrorSquare(sq) \in all_pieces(c)
<1>1. ASSUME NEW side \in Color
      PROVE  sq \in friends(b, side) <=> MirrorSquare(sq) \in friends(c, flip_color(side))
  BY Friends DEF Twins, pieces
<1>2. ASSUME NEW side \in Color
      PROVE  sq \in enemies(b, side) <=> MirrorSquare(sq) \in enemies(c, flip_color(side))
  BY <1>1, FlipColor DEF enemies
<1>3. sq \in all_pieces(b) <=> MirrorSquare(sq) \in all_pieces(c)
  BY <1>1 DEF all_pieces, Color, flip_color
<1> QED BY <1>1, <1>2, <1>3

-----------------------------------------------------------------------------
(* Steps, walks and masks of the mirror image. *)

\* The square with the given coordinates.
LEMMA AtIsThere ==
  ASSUME NEW file \in Int, NEW rank \in Int, NEW sq \in Square
  PROVE  sq \in at(file, rank) <=> file_idx(sq) = file /\ rank_idx(sq) = rank
<1>1. CASE file \in 0..7 /\ rank \in 0..7
  BY <1>1, Coordinates DEF at
<1>2. CASE ~(file \in 0..7 /\ rank \in 0..7)
  <2>1. file_idx(sq) \in 0..7 /\ rank_idx(sq) \in 0..7
    BY Coordinates
  <2> QED BY <1>2, <2>1 DEF at
<1> QED BY <1>1, <1>2

\* The image is on the same file and as far from the other edge.
LEMMA MirrorAt ==
  ASSUME NEW file \in Int, NEW rank \in Int, NEW sq \in Square
  PROVE  sq \in at(file, rank) <=> MirrorSquare(sq) \in at(file, 7 - rank)
<1>1. 7 - rank \in Int /\ rank_idx(sq) \in Int
  BY Coordinates
<1>2. MirrorSquare(sq) \in Square /\ file_idx(MirrorSquare(sq)) = file_idx(sq)
        /\ rank_idx(MirrorSquare(sq)) = 7 - rank_idx(sq)
  BY MirrorSquares
<1>3. sq \in at(file, rank) <=> file_idx(sq) = file /\ rank_idx(sq) = rank
  BY AtIsThere
<1>4. MirrorSquare(sq) \in at(file, 7 - rank) <=> file_idx(sq) = file /\ 7 - rank_idx(sq) = 7 - rank
  BY <1>1, <1>2, AtIsThere
<1> QED BY <1>1, <1>3, <1>4

\* North and south change places.
MirrorDirection(dir) ==
  CASE dir = "north" -> "south" [] dir = "south" -> "north"
    [] dir = "east"  -> "east"  [] dir = "west"  -> "west"
    [] dir = "northeast" -> "southeast" [] dir = "southeast" -> "northeast"
    [] dir = "northwest" -> "southwest" [] dir = "southwest" -> "northwest"

\* A direction and its image are taken by the same pieces.
LEMMA MirrorDirections ==
  ASSUME NEW dir \in all_directions
  PROVE  /\ MirrorDirection(dir) \in all_directions
         /\ dir \in rook_move_directions => MirrorDirection(dir) \in rook_move_directions
         /\ dir \in bishop_move_directions => MirrorDirection(dir) \in bishop_move_directions
         /\ file_step(dir) \in Int /\ rank_step(dir) \in Int
         /\ file_step(MirrorDirection(dir)) = file_step(dir)
         /\ rank_step(MirrorDirection(dir)) = -rank_step(dir)
  BY DEF MirrorDirection, all_directions, rook_move_directions, bishop_move_directions,
         file_step, rank_step

\* The image of a walk is a walk.
LEMMA MirrorWalk ==
  ASSUME NEW dir \in all_directions, NEW src \in Square, NEW n \in Nat, NEW sq \in Square
  PROVE  sq \in walk(dir, src, n)
           <=> MirrorSquare(sq) \in walk(MirrorDirection(dir), MirrorSquare(src), n)
<1> DEFINE f == file_idx(src) + n * file_step(dir)
           r == rank_idx(src) + n * rank_step(dir)
           m == MirrorSquare(src)
           e == MirrorDirection(dir)
<1>1. file_idx(src) \in Int /\ rank_idx(src) \in Int
  BY Coordinates
<1>2. f \in Int /\ r \in Int
  BY <1>1, MirrorDirections
<1>3. file_idx(m) + n * file_step(e) = f
  BY MirrorDirections, MirrorSquares
<1>4. rank_idx(m) + n * rank_step(e) = 7 - r
  <2>1. rank_idx(m) = 7 - rank_idx(src) /\ rank_step(e) = -rank_step(dir) /\ rank_step(dir) \in {-1, 0, 1}
    BY MirrorDirections, MirrorSquares DEF rank_step
  <2> QED BY <1>1, <2>1
<1>5. walk(dir, src, n) = at(f, r)
  BY DEF walk, at
<1>6. walk(e, m, n) = at(file_idx(m) + n * file_step(e), rank_idx(m) + n * rank_step(e))
  BY DEF walk, at
<1>7. walk(e, m, n) = at(f, 7 - r)
  BY <1>3, <1>4, <1>6
<1> HIDE DEF f, r, m, e
<1>8. sq \in walk(dir, src, n) <=> MirrorSquare(sq) \in walk(e, m, n)
  BY <1>2, <1>5, <1>7, MirrorAt
<1> QED BY <1>8 DEF m, e

\* And so is the image of one step.
LEMMA MirrorStep ==
  ASSUME NEW dir \in all_directions, NEW src \in Square, NEW sq \in Square
  PROVE  sq \in direction_to_function(dir, src)
           <=> MirrorSquare(sq) \in direction_to_function(MirrorDirection(dir), MirrorSquare(src))
<1>1. ASSUME NEW d \in all_directions, NEW s \in Square
      PROVE  direction_to_function(d, s) = walk(d, s, 1)
  <2>1. file_idx(s) \in 0..7 /\ rank_idx(s) \in 0..7 /\ coordinates_to_square(file_idx(s), rank_idx(s)) = s
    BY Coordinates
  <2>2. direction_to_function(d, s) = at(file_idx(s) + file_step(d), rank_idx(s) + rank_step(d))
    BY <2>1, StepCoordinates
  <2>3. 1 * file_step(d) = file_step(d) /\ 1 * rank_step(d) = rank_step(d)
    BY MirrorDirections
  <2> QED BY <2>2, <2>3 DEF walk, at
<1>2. MirrorDirection(dir) \in all_directions /\ MirrorSquare(src) \in Square
  BY MirrorDirections, MirrorSquares
<1> QED BY <1>1, <1>2, MirrorWalk

\* What is ahead of a pawn of one side is behind one of the other.
LEMMA MirrorPawnSteps ==
  ASSUME NEW side \in Color, NEW src \in Square, NEW sq \in Square
  PROVE  /\ sq \in forward(side, src)
              <=> MirrorSquare(sq) \in forward(flip_color(side), MirrorSquare(src))
         /\ sq \in diagonals(side, src)
              <=> MirrorSquare(sq) \in diagonals(flip_color(side), MirrorSquare(src))
<1>1. \A s \in Square : /\ north_of(s) = direction_to_function("north", s)
                        /\ south_of(s) = direction_to_function("south", s)
                        /\ northeast_of(s) = direction_to_function("northeast", s)
                        /\ northwest_of(s) = direction_to_function("northwest", s)
                        /\ southeast_of(s) = direction_to_function("southeast", s)
                        /\ southwest_of(s) = direction_to_function("southwest", s)
  BY DEF direction_to_function
<1>2. /\ {"north", "south", "northeast", "northwest", "southeast", "southwest"} \subseteq all_directions
      /\ MirrorDirection("north") = "south" /\ MirrorDirection("south") = "north"
      /\ MirrorDirection("northeast") = "southeast" /\ MirrorDirection("southeast") = "northeast"
      /\ MirrorDirection("northwest") = "southwest" /\ MirrorDirection("southwest") = "northwest"
  BY DEF MirrorDirection, all_directions, rook_move_directions, bishop_move_directions
<1>3. MirrorSquare(src) \in Square
  BY MirrorSquares
<1> DEFINE m == MirrorSquare(src)
           t == MirrorSquare(sq)
<1>4. /\ sq \in north_of(src) <=> t \in south_of(m)
      /\ sq \in south_of(src) <=> t \in north_of(m)
      /\ sq \in northeast_of(src) <=> t \in southeast_of(m)
      /\ sq \in northwest_of(src) <=> t \in southwest_of(m)
      /\ sq \in southeast_of(src) <=> t \in northeast_of(m)
      /\ sq \in southwest_of(src) <=> t \in northwest_of(m)
  <2>1. ASSUME NEW d \in {"north", "south", "northeast", "northwest", "southeast", "southwest"}
        PROVE  sq \in direction_to_function(d, src) <=> t \in direction_to_function(MirrorDirection(d), m)
    BY <1>2, MirrorStep
  <2> HIDE DEF m, t
  <2> QED BY <1>1, <1>2, <1>3, <2>1 DEF m
<1> HIDE DEF m, t
<1>5. /\ sq \in forward(side, src) <=> t \in forward(flip_color(side), m)
      /\ sq \in diagonals(side, src) <=> t \in diagonals(flip_color(side), m)
  BY <1>4 DEF forward, diagonals, flip_color, Color
<1> QED BY <1>5 DEF m, t

\* The masks of one side are the images of the other's.
LEMMA MirrorMasks ==
  ASSUME NEW side \in Color, NEW sq \in Square
  PROVE  /\ sq \in promotion_mask(side) <=> MirrorSquare(sq) \in promotion_mask(flip_color(side))
         /\ sq \in two_step_mask(side) <=> MirrorSquare(sq) \in two_step_mask(flip_color(side))
         /\ \A file \in 0..7 : MirrorSquare(home_square(side, file)) = home_square(flip_color(side), file)
         /\ rank_idx(sq) \in 1..6 <=> rank_idx(MirrorSquare(sq)) \in 1..6
<1>1. MirrorSquare(sq) \in Square /\ rank_idx(MirrorSquare(sq)) = 7 - rank_idx(sq) /\ rank_idx(sq) \in 0..7
  BY MirrorSquares, Coordinates
<1>2. sq \in rank_mask(1) <=> MirrorSquare(sq) \in rank_mask(6)
  BY <1>1 DEF rank_mask
<1>3. sq \in rank_mask(6) <=> MirrorSquare(sq) \in rank_mask(1)
  BY <1>1 DEF rank_mask
<1>4. ASSUME NEW file \in 0..7
      PROVE  MirrorSquare(home_square(side, file)) = home_square(flip_color(side), file)
  <2>1. \A rank \in 0..7 : MirrorSquare(coordinates_to_square(file, rank)) = coordinates_to_square(file, 7 - rank)
    BY Coordinates DEF MirrorSquare
  <2>2. 7 - 0 = 7 /\ 7 - 7 = 0
    OBVIOUS
  <2> QED BY <2>1, <2>2 DEF home_square, flip_color, Color
<1> QED BY <1>1, <1>2, <1>3, <1>4 DEF promotion_mask, two_step_mask, second_rank_mask, seventh_rank_mask,
                                     flip_color, Color

-----------------------------------------------------------------------------
(* The generators, on twins. *)

MirrorMove(m) ==
  Move(MirrorSquare(m.src_square_), MirrorSquare(m.dst_square_), m.piece_moving_, m.move_type_)

\* The image of a move, by its parts.
LEMMA MirrorMoveOf ==
  ASSUME NEW src, NEW dst, NEW piece, NEW type
  PROVE  MirrorMove(Move(src, dst, piece, type))
           = Move(MirrorSquare(src), MirrorSquare(dst), piece, type)
  BY DEF MirrorMove, Move

\* A capture is a capture on the twin.
LEMMA TwinSimpleOrCapture ==
  ASSUME NEW b, NEW c, Twins(b, c), NEW side \in Color, NEW src, NEW dst \in Square, NEW piece
  PROVE  MirrorMove(simple_or_capture(b, side, src, dst, piece))
           = simple_or_capture(c, flip_color(side), MirrorSquare(src), MirrorSquare(dst), piece)
<1>1. dst \in enemies(b, side) <=> MirrorSquare(dst) \in enemies(c, flip_color(side))
  BY TwinMen
<1> QED BY <1>1, MirrorMoveOf DEF simple_or_capture

\* The loop meets the first man after as many steps.
LEMMA TwinSlide ==
  ASSUME NEW b, NEW c, Twins(b, c), NEW side \in Color, NEW src \in Square,
         NEW dir \in all_directions, NEW dst \in slide(b, side, src, dir)
  PROVE  /\ dst \in Square
         /\ MirrorSquare(dst) \in slide(c, flip_color(side), MirrorSquare(src), MirrorDirection(dir))
<1> DEFINE Clear(x, s, d, n) == \A i \in 1..(n - 1) : walk(d, s, i) \cap all_pieces(x) = {}
           src2 == MirrorSquare(src)
           dir2 == MirrorDirection(dir)
<1>1. PICK n \in 1..7 : Clear(b, src, dir, n) /\ dst \in walk(dir, src, n)
  BY DEF slide
<1>2. dst \notin friends(b, side)
  BY DEF slide
<1>3. dst \in Square
  BY <1>1, WalkType DEF Bitboard
<1>4. src2 \in Square /\ dir2 \in all_directions
  BY MirrorSquares, MirrorDirections
<1>5. MirrorSquare(dst) \in walk(dir2, src2, n)
  BY <1>1, <1>3, MirrorWalk
<1>6. MirrorSquare(dst) \notin friends(c, flip_color(side))
  BY <1>2, <1>3, TwinMen
<1>7. ASSUME NEW i \in 1..(n - 1), NEW t \in walk(dir2, src2, i), t \in all_pieces(c) PROVE FALSE
  <2>1. i \in Nat
    BY <1>7
  <2>2. t \in Square
    BY <1>4, <2>1, WalkType DEF Bitboard
  <2> DEFINE s == MirrorSquare(t)
  <2>3. s \in Square /\ MirrorSquare(s) = t
    BY <2>2, MirrorSquares
  <2> HIDE DEF s, src2, dir2
  <2>4. s \in walk(dir, src, i)
    BY <2>1, <2>3, <1>7, MirrorWalk DEF src2, dir2
  <2>5. s \in all_pieces(b)
    BY <2>3, <1>7, TwinMen
  <2> QED BY <1>1, <1>7, <2>4, <2>5
<1>8. Clear(c, src2, dir2, n)
  BY <1>7
<1> HIDE DEF src2, dir2
<1>9. MirrorSquare(dst) \in slide(c, flip_color(side), src2, dir2)
  BY <1>5, <1>6, <1>8 DEF slide
<1> QED BY <1>3, <1>9 DEF src2, dir2

\* A man of one side, and the one of the other that stands for it.
LEMMA TwinSquares ==
  ASSUME NEW b, NEW c, Twins(b, c), NEW side \in Color, NEW piece \in Piece, NEW sq \in pieces(b, side, piece)
  PROVE  sq \in Square /\ MirrorSquare(sq) \in Square /\ MirrorSquare(sq) \in pieces(c, flip_color(side), piece)
<1>1. sq \in Square
  BY DEF Twins, BoardType, BitboardArray, Bitboard, pieces
<1> QED BY <1>1, MirrorSquares DEF Twins

\* Bishops, rooks and queens.
LEMMA TwinSlidingMoves ==
  ASSUME NEW b, NEW c, Twins(b, c), NEW side \in Color, NEW piece \in Piece,
         NEW directions \in SUBSET all_directions,
         \A dir \in directions : MirrorDirection(dir) \in directions,
         NEW m \in append_pseudolegal_sliding_moves(b, side, directions, piece)
  PROVE  MirrorMove(m) \in append_pseudolegal_sliding_moves(c, flip_color(side), directions, piece)
<1>1. PICK src \in pieces(b, side, piece) :
        \E dir \in directions : \E dst \in slide(b, side, src, dir) :
          m = simple_or_capture(b, side, src, dst, piece)
  BY DEF append_pseudolegal_sliding_moves
<1>2. PICK dir \in directions : \E dst \in slide(b, side, src, dir) :
        m = simple_or_capture(b, side, src, dst, piece)
  BY <1>1
<1>3. PICK dst \in slide(b, side, src, dir) : m = simple_or_capture(b, side, src, dst, piece)
  BY <1>2
<1>4. src \in Square /\ MirrorSquare(src) \in pieces(c, flip_color(side), piece)
  BY TwinSquares
<1>5. /\ dst \in Square
      /\ MirrorSquare(dst) \in slide(c, flip_color(side), MirrorSquare(src), MirrorDirection(dir))
  BY <1>4, TwinSlide
<1>6. MirrorMove(m) = simple_or_capture(c, flip_color(side), MirrorSquare(src), MirrorSquare(dst), piece)
  BY <1>3, <1>5, TwinSimpleOrCapture
<1>7. MirrorDirection(dir) \in directions
  OBVIOUS
<1> QED BY <1>4, <1>5, <1>6, <1>7 DEF append_pseudolegal_sliding_moves

\* Kings.
LEMMA TwinKingMoves ==
  ASSUME NEW b, NEW c, Twins(b, c), NEW side \in Color, NEW m \in append_pseudolegal_king_moves(b, side)
  PROVE  MirrorMove(m) \in append_pseudolegal_king_moves(c, flip_color(side))
<1>1. PICK src \in pieces(b, side, "king") :
        \E dir \in all_directions : \E dst \in direction_to_function(dir, src) \ friends(b, side) :
          m = simple_or_capture(b, side, src, dst, "king")
  BY DEF append_pseudolegal_king_moves
<1>2. PICK dir \in all_directions : \E dst \in direction_to_function(dir, src) \ friends(b, side) :
        m = simple_or_capture(b, side, src, dst, "king")
  BY <1>1
<1>3. PICK dst \in direction_to_function(dir, src) \ friends(b, side) :
        m = simple_or_capture(b, side, src, dst, "king")
  BY <1>2
<1>4. src \in Square /\ MirrorSquare(src) \in pieces(c, flip_color(side), "king")
  BY TwinSquares DEF Piece
<1>5. dst \in Square
  BY <1>4, DirectionType DEF Bitboard
<1>6. MirrorSquare(dst) \in direction_to_function(MirrorDirection(dir), MirrorSquare(src))
  BY <1>3, <1>4, <1>5, MirrorStep
<1>7. MirrorSquare(dst) \notin friends(c, flip_color(side))
  BY <1>3, <1>5, TwinMen
<1>8. MirrorMove(m) = simple_or_capture(c, flip_color(side), MirrorSquare(src), MirrorSquare(dst), "king")
  BY <1>3, <1>5, TwinSimpleOrCapture
<1>9. MirrorDirection(dir) \in all_directions
  BY MirrorDirections
<1> QED BY <1>4, <1>6, <1>7, <1>8, <1>9 DEF append_pseudolegal_king_moves

\* Knights: where they get to, and their moves.
LEMMA MirrorKnightSquares ==
  ASSUME NEW src \in Square, NEW dst \in knight_squares(src)
  PROVE  dst \in Square /\ MirrorSquare(dst) \in knight_squares(MirrorSquare(src))
<1>1. PICK dir \in knight_move_directions :
        \E first_step \in direction_to_function(dir[1], src) :
          dst \in direction_to_function(dir[2], first_step)
  BY DEF knight_squares
<1>2. PICK first_step \in direction_to_function(dir[1], src) :
        dst \in direction_to_function(dir[2], first_step)
  BY <1>1
<1>3. dir[1] \in all_directions /\ dir[2] \in all_directions
  BY DEF knight_move_directions, all_directions, rook_move_directions, bishop_move_directions
<1>4. first_step \in Square
  BY <1>3, DirectionType DEF Bitboard
<1>5. dst \in Square
  BY <1>2, <1>3, <1>4, DirectionType DEF Bitboard
<1> DEFINE dir2 == <<MirrorDirection(dir[1]), MirrorDirection(dir[2])>>
           step2 == MirrorSquare(first_step)
<1>6. dir2 \in knight_move_directions /\ dir2[1] = MirrorDirection(dir[1]) /\ dir2[2] = MirrorDirection(dir[2])
  BY DEF knight_move_directions, MirrorDirection
<1>7. step2 \in direction_to_function(dir2[1], MirrorSquare(src))
  BY <1>3, <1>4, <1>6, MirrorStep
<1>8. MirrorSquare(dst) \in direction_to_function(dir2[2], step2)
  BY <1>2, <1>3, <1>4, <1>5, <1>6, MirrorStep
<1> HIDE DEF dir2, step2
<1> QED BY <1>5, <1>6, <1>7, <1>8 DEF knight_squares

LEMMA TwinKnightMoves ==
  ASSUME NEW b, NEW c, Twins(b, c), NEW side \in Color, NEW m \in append_pseudolegal_knight_moves(b, side)
  PROVE  MirrorMove(m) \in append_pseudolegal_knight_moves(c, flip_color(side))
<1>1. PICK src \in pieces(b, side, "knight") :
        \E dst \in knight_squares(src) \ friends(b, side) :
          m = simple_or_capture(b, side, src, dst, "knight")
  BY DEF append_pseudolegal_knight_moves
<1>2. PICK dst \in knight_squares(src) \ friends(b, side) :
        m = simple_or_capture(b, side, src, dst, "knight")
  BY <1>1
<1>3. src \in Square /\ MirrorSquare(src) \in pieces(c, flip_color(side), "knight")
  BY TwinSquares DEF Piece
<1>4. dst \in Square /\ MirrorSquare(dst) \in knight_squares(MirrorSquare(src))
  BY <1>2, <1>3, MirrorKnightSquares
<1>5. MirrorSquare(dst) \notin friends(c, flip_color(side))
  BY <1>2, <1>4, TwinMen
<1>6. MirrorMove(m) = simple_or_capture(c, flip_color(side), MirrorSquare(src), MirrorSquare(dst), "knight")
  BY <1>2, <1>4, TwinSimpleOrCapture
<1> QED BY <1>3, <1>4, <1>5, <1>6 DEF append_pseudolegal_knight_moves

\* A pawn's steps stay on the board.
LEMMA PawnSteps ==
  ASSUME NEW side \in Color, NEW p \in Square
  PROVE  forward(side, p) \subseteq Square /\ diagonals(side, p) \subseteq Square
  BY Steps DEF forward, diagonals, Bitboard

\* All five kinds of pawn moves.
LEMMA TwinPawnMoves ==
  ASSUME NEW b, NEW c, Twins(b, c), NEW side \in Color, NEW m \in append_pseudolegal_pawn_moves(b, side)
  PROVE  MirrorMove(m) \in append_pseudolegal_pawn_moves(c, flip_color(side))
<1> DEFINE foe == flip_color(side)
           S(sq) == MirrorSquare(sq)
<1>1. foe \in Color /\ flip_color(foe) = side
  BY FlipColor
<1>2. \A p \in pawns(b, side) : p \in Square /\ S(p) \in Square /\ S(p) \in pawns(c, foe)
  BY TwinSquares DEF pawns, Piece
<1>3. \A p \in Square : forward(side, p) \subseteq Square /\ diagonals(side, p) \subseteq Square
  BY PawnSteps
<1>4. \A p, sq \in Square : /\ sq \in forward(side, p) <=> S(sq) \in forward(foe, S(p))
                            /\ sq \in diagonals(side, p) <=> S(sq) \in diagonals(foe, S(p))
  BY MirrorPawnSteps
<1>5. \A sq \in Square : /\ sq \in promotion_mask(side) <=> S(sq) \in promotion_mask(foe)
                         /\ sq \in two_step_mask(side) <=> S(sq) \in two_step_mask(foe)
  BY MirrorMasks
<1>6. \A sq \in Square : /\ sq \in enemies(b, side) <=> S(sq) \in enemies(c, foe)
                         /\ sq \in all_pieces(b) <=> S(sq) \in all_pieces(c)
  BY TwinMen
<1>7. CASE m \in append_pseudolegal_simple_pawn_moves(b, side)
  <2>1. PICK p \in pawns(b, side) \ promotion_mask(side) :
          \E dst \in forward(side, p) \ all_pieces(b) : m = Move(p, dst, "pawn", "simple")
    BY <1>7 DEF append_pseudolegal_simple_pawn_moves
  <2>2. PICK dst \in forward(side, p) \ all_pieces(b) : m = Move(p, dst, "pawn", "simple")
    BY <2>1
  <2>3. p \in Square /\ dst \in Square /\ S(p) \in pawns(c, foe)
    BY <1>2, <1>3
  <2>4. MirrorMove(m) = Move(S(p), S(dst), "pawn", "simple")
    BY <2>2, MirrorMoveOf
  <2>5. S(p) \in pawns(c, foe) \ promotion_mask(foe)
    BY <2>3, <1>5
  <2>6. S(dst) \in forward(foe, S(p)) \ all_pieces(c)
    BY <2>2, <2>3, <1>4, <1>6
  <2> HIDE DEF S, foe
  <2>7. MirrorMove(m) \in append_pseudolegal_simple_pawn_moves(c, foe)
    BY <2>4, <2>5, <2>6 DEF append_pseudolegal_simple_pawn_moves
  <2> QED BY <2>7 DEF append_pseudolegal_pawn_moves, foe
<1>8. CASE m \in append_pseudolegal_two_step_pawn_moves(b, side)
  <2>1. PICK p \in pawns(b, side) \cap two_step_mask(side) :
          \E dst \in (UNION { forward(side, mid) : mid \in forward(side, p) \ all_pieces(b) })
                       \ all_pieces(b) : m = Move(p, dst, "pawn", "two_step_pawn")
    BY <1>8 DEF append_pseudolegal_two_step_pawn_moves
  <2>2. PICK dst \in (UNION { forward(side, mid) : mid \in forward(side, p) \ all_pieces(b) })
                       \ all_pieces(b) : m = Move(p, dst, "pawn", "two_step_pawn")
    BY <2>1
  <2>3. PICK mid \in forward(side, p) \ all_pieces(b) : dst \in forward(side, mid)
    BY <2>2
  <2>4. p \in Square /\ mid \in Square /\ dst \in Square
    BY <1>2, <1>3, <2>3
  <2>5. MirrorMove(m) = Move(S(p), S(dst), "pawn", "two_step_pawn")
    BY <2>2, MirrorMoveOf
  <2>6. S(p) \in pawns(c, foe) \cap two_step_mask(foe)
    BY <2>4, <1>2, <1>5
  <2>7. S(mid) \in forward(foe, S(p)) \ all_pieces(c)
    BY <2>3, <2>4, <1>4, <1>6
  <2>8. S(dst) \in forward(foe, S(mid)) /\ S(dst) \notin all_pieces(c)
    BY <2>2, <2>3, <2>4, <1>4, <1>6
  <2> HIDE DEF S, foe
  <2>9. MirrorMove(m) \in append_pseudolegal_two_step_pawn_moves(c, foe)
    BY <2>5, <2>6, <2>7, <2>8 DEF append_pseudolegal_two_step_pawn_moves
  <2> QED BY <2>9 DEF append_pseudolegal_pawn_moves, foe
<1>9. CASE m \in append_pseudolegal_pawn_captures(b, side)
  <2>1. PICK p \in pawns(b, side) \ promotion_mask(side) :
          \E dst \in diagonals(side, p) \cap enemies(b, side) : m = Move(p, dst, "pawn", "capture")
    BY <1>9 DEF append_pseudolegal_pawn_captures
  <2>2. PICK dst \in diagonals(side, p) \cap enemies(b, side) : m = Move(p, dst, "pawn", "capture")
    BY <2>1
  <2>3. p \in Square /\ dst \in Square /\ S(p) \in pawns(c, foe)
    BY <1>2, <1>3
  <2>4. MirrorMove(m) = Move(S(p), S(dst), "pawn", "capture")
    BY <2>2, MirrorMoveOf
  <2>5. S(p) \in pawns(c, foe) \ promotion_mask(foe)
    BY <2>3, <1>5
  <2>6. S(dst) \in diagonals(foe, S(p)) \cap enemies(c, foe)
    BY <2>2, <2>3, <1>4, <1>6
  <2> HIDE DEF S, foe
  <2>7. MirrorMove(m) \in append_pseudolegal_pawn_captures(c, foe)
    BY <2>4, <2>5, <2>6 DEF append_pseudolegal_pawn_captures
  <2> QED BY <2>7 DEF append_pseudolegal_pawn_moves, foe
<1>10. CASE m \in append_pseudolegal_en_passant_moves(b, side)
  <2>1. PICK ep \in b.en_passant_square_ :
          \E p \in diagonals(foe, ep) \cap pawns(b, side) : m = Move(p, ep, "pawn", "en_passant")
    BY <1>10 DEF append_pseudolegal_en_passant_moves
  <2>2. PICK p \in diagonals(foe, ep) \cap pawns(b, side) : m = Move(p, ep, "pawn", "en_passant")
    BY <2>1
  <2>3. ep \in Square /\ p \in Square
    BY <1>2 DEF Twins, BoardType, Bitboard
  <2>4. S(ep) \in c.en_passant_square_
    BY <2>3 DEF Twins
  <2>5. MirrorMove(m) = Move(S(p), S(ep), "pawn", "en_passant")
    BY <2>2, MirrorMoveOf
  <2>6. S(p) \in diagonals(flip_color(foe), S(ep)) \cap pawns(c, foe)
    <3>1. p \in diagonals(foe, ep) <=> S(p) \in diagonals(flip_color(foe), S(ep))
      BY <1>1, <2>3, MirrorPawnSteps
    <3> QED BY <3>1, <2>2, <1>2
  <2> HIDE DEF S, foe
  <2>7. MirrorMove(m) \in append_pseudolegal_en_passant_moves(c, foe)
    BY <2>4, <2>5, <2>6 DEF append_pseudolegal_en_passant_moves
  <2> QED BY <2>7 DEF append_pseudolegal_pawn_moves, foe
<1>11. CASE m \in append_pseudolegal_promotions(b, side)
  <2> DEFINE D(x, s, q) == (forward(s, q) \ all_pieces(x)) \cup (diagonals(s, q) \cap enemies(x, s))
  <2>1. PICK p \in pawns(b, side) \cap promotion_mask(side) :
          \E dst \in D(b, side, p), type \in promotion_move_types : m = Move(p, dst, "pawn", type)
    BY <1>11 DEF append_pseudolegal_promotions
  <2>2. PICK dst \in D(b, side, p), type \in promotion_move_types : m = Move(p, dst, "pawn", type)
    BY <2>1
  <2>3. p \in Square /\ dst \in Square
    BY <1>2, <1>3
  <2>4. MirrorMove(m) = Move(S(p), S(dst), "pawn", type)
    BY <2>2, MirrorMoveOf
  <2>5. S(p) \in pawns(c, foe) \cap promotion_mask(foe)
    BY <2>3, <1>2, <1>5
  <2>6. S(dst) \in D(c, foe, S(p))
    BY <2>2, <2>3, <1>4, <1>6
  <2> HIDE DEF S, foe
  <2>7. MirrorMove(m) \in append_pseudolegal_promotions(c, foe)
    BY <2>2, <2>4, <2>5, <2>6 DEF append_pseudolegal_promotions
  <2> QED BY <2>7 DEF append_pseudolegal_pawn_moves, foe
<1> QED BY <1>7, <1>8, <1>9, <1>10, <1>11 DEF append_pseudolegal_pawn_moves

\* Every pseudolegal move of one side is one of the other's on the twin.
LEMMA TwinPseudolegalMoves ==
  ASSUME NEW b, NEW c, Twins(b, c), NEW side \in Color, NEW m \in pseudolegal_moves(b, side)
  PROVE  MirrorMove(m) \in pseudolegal_moves(c, flip_color(side))
<1> DEFINE foe == flip_color(side)
<1>1. {"bishop", "rook", "queen"} \subseteq Piece
  BY DEF Piece
<1>2. /\ \A dir \in bishop_move_directions : dir \in all_directions /\ MirrorDirection(dir) \in bishop_move_directions
      /\ \A dir \in rook_move_directions : dir \in all_directions /\ MirrorDirection(dir) \in rook_move_directions
      /\ \A dir \in all_directions : MirrorDirection(dir) \in all_directions
  BY MirrorDirections DEF all_directions
<1>3. /\ bishop_move_directions \in SUBSET all_directions
      /\ rook_move_directions \in SUBSET all_directions
      /\ all_directions \in SUBSET all_directions
  BY <1>2
<1>4. m \in append_pseudolegal_bishop_moves(b, side) => MirrorMove(m) \in append_pseudolegal_bishop_moves(c, foe)
  BY <1>1, <1>2, <1>3, TwinSlidingMoves DEF append_pseudolegal_bishop_moves
<1>5. m \in append_pseudolegal_rook_moves(b, side) => MirrorMove(m) \in append_pseudolegal_rook_moves(c, foe)
  BY <1>1, <1>2, <1>3, TwinSlidingMoves DEF append_pseudolegal_rook_moves
<1>6. m \in append_pseudolegal_queen_moves(b, side) => MirrorMove(m) \in append_pseudolegal_queen_moves(c, foe)
  BY <1>1, <1>2, <1>3, TwinSlidingMoves DEF append_pseudolegal_queen_moves
<1>7. m \in append_pseudolegal_pawn_moves(b, side) => MirrorMove(m) \in append_pseudolegal_pawn_moves(c, foe)
  BY TwinPawnMoves
<1>8. m \in append_pseudolegal_king_moves(b, side) => MirrorMove(m) \in append_pseudolegal_king_moves(c, foe)
  BY TwinKingMoves
<1>9. m \in append_pseudolegal_knight_moves(b, side) => MirrorMove(m) \in append_pseudolegal_knight_moves(c, foe)
  BY TwinKnightMoves
<1> HIDE DEF foe
<1>10. MirrorMove(m) \in pseudolegal_moves(c, foe)
  BY <1>4, <1>5, <1>6, <1>7, <1>8, <1>9 DEF pseudolegal_moves
<1> QED BY <1>10 DEF foe

\* So what a side attacks, the other attacks on the twin.
LEMMA TwinAttackSquares ==
  ASSUME NEW b, NEW c, Twins(b, c), NEW side \in Color, NEW sq \in attack_squares(b, side)
  PROVE  MirrorSquare(sq) \in attack_squares(c, flip_color(side))
<1>1. CASE sq \in {m.dst_square_ : m \in pseudolegal_moves(b, side)}
  <2>1. PICK m \in pseudolegal_moves(b, side) : sq = m.dst_square_
    BY <1>1
  <2>2. MirrorMove(m) \in pseudolegal_moves(c, flip_color(side))
    BY TwinPseudolegalMoves
  <2>3. MirrorMove(m).dst_square_ = MirrorSquare(sq)
    BY <2>1 DEF MirrorMove, Move
  <2> QED BY <2>2, <2>3 DEF attack_squares
<1>2. CASE sq \in pawn_attack_squares(b, side)
  <2>1. PICK p \in pawns(b, side) : sq \in diagonals(side, p)
    BY <1>2 DEF pawn_attack_squares
  <2>2. p \in Square /\ MirrorSquare(p) \in pawns(c, flip_color(side))
    BY TwinSquares DEF pawns, Piece
  <2>3. sq \in Square
    BY <2>1, <2>2, PawnSteps
  <2>4. MirrorSquare(sq) \in diagonals(flip_color(side), MirrorSquare(p))
    BY <2>1, <2>2, <2>3, MirrorPawnSteps
  <2> QED BY <2>2, <2>4 DEF attack_squares, pawn_attack_squares
<1> QED BY <1>1, <1>2 DEF attack_squares

\* And the other way round, so check is check.
LEMMA TwinAttacks ==
  ASSUME NEW b, NEW c, Twins(b, c), NEW side \in Color
  PROVE  /\ \A sq \in Square : sq \in attack_squares(b, side)
                                 <=> MirrorSquare(sq) \in attack_squares(c, flip_color(side))
         /\ is_king_attacked(b, side) <=> is_king_attacked(c, flip_color(side))
<1>1. flip_color(side) \in Color /\ flip_color(flip_color(side)) = side /\ Twins(c, b)
  BY FlipColor, TwinsAreMutual
<1>2. ASSUME NEW x, NEW y, Twins(x, y), NEW s \in Color, NEW sq \in Square
      PROVE  sq \in attack_squares(x, s) <=> MirrorSquare(sq) \in attack_squares(y, flip_color(s))
  <2>1. sq \in attack_squares(x, s) => MirrorSquare(sq) \in attack_squares(y, flip_color(s))
    BY <1>2, TwinAttackSquares
  <2>2. MirrorSquare(MirrorSquare(sq)) = sq /\ flip_color(s) \in Color /\ flip_color(flip_color(s)) = s
    BY MirrorSquares, FlipColor
  <2>3. Twins(y, x)
    BY <1>2, TwinsAreMutual
  <2>4. MirrorSquare(sq) \in attack_squares(y, flip_color(s)) => sq \in attack_squares(x, s)
    BY <2>2, <2>3, TwinAttackSquares
  <2> QED BY <2>1, <2>4
<1>3. ASSUME NEW x, NEW y, Twins(x, y), NEW s \in Color, is_king_attacked(x, s)
      PROVE  is_king_attacked(y, flip_color(s))
  <2>1. PICK k \in pieces(x, s, "king") : k \in attack_squares(x, flip_color(s))
    BY <1>3 DEF is_king_attacked
  <2>2. k \in Square /\ MirrorSquare(k) \in pieces(y, flip_color(s), "king")
    BY <1>3, TwinSquares DEF Piece
  <2>3. MirrorSquare(k) \in attack_squares(y, flip_color(flip_color(s)))
    BY <1>2, <1>3, <2>1, <2>2, FlipColor
  <2> QED BY <2>2, <2>3 DEF is_king_attacked
<1> QED BY <1>1, <1>2, <1>3

-----------------------------------------------------------------------------
(* A twin of a well-formed board is well formed. *)

\* Different squares have different images.
LEMMA MirrorIsInjective ==
  ASSUME NEW x \in Square, NEW y \in Square, MirrorSquare(x) = MirrorSquare(y)
  PROVE  x = y
  BY MirrorSquares

\* Each part of Sound but the e.p. square's is the same statement about the other side.
LEMMA TwinsSound ==
  ASSUME NEW b, NEW c, Twins(b, c), Sound(b)
  PROVE  Sound(c)
<1> DEFINE S(sq) == MirrorSquare(sq)
<1>0. b \in BoardType /\ c \in BoardType /\ Twins(c, b)
  BY TwinsAreMutual DEF Twins
<1>1. ASSUME NEW x \in Color \X Piece, NEW y \in Color \X Piece, NEW sq \in c.bb[x] \cap c.bb[y]
      PROVE  x = y
  <2>1. PICK c1 \in Color, p1 \in Piece : x = <<c1, p1>>
    BY <1>1
  <2>2. PICK c2 \in Color, p2 \in Piece : y = <<c2, p2>>
    BY <1>1
  <2>3. sq \in pieces(c, c1, p1) /\ sq \in pieces(c, c2, p2)
    BY <1>1, <2>1, <2>2 DEF pieces
  <2>4. S(sq) \in pieces(b, flip_color(c1), p1) /\ S(sq) \in pieces(b, flip_color(c2), p2)
    BY <1>0, <2>3, TwinSquares
  <2>5. flip_color(c1) \in Color /\ flip_color(c2) \in Color
    BY FlipColor
  <2>6. <<flip_color(c1), p1>> = <<flip_color(c2), p2>>
    BY <2>4, <2>5 DEF Sound, PiecesDisjoint, Disjoint, pieces
  <2>7. flip_color(flip_color(c1)) = c1 /\ flip_color(flip_color(c2)) = c2
    BY FlipColor
  <2> QED BY <2>1, <2>2, <2>6, <2>7
<1>2. ASSUME NEW side \in Color PROVE is_square(pieces(c, side, "king"))
  <2>1. flip_color(side) \in Color /\ flip_color(flip_color(side)) = side /\ "king" \in Piece
    BY FlipColor DEF Piece
  <2>2. PICK k \in Square : pieces(b, flip_color(side), "king") = {k}
    BY <2>1 DEF Sound, OneKingEach, is_square
  <2>3. S(k) \in Square /\ S(k) \in pieces(c, side, "king")
    BY <2>1, <2>2, TwinSquares
  <2>4. ASSUME NEW sq \in pieces(c, side, "king") PROVE sq = S(k)
    <3>1. sq \in Square /\ S(sq) \in pieces(b, flip_color(side), "king")
      BY <1>0, <2>1, TwinSquares
    <3>2. S(sq) = k /\ S(S(sq)) = sq
      BY <2>2, <3>1, MirrorSquares
    <3> QED BY <3>2
  <2>5. pieces(c, side, "king") = {S(k)}
    BY <2>3, <2>4
  <2> QED BY <2>3, <2>5 DEF is_square
<1>3. ASSUME NEW side \in Color, NEW sq \in pawns(c, side) PROVE rank_idx(sq) \in 1..6
  <2>1. sq \in Square /\ S(sq) \in Square /\ S(sq) \in pawns(b, flip_color(side))
    BY <1>0, TwinSquares DEF pawns, Piece
  <2>2. rank_idx(S(sq)) \in 1..6
    BY <2>1, FlipColor DEF Sound, PawnsOffBackRanks
  <2> QED BY <2>1, <2>2, MirrorMasks
<1>4. ASSUME NEW r \in c.castling
      PROVE  /\ king_home(r) \in pieces(c, right_side(r), "king")
             /\ rook_home(r) \in pieces(c, right_side(r), "rook")
  <2> DEFINE q == MirrorRight(r)
  <2>1. r \in Right
    BY <1>0 DEF BoardType
  <2>2. q \in Right /\ q \in b.castling /\ MirrorRight(q) = r
    BY <1>0, <2>1, MirrorRights DEF Twins
  <2>3. king_home(q) \in pieces(b, right_side(q), "king") /\ rook_home(q) \in pieces(b, right_side(q), "rook")
    BY <2>2 DEF Sound, CastlingRightsSound
  <2>4. right_side(q) \in Color /\ {"king", "rook"} \subseteq Piece
    BY DEF right_side, Color, Piece
  <2>5. /\ S(king_home(q)) \in pieces(c, flip_color(right_side(q)), "king")
        /\ S(rook_home(q)) \in pieces(c, flip_color(right_side(q)), "rook")
    BY <2>3, <2>4, TwinSquares
  <2>6. /\ S(king_home(q)) = king_home(r) /\ S(rook_home(q)) = rook_home(r)
        /\ flip_color(right_side(q)) = right_side(r)
    <3> HIDE DEF q
    <3> QED BY <2>2, MirrorRights
  <2> QED BY <2>5, <2>6
<1>5. EnPassantSound(c)
  <2> DEFINE jumper == flip_color(c.side_to_move)
             foe == flip_color(b.side_to_move)
  <2>1. b.side_to_move \in Color /\ c.side_to_move = foe /\ jumper = b.side_to_move /\ foe \in Color
          /\ flip_color(foe) = jumper
    BY FlipColor DEF Twins, BoardType
  <2>2. CASE c.en_passant_square_ = {}
    BY <2>2 DEF EnPassantSound
  <2>3. CASE c.en_passant_square_ # {}
    <3>1. PICK t : t \in c.en_passant_square_
      BY <2>3
    <3>2. t \in Square /\ S(t) \in Square /\ S(t) \in b.en_passant_square_
      <4>1. t \in Square
        BY <1>0, <3>1 DEF BoardType, Bitboard
      <4> QED BY <1>0, <3>1, <4>1, MirrorSquares DEF Twins
    <3> DEFINE e == S(t)
               victim == e + 8 * up(foe)
    <3>3. /\ b.en_passant_square_ = {e}
          /\ rank_idx(e) = (IF foe = "white" THEN 2 ELSE 5)
          /\ e \notin all_pieces(b)
          /\ forward(foe, e) = {victim}
          /\ victim \in pawns(b, foe)
      BY <1>0, <3>2, EnPassantVictim DEF Sound
    <3>4. S(e) = t /\ e \in Square /\ rank_idx(e) = 7 - rank_idx(t) /\ rank_idx(t) \in 0..7
      BY <3>2, MirrorSquares, Coordinates
    <3> HIDE DEF e, victim
    <3>5. c.en_passant_square_ = {t}
      <4>1. ASSUME NEW u \in c.en_passant_square_ PROVE u = t
        <5>1. u \in Square
          BY <1>0 DEF BoardType, Bitboard
        <5>2. S(u) \in b.en_passant_square_ /\ S(S(u)) = u
          BY <1>0, <5>1, MirrorSquares DEF Twins
        <5> QED BY <5>2, <3>3, <3>4
      <4> QED BY <4>1, <3>1
    <3>6. t \in rank_mask(IF jumper = "white" THEN 2 ELSE 5)
      BY <2>1, <3>2, <3>3, <3>4 DEF rank_mask, Color, flip_color
    <3>7. t \notin all_pieces(c)
      BY <3>3, <3>4, TwinMen
    <3>8. ASSUME NEW s \in forward(jumper, t) PROVE s \in pawns(c, jumper)
      <4>1. s \in Square
        BY <2>1, <3>2, PawnSteps
      <4>2. S(s) \in forward(flip_color(jumper), S(t))
        BY <2>1, <3>2, <3>8, <4>1, MirrorPawnSteps
      <4>3. S(s) = victim
        BY <4>2, <2>1, <3>3 DEF e
      <4>4. victim \in pieces(b, foe, "pawn") /\ "pawn" \in Piece
        BY <3>3 DEF pawns, Piece
      <4>5. S(victim) \in pieces(c, jumper, "pawn")
        BY <4>4, <2>1, TwinSquares
      <4>6. S(victim) = s
        BY <4>1, <4>3, MirrorSquares
      <4> QED BY <4>5, <4>6 DEF pawns
    <3> HIDE DEF jumper
    <3>9. \E sq \in rank_mask(IF jumper = "white" THEN 2 ELSE 5) :
             /\ c.en_passant_square_ = {sq}
             /\ sq \notin all_pieces(c)
             /\ forward(jumper, sq) \subseteq pawns(c, jumper)
      BY <3>5, <3>6, <3>7, <3>8
    <3> QED BY <3>9 DEF EnPassantSound, jumper
  <2> QED BY <2>2, <2>3
<1>6. PiecesDisjoint(c)
  BY <1>1 DEF PiecesDisjoint, Disjoint
<1>7. OneKingEach(c) /\ PawnsOffBackRanks(c)
  BY <1>2, <1>3 DEF OneKingEach, PawnsOffBackRanks
<1>8. CastlingRightsSound(c)
  BY <1>4 DEF CastlingRightsSound
<1> QED BY <1>0, <1>5, <1>6, <1>7, <1>8 DEF Sound

\* The side that has moved is safe on one as on the other.
LEMMA TwinsWellFormed ==
  ASSUME NEW b, NEW c, Twins(b, c), WellFormed(b)
  PROVE  WellFormed(c)
<1>1. Sound(c) /\ KingNotLeftInCheck(b)
  BY TwinsSound, WellFormedParts
<1>2. b.side_to_move \in Color /\ c.side_to_move = flip_color(b.side_to_move)
  BY DEF Twins, BoardType
<1>3. ~is_king_attacked(c, flip_color(flip_color(b.side_to_move)))
  BY <1>1, <1>2, TwinAttacks, FlipColor DEF KingNotLeftInCheck
<1>4. KingNotLeftInCheck(c)
  BY <1>2, <1>3 DEF KingNotLeftInCheck
<1> QED BY <1>1, <1>4, WellFormedParts

-----------------------------------------------------------------------------
(* do_move takes twins to twins. *)

\* An e.p. capture clears, and a jump leaves, the mirrored square: the code tells
\* the colours apart by the rank alone.
LEMMA MirrorTaken ==
  ASSUME NEW b, WellFormed(b), NEW m \in pseudolegal_moves(b, b.side_to_move), NEW sq \in Square
  PROVE  /\ sq \in Taken(m) <=> MirrorSquare(sq) \in Taken(MirrorMove(m))
         /\ sq \in NextEnPassant(m) <=> MirrorSquare(sq) \in NextEnPassant(MirrorMove(m))
<1> DEFINE n == MirrorMove(m)
           S(x) == MirrorSquare(x)
           src == m.src_square_
           dst == m.dst_square_
<1>1. MoveFacts(b, m)
  BY PseudolegalFacts
<1>2. m \in MoveSet /\ src \in Square /\ dst \in Square
  BY <1>1 DEF MoveFacts, Movable, MoveSet
<1>3. n.move_type_ = m.move_type_ /\ n.src_square_ = S(src) /\ n.dst_square_ = S(dst)
  BY DEF MirrorMove, Move
<1>4. /\ rank_idx(S(src)) = 7 - rank_idx(src) /\ rank_idx(src) \in 0..7 /\ S(src) \in Square
      /\ rank_idx(S(dst)) = 7 - rank_idx(dst) /\ rank_idx(dst) \in 0..7 /\ S(dst) \in Square
  BY <1>2, MirrorSquares, Coordinates
<1>5. \A x \in Square : /\ sq \in north_of(x) <=> S(sq) \in south_of(S(x))
                        /\ sq \in south_of(x) <=> S(sq) \in north_of(S(x))
  <2>1. /\ \A x \in Square : sq \in forward("white", x) <=> S(sq) \in forward(flip_color("white"), S(x))
        /\ \A x \in Square : sq \in forward("black", x) <=> S(sq) \in forward(flip_color("black"), S(x))
    BY MirrorPawnSteps DEF Color
  <2> QED BY <2>1 DEF forward, flip_color
<1>6. ASSUME m.move_type_ = "en_passant" PROVE rank_idx(dst) \in {2, 5}
  <2>1. b \in BoardType /\ EnPassantSound(b) /\ PawnsOffBackRanks(b) /\ b.side_to_move \in Color
    BY DEF WellFormed, BoardType
  <2>2. PawnMove(b, b.side_to_move, m)
    BY <1>6, <2>1, PseudolegalMoves DEF OfficerMove
  <2>3. dst \in b.en_passant_square_
    BY <1>6, <2>2 DEF PawnMove, PawnStep, PawnJump, PawnCapture, PawnEnPassant, PawnPromotion, promotion_move_types
  <2>4. rank_idx(dst) = IF flip_color(b.side_to_move) = "white" THEN 2 ELSE 5
    BY <2>1, <2>3, EnPassantVictim
  <2> QED BY <2>4
<1>7. ASSUME m.move_type_ = "two_step_pawn" PROVE rank_idx(src) \in {1, 6}
  <2>1. src \in two_step_mask(b.side_to_move)
    BY <1>1, <1>7 DEF MoveFacts, PawnJump
  <2> QED BY <2>1 DEF two_step_mask, second_rank_mask, seventh_rank_mask, rank_mask
<1> HIDE DEF n, S, src, dst
<1>8. sq \in Taken(m) <=> S(sq) \in Taken(n)
  <2>1. CASE m.move_type_ = "en_passant"
    <3>1. dst \in third_rank_mask <=> rank_idx(dst) = 2
      BY <1>2 DEF third_rank_mask, rank_mask
    <3>2. S(dst) \in third_rank_mask <=> rank_idx(dst) = 5
      BY <1>4 DEF third_rank_mask, rank_mask
    <3>3. Taken(m) = enemy_pawn_square(dst) /\ Taken(n) = enemy_pawn_square(S(dst))
      BY <2>1, <1>3 DEF Taken, dst
    <3> QED BY <3>1, <3>2, <3>3, <2>1, <1>2, <1>5, <1>6 DEF enemy_pawn_square
  <2>2. CASE m.move_type_ # "en_passant"
    BY <2>2, <1>3 DEF Taken
  <2> QED BY <2>1, <2>2
<1>9. sq \in NextEnPassant(m) <=> S(sq) \in NextEnPassant(n)
  <2>1. CASE m.move_type_ = "two_step_pawn"
    <3>1. src \in second_rank_mask <=> rank_idx(src) = 1
      BY <1>2 DEF second_rank_mask, rank_mask
    <3>2. S(src) \in second_rank_mask <=> rank_idx(src) = 6
      BY <1>4 DEF second_rank_mask, rank_mask
    <3>3. /\ NextEnPassant(m) = IF src \in second_rank_mask THEN north_of(src) ELSE south_of(src)
          /\ NextEnPassant(n) = IF S(src) \in second_rank_mask THEN north_of(S(src)) ELSE south_of(S(src))
      BY <2>1, <1>3 DEF NextEnPassant, src
    <3> QED BY <3>1, <3>2, <3>3, <2>1, <1>2, <1>5, <1>7
  <2>2. CASE m.move_type_ # "two_step_pawn"
    BY <2>2, <1>3 DEF NextEnPassant
  <2> QED BY <2>1, <2>2
<1> QED BY <1>8, <1>9 DEF n, S

\* The rights that a move leaves.
LEMMA TwinRights ==
  ASSUME NEW b, NEW c, Twins(b, c), NEW m \in MoveSet, NEW r \in Right
  PROVE  r \in adjust_castling_rights(b.castling, m)
           <=> MirrorRight(r) \in adjust_castling_rights(c.castling, MirrorMove(m))
<1> DEFINE n == MirrorMove(m)
           q == MirrorRight(r)
<1>1. /\ n.src_square_ = MirrorSquare(m.src_square_) /\ n.dst_square_ = MirrorSquare(m.dst_square_)
      /\ n.piece_moving_ = m.piece_moving_
  BY DEF MirrorMove, Move
<1>2. m.src_square_ \in Square /\ m.dst_square_ \in Square
  BY DEF MoveSet
<1>3. /\ king_home(q) = MirrorSquare(king_home(r)) /\ rook_home(q) = MirrorSquare(rook_home(r))
      /\ king_home(r) \in Square /\ rook_home(r) \in Square
  BY MirrorRights
<1>4. /\ n.src_square_ = king_home(q) <=> m.src_square_ = king_home(r)
      /\ n.src_square_ = rook_home(q) <=> m.src_square_ = rook_home(r)
      /\ n.dst_square_ = rook_home(q) <=> m.dst_square_ = rook_home(r)
  BY <1>1, <1>2, <1>3, MirrorIsInjective
<1>5. r \in b.castling <=> q \in c.castling
  BY DEF Twins
<1> HIDE DEF n, q
<1>6. r \in adjust_castling_rights(b.castling, m) <=> q \in adjust_castling_rights(c.castling, n)
  BY <1>1, <1>4, <1>5 DEF adjust_castling_rights
<1> QED BY <1>6 DEF n, q

\* A pseudolegal move and its image lead to twins.
LEMMA TwinMoves ==
  ASSUME NEW b, NEW c, Twins(b, c), WellFormed(b), NEW m \in pseudolegal_moves(b, b.side_to_move)
  PROVE  Twins(do_move(b, m), do_move(c, MirrorMove(m)))
<1> DEFINE n == MirrorMove(m)
           b2 == do_move(b, m)
           c2 == do_move(c, n)
           S(x) == MirrorSquare(x)
           me == b.side_to_move
           foe == flip_color(me)
<1>1. WellFormed(c) /\ me \in Color /\ c.side_to_move = foe /\ foe \in Color /\ flip_color(foe) = me
  BY TwinsWellFormed, FlipColor DEF Twins, BoardType
<1>2. n \in pseudolegal_moves(c, c.side_to_move)
  BY <1>1, TwinPseudolegalMoves
<1>3. MoveFacts(b, m) /\ MoveFacts(c, n)
  BY <1>1, <1>2, PseudolegalFacts
<1>4. /\ b2 \in BoardType /\ BitboardsAfter(b, m, b2.bb) /\ b2.side_to_move = foe
      /\ b2.en_passant_square_ = NextEnPassant(m) /\ b2.castling = NextCastling(b, m)
  BY <1>3, AfterMove DEF WellFormed
<1>5. /\ c2 \in BoardType /\ BitboardsAfter(c, n, c2.bb) /\ c2.side_to_move = me
      /\ c2.en_passant_square_ = NextEnPassant(n) /\ c2.castling = NextCastling(c, n)
  BY <1>1, <1>3, AfterMove DEF WellFormed
<1>6. m \in MoveSet /\ m.src_square_ \in Square /\ m.dst_square_ \in Square
  BY <1>3 DEF MoveFacts, Movable, MoveSet
<1>7. /\ n.src_square_ = S(m.src_square_) /\ n.dst_square_ = S(m.dst_square_)
      /\ n.piece_moving_ = m.piece_moving_ /\ n.move_type_ = m.move_type_
  BY DEF MirrorMove, Move
<1>8. Placed(n) = Placed(m)
  BY <1>7 DEF Placed
<1>9. ASSUME NEW sq \in Square
      PROVE  /\ sq = m.src_square_ <=> S(sq) = n.src_square_
             /\ sq = m.dst_square_ <=> S(sq) = n.dst_square_
             /\ sq \in Taken(m) <=> S(sq) \in Taken(n)
             /\ sq \in b2.en_passant_square_ <=> S(sq) \in c2.en_passant_square_
  BY <1>4, <1>5, <1>6, <1>7, MirrorIsInjective, MirrorTaken
<1> HIDE DEF n, b2, c2, S, me, foe
<1>10. ASSUME NEW side \in Color, NEW p \in Piece, NEW sq \in Square
       PROVE  sq \in pieces(b2, side, p) <=> S(sq) \in pieces(c2, flip_color(side), p)
  <2> DEFINE x == <<side, p>>
             y == <<flip_color(side), p>>
  <2>1. x \in Color \X Piece /\ y \in Color \X Piece
    BY FlipColor
  <2>2. x = <<me, Placed(m)>> <=> y = <<foe, Placed(n)>>
    BY <1>1, <1>8, FlipColor DEF foe
  <2>3. sq \in b.bb[x] <=> S(sq) \in c.bb[y]
    BY DEF Twins, pieces, S
  <2>4. b2.bb[x] = (b.bb[x] \ ({m.src_square_, m.dst_square_} \cup Taken(m)))
                     \cup (IF x = <<me, Placed(m)>> THEN {m.dst_square_} ELSE {})
    BY <1>4, <2>1 DEF BitboardsAfter, me
  <2>5. c2.bb[y] = (c.bb[y] \ ({n.src_square_, n.dst_square_} \cup Taken(n)))
                     \cup (IF y = <<foe, Placed(n)>> THEN {n.dst_square_} ELSE {})
    BY <1>1, <1>5, <2>1 DEF BitboardsAfter
  <2> HIDE DEF x, y
  <2>6. sq \in b2.bb[x] <=> S(sq) \in c2.bb[y]
    BY <1>9, <2>2, <2>3, <2>4, <2>5
  <2> QED BY <2>6 DEF x, y, pieces
<1>11. ASSUME NEW r \in Right PROVE r \in b2.castling <=> MirrorRight(r) \in c2.castling
  <2>1. CASE m.move_type_ \in {"two_step_pawn", "en_passant"}
    BY <2>1, <1>4, <1>5, <1>7 DEF NextCastling, Twins
  <2>2. CASE m.move_type_ \notin {"two_step_pawn", "en_passant"}
    <3>1. b2.castling = adjust_castling_rights(b.castling, m) /\ c2.castling = adjust_castling_rights(c.castling, n)
      BY <2>2, <1>4, <1>5, <1>7 DEF NextCastling
    <3> QED BY <3>1, <1>6, TwinRights DEF n
  <2> QED BY <2>1, <2>2
<1>12. c2.side_to_move = flip_color(b2.side_to_move)
  BY <1>1, <1>4, <1>5
<1>13. Twins(b2, c2)
  BY <1>4, <1>5, <1>9, <1>10, <1>11, <1>12 DEF Twins, S
<1> QED BY <1>13 DEF b2, c2, n

-----------------------------------------------------------------------------
(* Castling. *)

\* Castling is tested on the same squares of the other first rank.
LEMMA TwinCastlings ==
  ASSUME NEW b, NEW c, Twins(b, c)
  PROVE  /\ is_castle_kingside_legal(b) => is_castle_kingside_legal(c)
         /\ is_castle_queenside_legal(b) => is_castle_queenside_legal(c)
<1> DEFINE me == b.side_to_move
           foe == flip_color(me)
           H(file) == home_square(me, file)
           G(file) == home_square(foe, file)
<1>1. me \in Color /\ foe \in Color /\ flip_color(foe) = me /\ c.side_to_move = foe
  BY FlipColor DEF Twins, BoardType
<1>2. ASSUME NEW file \in 0..7
      PROVE  /\ H(file) \in all_pieces(b) <=> G(file) \in all_pieces(c)
             /\ H(file) \in attack_squares(b, foe) <=> G(file) \in attack_squares(c, me)
  <2>1. H(file) \in Square /\ MirrorSquare(H(file)) = G(file)
    BY <1>1, Home, MirrorMasks
  <2>2. H(file) \in all_pieces(b) <=> G(file) \in all_pieces(c)
    BY <2>1, TwinMen
  <2>3. H(file) \in attack_squares(b, foe) <=> MirrorSquare(H(file)) \in attack_squares(c, flip_color(foe))
    BY <1>1, <2>1, TwinAttacks
  <2> QED BY <1>1, <2>1, <2>2, <2>3
<1>3. is_king_attacked(b, me) <=> is_king_attacked(c, foe)
  BY <1>1, TwinAttacks
<1>4. /\ kingside(me) \in b.castling <=> kingside(foe) \in c.castling
      /\ queenside(me) \in b.castling <=> queenside(foe) \in c.castling
  <2>1. /\ MirrorRight(kingside(me)) = kingside(foe) /\ MirrorRight(queenside(me)) = queenside(foe)
        /\ kingside(me) \in Right /\ queenside(me) \in Right
    BY <1>1 DEF MirrorRight, kingside, queenside, flip_color, Color, Right
  <2> QED BY <2>1 DEF Twins
<1>5. /\ has_right_to_castle(b, kingside(me)) <=> has_right_to_castle(c, kingside(foe))
      /\ has_right_to_castle(b, queenside(me)) <=> has_right_to_castle(c, queenside(foe))
  BY <1>1, <1>3, <1>4 DEF has_right_to_castle
<1>6. is_castle_kingside_legal(b) =>
        /\ has_right_to_castle(b, kingside(me))
        /\ H(5) \notin all_pieces(b) /\ H(6) \notin all_pieces(b)
        /\ H(5) \notin attack_squares(b, foe) /\ H(6) \notin attack_squares(b, foe)
  BY DEF is_castle_kingside_legal
<1>7. is_castle_queenside_legal(b) =>
        /\ has_right_to_castle(b, queenside(me))
        /\ H(3) \notin all_pieces(b) /\ H(2) \notin all_pieces(b) /\ H(1) \notin all_pieces(b)
        /\ H(3) \notin attack_squares(b, foe) /\ H(2) \notin attack_squares(b, foe)
  BY DEF is_castle_queenside_legal
<1>8. /\ has_right_to_castle(c, kingside(foe))
      /\ G(5) \notin all_pieces(c) /\ G(6) \notin all_pieces(c)
      /\ G(5) \notin attack_squares(c, me) /\ G(6) \notin attack_squares(c, me)
      => is_castle_kingside_legal(c)
  BY <1>1 DEF is_castle_kingside_legal
<1>9. /\ has_right_to_castle(c, queenside(foe))
      /\ G(3) \notin all_pieces(c) /\ G(2) \notin all_pieces(c) /\ G(1) \notin all_pieces(c)
      /\ G(3) \notin attack_squares(c, me) /\ G(2) \notin attack_squares(c, me)
      => is_castle_queenside_legal(c)
  BY <1>1 DEF is_castle_queenside_legal
<1> HIDE DEF H, G, me, foe
<1> QED BY <1>2, <1>5, <1>6, <1>7, <1>8, <1>9

\* So its moves are pushed for both or for neither.
LEMMA TwinCastlingMoves ==
  ASSUME NEW b, NEW c, Twins(b, c), NEW m \in append_castling_moves(b)
  PROVE  MirrorMove(m) \in append_castling_moves(c)
<1> DEFINE me == b.side_to_move
           foe == flip_color(me)
<1>1. me \in Color /\ c.side_to_move = foe
  BY DEF Twins, BoardType
<1>2. \A file \in 0..7 : MirrorSquare(home_square(me, file)) = home_square(foe, file)
  BY <1>1, Home, MirrorMasks
<1>3. /\ MirrorMove(castle_kingside_move(me)) = castle_kingside_move(foe)
      /\ MirrorMove(castle_queenside_move(me)) = castle_queenside_move(foe)
  BY <1>2, MirrorMoveOf DEF castle_kingside_move, castle_queenside_move
<1>4. CASE is_castle_kingside_legal(b) /\ m = castle_kingside_move(me)
  BY <1>1, <1>3, <1>4, TwinCastlings DEF append_castling_moves
<1>5. CASE is_castle_queenside_legal(b) /\ m = castle_queenside_move(me)
  BY <1>1, <1>3, <1>5, TwinCastlings DEF append_castling_moves
<1> QED BY <1>4, <1>5 DEF append_castling_moves

\* And they lead to twins.
LEMMA TwinCastled ==
  ASSUME NEW b, NEW c, Twins(b, c), WellFormed(b), NEW m \in append_castling_moves(b)
  PROVE  Twins(do_move(b, m), do_move(c, MirrorMove(m)))
<1> DEFINE n == MirrorMove(m)
           b2 == do_move(b, m)
           c2 == do_move(c, n)
           S(x) == MirrorSquare(x)
           me == b.side_to_move
           foe == flip_color(me)
           H(file) == home_square(me, file)
           G(file) == home_square(foe, file)
<1>1. WellFormed(c) /\ me \in Color /\ c.side_to_move = foe /\ foe \in Color /\ flip_color(foe) = me
  BY TwinsWellFormed, FlipColor DEF Twins, BoardType
<1>2. CastleFacts(b, m) /\ CastleFacts(c, n)
  BY <1>1, TwinCastlingMoves, CastlingMoves
<1>3. /\ b2 \in BoardType /\ CastledBitboards(b, m, b2.bb) /\ b2.side_to_move = foe
      /\ b2.en_passant_square_ = {} /\ b2.castling = adjust_castling_rights(b.castling, m)
  BY <1>2, AfterCastling DEF WellFormed
<1>4. /\ c2 \in BoardType /\ CastledBitboards(c, n, c2.bb) /\ c2.side_to_move = me
      /\ c2.en_passant_square_ = {} /\ c2.castling = adjust_castling_rights(c.castling, n)
  BY <1>1, <1>2, AfterCastling DEF WellFormed
<1>5. n.move_type_ = m.move_type_ /\ m \in MoveSet
  BY <1>2 DEF MirrorMove, Move, CastleFacts
<1>6. /\ king_file(n) = king_file(m) /\ beside_file(n) = beside_file(m) /\ corner_file(n) = corner_file(m)
      /\ king_file(m) \in 0..7 /\ beside_file(m) \in 0..7 /\ corner_file(m) \in 0..7
  BY <1>5 DEF king_file, beside_file, corner_file
<1>7. ASSUME NEW file \in 0..7, NEW sq \in Square PROVE sq = H(file) <=> S(sq) = G(file)
  <2>1. H(file) \in Square /\ S(H(file)) = G(file)
    BY <1>1, Home, MirrorMasks
  <2> QED BY <2>1, MirrorIsInjective
<1> HIDE DEF n, b2, c2, S, H, G
<1>8. ASSUME NEW side \in Color, NEW p \in Piece, NEW sq \in Square
      PROVE  sq \in pieces(b2, side, p) <=> S(sq) \in pieces(c2, flip_color(side), p)
  <2> DEFINE x == b.bb[<<side, p>>]
             y == c.bb[<<flip_color(side), p>>]
             kf == king_file(m)
             bf == beside_file(m)
             cf == corner_file(m)
  <2>1. flip_color(side) \in Color /\ (side # me <=> flip_color(side) # foe)
    BY <1>1, FlipColor
  <2>2. sq \in x <=> S(sq) \in y
    BY DEF Twins, pieces, S
  <2>3. b2.bb[<<side, p>>] = IF side # me \/ p \notin {"king", "rook"} THEN x
                             ELSE IF p = "king" THEN {H(kf)}
                             ELSE (x \ {H(4), H(cf)}) \cup {H(bf)}
    BY <1>3 DEF CastledBitboards, H
  <2>4. c2.bb[<<flip_color(side), p>>] = IF flip_color(side) # foe \/ p \notin {"king", "rook"} THEN y
                                         ELSE IF p = "king" THEN {G(kf)}
                                         ELSE (y \ {G(4), G(cf)}) \cup {G(bf)}
    BY <1>1, <1>4, <1>6, <2>1 DEF CastledBitboards, G
  <2>5. /\ sq = H(kf) <=> S(sq) = G(kf)
        /\ sq = H(bf) <=> S(sq) = G(bf)
        /\ sq = H(cf) <=> S(sq) = G(cf)
        /\ sq = H(4) <=> S(sq) = G(4)
    BY <1>6, <1>7
  <2> HIDE DEF x, y, kf, bf, cf, me, foe
  <2>6. sq \in b2.bb[<<side, p>>] <=> S(sq) \in c2.bb[<<flip_color(side), p>>]
    BY <2>1, <2>2, <2>3, <2>4, <2>5
  <2> QED BY <2>6 DEF pieces
<1>9. ASSUME NEW r \in Right PROVE r \in b2.castling <=> MirrorRight(r) \in c2.castling
  BY <1>3, <1>4, <1>5, TwinRights DEF n
<1>10. c2.side_to_move = flip_color(b2.side_to_move)
  BY <1>1, <1>3, <1>4
<1>11. Twins(b2, c2)
  BY <1>3, <1>4, <1>8, <1>9, <1>10 DEF Twins, S
<1> QED BY <1>11 DEF b2, c2, n

-----------------------------------------------------------------------------
(* Legal moves and scores of twins. *)

\* The images of legal moves, and of captures, are legal moves and captures, and lead
\* to twins.
LEMMA TwinLegalMoves ==
  ASSUME NEW b, NEW c, Twins(b, c), WellFormed(b), NEW m \in legal_moves(b)
  PROVE  /\ MirrorMove(m) \in legal_moves(c)
         /\ Twins(do_move(b, m), do_move(c, MirrorMove(m)))
         /\ m \in legal_capture_moves(b) => MirrorMove(m) \in legal_capture_moves(c)
<1> DEFINE n == MirrorMove(m)
           me == b.side_to_move
           foe == flip_color(me)
<1>1. me \in Color /\ foe \in Color /\ c.side_to_move = foe
  BY FlipColor DEF Twins, BoardType
<1>2. n \in legal_moves(c) /\ Twins(do_move(b, m), do_move(c, n))
  <2>1. CASE m \in append_castling_moves(b)
    BY <2>1, TwinCastlingMoves, TwinCastled DEF legal_moves
  <2>2. CASE m \in pseudolegal_moves(b, me) /\ is_pseudolegal_move_legal(b, m)
    <3>1. n \in pseudolegal_moves(c, foe) /\ Twins(do_move(b, m), do_move(c, n))
      BY <1>1, <2>2, TwinPseudolegalMoves, TwinMoves
    <3>2. ~is_king_attacked(do_move(c, n), foe)
      BY <1>1, <2>2, <3>1, TwinAttacks DEF is_pseudolegal_move_legal
    <3> QED BY <1>1, <3>1, <3>2 DEF legal_moves, is_pseudolegal_move_legal
  <2> QED BY <2>1, <2>2 DEF legal_moves
<1>3. m.dst_square_ \in enemies(b, me) => n.dst_square_ \in enemies(c, foe)
  <2>1. m.dst_square_ \in Square
    BY LegalMovesType DEF MoveSet
  <2>2. n.dst_square_ = MirrorSquare(m.dst_square_)
    BY DEF MirrorMove, Move
  <2> QED BY <1>1, <2>1, <2>2, TwinMen
<1> HIDE DEF n
<1>4. m \in legal_capture_moves(b) => n \in legal_capture_moves(c)
  BY <1>1, <1>2, <1>3 DEF legal_capture_moves, is_capture_move
<1> QED BY <1>2, <1>4 DEF n

\* Material is counted alike for both sides.
LEMMA TwinMaterial ==
  ASSUME NEW b, NEW c, Twins(b, c), NEW side \in Color
  PROVE  material(c, flip_color(side)) = material(b, side)
<1>1. ASSUME NEW p \in Piece
      PROVE  Cardinality(pieces(c, flip_color(side), p)) = Cardinality(pieces(b, side, p))
  <2> DEFINE X == pieces(b, side, p)
             Y == pieces(c, flip_color(side), p)
             f == [sq \in X |-> MirrorSquare(sq)]
  <2>1. Square = 0..63 /\ 0 \in Int /\ 63 \in Int
    BY DEF Square, board_size
  <2>2. IsFiniteSet(Square)
    BY <2>1, FS_Interval
  <2>3. \A sq \in X : sq \in Square /\ MirrorSquare(sq) \in Y
    BY TwinSquares
  <2>4. IsFiniteSet(X)
    BY <2>2, <2>3, FS_Subset
  <2>5. \A t \in Y : MirrorSquare(t) \in X /\ MirrorSquare(MirrorSquare(t)) = t
    <3> SUFFICES ASSUME NEW t \in Y PROVE MirrorSquare(t) \in X /\ MirrorSquare(MirrorSquare(t)) = t
      OBVIOUS
    <3>1. Twins(c, b) /\ flip_color(side) \in Color /\ flip_color(flip_color(side)) = side
      BY TwinsAreMutual, FlipColor
    <3>2. t \in Square /\ MirrorSquare(t) \in pieces(b, flip_color(flip_color(side)), p)
      BY <3>1, TwinSquares
    <3> QED BY <3>1, <3>2, MirrorSquares
  <2> HIDE DEF X, Y
  <2>6. f \in [X -> Y]
    BY <2>3
  <2>7. f \in Injection(X, Y)
    BY <2>3, <2>6, MirrorIsInjective DEF Injection, IsInjective
  <2>8. f \in Surjection(X, Y)
    BY <2>5, <2>6 DEF Surjection
  <2>9. ExistsBijection(X, Y)
    BY <2>7, <2>8 DEF ExistsBijection, Bijection
  <2>10. Cardinality(Y) = Cardinality(X)
    BY <2>4, <2>9, FS_Bijection
  <2> QED BY <2>10 DEF X, Y
<1>2. {"pawn", "rook", "knight", "bishop", "queen"} \subseteq Piece
  BY DEF Piece
<1> QED BY <1>1, <1>2 DEF material

\* What is good for white is as good for black on the twin.
LEMMA TwinScores ==
  ASSUME NEW b, NEW c, Twins(b, c), WellFormed(b)
  PROVE  static_evaluation(c) = -static_evaluation(b)
<1>1. Twins(c, b) /\ WellFormed(c)
  BY TwinsAreMutual, TwinsWellFormed
<1>2. legal_moves(b) = {} <=> legal_moves(c) = {}
  BY <1>1, TwinLegalMoves
<1>3. b.side_to_move \in Color /\ c.side_to_move = flip_color(b.side_to_move)
  BY DEF Twins, BoardType
<1>4. CASE legal_moves(b) = {}
  BY <1>2, <1>3, <1>4 DEF static_evaluation, flip_color, Color
<1>5. CASE legal_moves(b) # {}
  <2> DEFINE w == material(b, "white")
             k == material(b, "black")
  <2>1. material(c, "black") = w /\ material(c, "white") = k
    BY TwinMaterial DEF Color, flip_color
  <2>2. static_evaluation(b) = w - k /\ static_evaluation(c) = k - w
    BY <1>2, <1>5, <2>1 DEF static_evaluation
  <2>3. w \in Int /\ k \in Int
    <3>1. b \in BoardType /\ "white" \in Color /\ "black" \in Color
      BY DEF Twins, Color
    <3>2. w \in 0..1344 /\ k \in 0..1344
      BY <3>1, MaterialIsSmall
    <3> HIDE DEF w, k
    <3> QED BY <3>2
  <2> HIDE DEF w, k
  <2> QED BY <2>2, <2>3
<1> QED BY <1>4, <1>5

\* Mirror makes a twin.
LEMMA MirrorIsTwin ==
  ASSUME NEW b \in BoardType
  PROVE  Twins(b, Mirror(b))
<1> DEFINE c == Mirror(b)
           men == [cp \in Color \X Piece |->
                     {MirrorSquare(sq) : sq \in b.bb[<<flip_color(cp[1]), cp[2]>>]}]
           rights == {MirrorRight(r) : r \in b.castling}
           ep == {MirrorSquare(sq) : sq \in b.en_passant_square_}
<1>0. c = [b EXCEPT !.bb = men, !.side_to_move = flip_color(b.side_to_move), !.castling = rights,
                    !.en_passant_square_ = ep]
  BY Zenon DEF Mirror
<1>1. /\ c.bb = men
      /\ c.side_to_move = flip_color(b.side_to_move)
      /\ c.castling = rights
      /\ c.en_passant_square_ = ep
      /\ c = [bb |-> men, side_to_move |-> flip_color(b.side_to_move), en_passant_square_ |-> ep,
              castling |-> rights, fifty_move_clock_ |-> b.fifty_move_clock_, num_moves_ |-> b.num_moves_]
  <2> HIDE DEF c, men, rights, ep
  <2> QED BY <1>0 DEF BoardType
<1>2. b.side_to_move \in Color /\ b.en_passant_square_ \in SUBSET Square /\ b.castling \in SUBSET Right
        /\ b.fifty_move_clock_ \in Int /\ b.num_moves_ \in Int
  BY DEF BoardType, Bitboard
<1>3. \A cp \in Color \X Piece : b.bb[cp] \in SUBSET Square
  BY DEF BoardType, BitboardArray, Bitboard
<1>4. ASSUME NEW side \in Color, NEW p \in Piece
      PROVE  /\ men[<<side, p>>] = {MirrorSquare(sq) : sq \in b.bb[<<flip_color(side), p>>]}
             /\ b.bb[<<flip_color(side), p>>] \in SUBSET Square
  BY <1>3, FlipColor
<1>5. men \in BitboardArray
  <2>1. ASSUME NEW cp \in Color \X Piece PROVE men[cp] \in SUBSET Square
    <3>1. PICK side \in Color, p \in Piece : cp = <<side, p>>
      BY <2>1
    <3> DEFINE X == b.bb[<<flip_color(side), p>>]
    <3>2. men[cp] = {MirrorSquare(sq) : sq \in X} /\ X \in SUBSET Square
      BY <3>1, <1>4
    <3> HIDE DEF men, X
    <3>3. \A sq \in X : MirrorSquare(sq) \in Square
      BY <3>2, MirrorSquares
    <3> QED BY <3>2, <3>3
  <2>2. men = [cp \in Color \X Piece |-> men[cp]]
    OBVIOUS
  <2> HIDE DEF men
  <2> QED BY <2>1, <2>2 DEF BitboardArray, Bitboard
<1>6. ep \in SUBSET Square /\ rights \in SUBSET Right
  BY <1>2, MirrorSquares, MirrorRights
<1>7. c \in BoardType
  <2> HIDE DEF men, ep, rights
  <2> QED BY <1>1, <1>2, <1>5, <1>6, FlipColor DEF BoardType, Bitboard
<1>8. ASSUME NEW side \in Color, NEW p \in Piece, NEW sq \in Square
      PROVE  sq \in pieces(b, side, p) <=> MirrorSquare(sq) \in pieces(c, flip_color(side), p)
  <2>1. flip_color(side) \in Color /\ flip_color(flip_color(side)) = side
    BY FlipColor
  <2>2. /\ pieces(c, flip_color(side), p) = {MirrorSquare(s) : s \in b.bb[<<side, p>>]}
        /\ b.bb[<<side, p>>] \in SUBSET Square
    <3> HIDE DEF men, c
    <3> QED BY <1>1, <1>4, <2>1 DEF pieces
  <2> QED BY <2>2, MirrorIsInjective DEF pieces
<1>9. ASSUME NEW sq \in Square
      PROVE  sq \in b.en_passant_square_ <=> MirrorSquare(sq) \in c.en_passant_square_
  BY <1>1, <1>2, MirrorIsInjective
<1>10. ASSUME NEW r \in Right PROVE r \in b.castling <=> MirrorRight(r) \in c.castling
  BY <1>1, <1>2, MirrorRights
<1> HIDE DEF c
<1>11. Twins(b, c)
  BY <1>1, <1>7, <1>8, <1>9, <1>10 DEF Twins
<1> QED BY <1>11 DEF c

-----------------------------------------------------------------------------
(* The search on twins. *)

\* Whoever is to move, the same moves lead to twins.
LEMMA TwinKids ==
  ASSUME IsChess, NEW q \in Asked, NEW p \in Asked, Twins(q[1], p[1]), p[2] = q[2]
  PROVE  /\ AtRest(q) <=> AtRest(p)
         /\ \A k \in Kids(q) : \E l \in Kids(p) : Twins(k[1], l[1]) /\ l[2] = k[2]
         /\ own_score(p[1]) = own_score(q[1])
<1> DEFINE b == q[1]
           c == p[1]
<1>1. b \in ChessBoards /\ c \in ChessBoards /\ WellFormed(b) /\ WellFormed(c) /\ q[2] \in Nat
  BY DEF Asked, IsChess, ChessBoards
<1>2. Twins(b, c) /\ Twins(c, b)
  BY TwinsAreMutual
<1>3. ASSUME NEW x \in ChessBoards
      PROVE  /\ WellFormed(x)
             /\ LegalMoves(x) \in Seq(legal_moves(x))
             /\ Promise!Range(LegalMoves(x)) = legal_moves(x)
             /\ Promise!Range(LegalCaptureMoves(x)) = legal_capture_moves(x)
             /\ legal_capture_moves(x) \subseteq legal_moves(x)
             /\ \A m \in legal_moves(x) : DoMove(x, m) = do_move(x, m)
             /\ StaticEvaluation(x) = static_evaluation(x)
             /\ WhiteToMove(x) = is_whites_move_(x)
  <2>1. WellFormed(x)
    BY DEF ChessBoards
  <2> QED BY <2>1, ChessVectors DEF IsChess
<1>4. ASSUME NEW x \in ChessBoards PROVE LegalMoves(x) = <<>> <=> legal_moves(x) = {}
  <2>1. LegalMoves(x) \in Seq(legal_moves(x)) /\ Promise!Range(LegalMoves(x)) = legal_moves(x)
    BY <1>3
  <2>2. ASSUME NEW M, NEW v \in Seq(M), Promise!Range(v) = M PROVE v = <<>> <=> M = {}
    BY <2>2 DEF Promise!Range
  <2> QED BY <2>1, <2>2
<1>5. legal_moves(b) = {} <=> legal_moves(c) = {}
  BY <1>1, <1>2, TwinLegalMoves
<1>6. AtRest(q) <=> AtRest(p)
  BY <1>1, <1>4, <1>5 DEF AtRest
<1>7. ASSUME NEW k \in Kids(q) PROVE \E l \in Kids(p) : Twins(k[1], l[1]) /\ l[2] = k[2]
  <2>1. CASE AtRest(q)
    <3>1. PICK m \in Promise!Range(LegalCaptureMoves(b)) : k = <<DoMove(b, m), 0>>
      BY <2>1, <1>7 DEF Kids
    <3>2. m \in legal_capture_moves(b) /\ m \in legal_moves(b)
      BY <1>1, <1>3
    <3> DEFINE n == MirrorMove(m)
    <3>3. n \in legal_moves(c) /\ n \in legal_capture_moves(c) /\ Twins(do_move(b, m), do_move(c, n))
      BY <1>1, <1>2, <3>2, TwinLegalMoves
    <3>4. DoMove(b, m) = do_move(b, m) /\ DoMove(c, n) = do_move(c, n) /\ n \in Promise!Range(LegalCaptureMoves(c))
      BY <1>1, <1>3, <3>2, <3>3
    <3> DEFINE l == <<DoMove(c, n), 0>>
    <3>5. l \in Kids(p)
      BY <2>1, <1>6, <3>4 DEF Kids
    <3>6. Twins(k[1], l[1]) /\ l[2] = k[2]
      BY <3>1, <3>3, <3>4
    <3> QED BY <3>5, <3>6
  <2>2. CASE ~AtRest(q)
    <3>1. PICK m \in Promise!Range(LegalMoves(b)) : k = <<DoMove(b, m), q[2] - 1>>
      BY <2>2, <1>7 DEF Kids
    <3>2. m \in legal_moves(b)
      BY <1>1, <1>3
    <3> DEFINE n == MirrorMove(m)
    <3>3. n \in legal_moves(c) /\ Twins(do_move(b, m), do_move(c, n))
      BY <1>1, <1>2, <3>2, TwinLegalMoves
    <3>4. DoMove(b, m) = do_move(b, m) /\ DoMove(c, n) = do_move(c, n) /\ n \in Promise!Range(LegalMoves(c))
      BY <1>1, <1>3, <3>2, <3>3
    <3> DEFINE l == <<DoMove(c, n), p[2] - 1>>
    <3>5. l \in Kids(p)
      BY <2>2, <1>6, <3>4 DEF Kids
    <3>6. Twins(k[1], l[1]) /\ l[2] = k[2]
      BY <3>1, <3>3, <3>4
    <3> QED BY <3>5, <3>6
  <2> QED BY <2>1, <2>2
<1>8. own_score(c) = own_score(b)
  <2> DEFINE e == static_evaluation(b)
  <2>1. e \in Int /\ static_evaluation(c) = -e
    BY <1>1, <1>2, TwinScores, StaticScoreIsSmall DEF WellFormed
  <2>2. b.side_to_move \in Color /\ c.side_to_move = flip_color(b.side_to_move)
    BY <1>2 DEF Twins, BoardType
  <2>3. is_whites_move_(c) <=> ~is_whites_move_(b)
    BY <2>2 DEF is_whites_move_, flip_color, Color
  <2>4. /\ own_score(b) = e * (IF is_whites_move_(b) THEN 1 ELSE -1)
        /\ own_score(c) = static_evaluation(c) * (IF is_whites_move_(c) THEN 1 ELSE -1)
    BY <1>1, <1>3 DEF own_score
  <2> HIDE DEF e, b, c
  <2>5. CASE is_whites_move_(b)
    BY <2>1, <2>3, <2>4, <2>5
  <2>6. CASE ~is_whites_move_(b)
    BY <2>1, <2>3, <2>4, <2>6
  <2> QED BY <2>5, <2>6
<1> QED BY <1>6, <1>7, <1>8

\* The best of two games whose choices correspond is the same.
LEMMA BestOfTwins ==
  ASSUME IsGame, CapturesRunOut, NEW q \in Asked, NEW p \in Asked,
         AtRest(q) <=> AtRest(p), own_score(p[1]) = own_score(q[1]),
         \A k \in Kids(q) : \E l \in Kids(p) : Own(l) = Own(k)
  PROVE  Own(q) <= Own(p)
<1>1. Own(q) \in Int /\ Own(p) \in Int
  BY OwnIsBest
<1>2. CASE AtRest(q) /\ Own(q) = own_score(q[1])
  <2>1. own_score(p[1]) <= Own(p)
    BY <1>2, OwnIsBest
  <2> QED BY <1>2, <2>1
<1>3. CASE \E k \in Kids(q) : Own(q) = -Own(k)
  <2>1. PICK k \in Kids(q) : Own(q) = -Own(k)
    BY <1>3
  <2>2. PICK l \in Kids(p) : Own(l) = Own(k)
    OBVIOUS
  <2>3. -Own(l) <= Own(p)
    BY OwnIsBest
  <2> QED BY <2>1, <2>2, <2>3
<1>4. (AtRest(q) /\ Own(q) = own_score(q[1])) \/ (\E k \in Kids(q) : Own(q) = -Own(k))
  BY OwnIsBest
<1> QED BY <1>2, <1>3, <1>4

\* Twins have the same value from the side of the player to move, to every depth.
LEMMA TwinValues ==
  ASSUME IsChess, NEW q \in Asked, NEW c, Twins(q[1], c)
  PROVE  Own(<<c, q[2]>>) = Own(q)
<1> DEFINE T == {x \in Asked : \E y : Twins(x[1], y) /\ Own(<<y, x[2]>>) # Own(x)}
<1>1. SUFFICES ASSUME T # {} PROVE FALSE
  OBVIOUS
<1>2. IsGame /\ CapturesRunOut
  BY ChessIsAGame, ChessCapturesRunOut
<1>3. PICK x \in T : Kids(x) \cap T = {}
  <2>1. T \in SUBSET Asked
    OBVIOUS
  <2> HIDE DEF T
  <2> QED BY <1>1, <1>2, <2>1, KidsRunOut
<1>4. PICK y : Twins(x[1], y) /\ Own(<<y, x[2]>>) # Own(x)
  BY <1>3
<1> DEFINE p == <<y, x[2]>>
<1>5. x \in Asked
  BY <1>3
<1>6. p \in Asked /\ p[1] = y /\ p[2] = x[2]
  <2>1. WellFormed(x[1]) /\ x[2] \in Nat
    BY <1>5 DEF Asked, IsChess, ChessBoards
  <2>2. WellFormed(y) /\ y \in BoardType
    BY <1>4, <2>1, TwinsWellFormed DEF Twins
  <2> QED BY <2>1, <2>2 DEF Asked, IsChess, ChessBoards
<1>7. Twins(y, x[1])
  BY <1>4, TwinsAreMutual
<1> HIDE DEF p
<1>8. /\ AtRest(x) <=> AtRest(p)
      /\ \A k \in Kids(x) : \E l \in Kids(p) : Twins(k[1], l[1]) /\ l[2] = k[2]
      /\ \A l \in Kids(p) : \E k \in Kids(x) : Twins(l[1], k[1]) /\ k[2] = l[2]
      /\ own_score(p[1]) = own_score(x[1])
  BY <1>4, <1>5, <1>6, <1>7, TwinKids
<1>9. ASSUME NEW k \in Kids(x), NEW l \in Kids(p), Twins(k[1], l[1]), l[2] = k[2]
      PROVE  Own(l) = Own(k)
  <2>1. k \in Asked /\ l \in Asked
    BY <1>2, <1>5, <1>6, KidsAreAsked
  <2>2. k \notin T
    <3> HIDE DEF T
    <3> QED BY <1>3
  <2>3. Own(<<l[1], k[2]>>) = Own(k)
    BY <1>9, <2>1, <2>2
  <2>4. l = <<l[1], k[2]>>
    BY <1>9, <2>1 DEF Asked
  <2> QED BY <2>3, <2>4
<1> HIDE DEF T
<1>10. \A k \in Kids(x) : \E l \in Kids(p) : Own(l) = Own(k)
  BY <1>8, <1>9
<1>11. \A l \in Kids(p) : \E k \in Kids(x) : Own(k) = Own(l)
  BY <1>8, <1>9, TwinsAreMutual
<1>12. Own(x) <= Own(p)
  BY <1>2, <1>5, <1>6, <1>8, <1>10, BestOfTwins
<1>13. Own(p) <= Own(x)
  BY <1>2, <1>5, <1>6, <1>8, <1>11, BestOfTwins
<1>14. Own(x) \in Int /\ Own(p) \in Int
  BY <1>2, <1>5, <1>6, OwnIsBest
<1> QED BY <1>4, <1>12, <1>13, <1>14 DEF p

\* Exchanging the colours does not change what evaluation() tells the player to
\* move: not one of the branches for a colour, in the generators, in do_move, in
\* the search and in the scores, favours a side.
THEOREM ColoursDoNotMatter == IsChess => (Spec => []AnswerIsColourBlind)
<1> SUFFICES ASSUME IsChess PROVE Spec => []AnswerIsColourBlind
  OBVIOUS
<1>1. IsGame /\ CapturesRunOut /\ ScoresInside
  BY ChessIsAGame, ChessCapturesRunOut, ChessScoresInside
<1> DEFINE I == Inv /\ Correct /\ query \in Asked
<1>2. Init => I
  BY <1>1, InitImpliesInv, InitImpliesCorrect DEF Init, IsGame, Asked
<1>3. I /\ [Next]_vars => I'
  <2>1. [Next]_vars => query' = query
    BY DEF Next, EnterAlphaBeta, EnterQuiescence, SearchChild, CutOff, Improve, Reject,
           ReturnAlpha, Continue, Return, vars
  <2> QED BY <1>1, <2>1, NextKeepsInv, NextKeepsCorrect
<1>4. I => AnswerIsColourBlind
  <2> SUFFICES ASSUME I, stack = <<>>
               PROVE  LET b == Mirror(query[1])
                      IN  result.score = Promise!Value[<<b, query[2]>>] * Promise!Sign(b)
    BY DEF AnswerIsColourBlind
  <2> DEFINE c == Mirror(query[1])
  <2>1. Reached(result, <<query, -Infinity, Infinity>>)
    BY DEF Correct
  <2>2. -Infinity < Own(query) /\ Own(query) < Infinity /\ Own(query) \in Int
    BY <1>1, OwnInside, OwnIsBest
  <2>3. result.score = Own(query)
    BY <2>1, <2>2, InfinityAssumption DEF Reached, Clamp
  <2>4. query[1] \in BoardType
    BY DEF Asked, IsChess, ChessBoards
  <2>5. Twins(query[1], c)
    BY <2>4, MirrorIsTwin
  <2> HIDE DEF c
  <2>6. Own(<<c, query[2]>>) = Own(query)
    BY <2>5, TwinValues
  <2>7. result.score = Promise!Value[<<c, query[2]>>] * Promise!Sign(c)
    BY <2>3, <2>6 DEF Own
  <2> QED BY <2>7 DEF c
<1> HIDE DEF I
<1> QED BY <1>2, <1>3, <1>4, PTL DEF Spec

-----------------------------------------------------------------------------
(* number_of_moves, on the same boards. *)

Count == INSTANCE PerftProofs

LEMMA ChessCanBeCounted == IsChess => Count!IsGame
<1> SUFFICES ASSUME IsChess PROVE Count!IsGame
  OBVIOUS
<1>1. IsGame
  BY ChessIsAGame
<1>2. Queries \subseteq Boards \X Nat
  BY <1>1 DEF IsGame
<1>3. ASSUME NEW b \in Boards PROVE \E S : LegalMoves(b) \in Seq(S)
  BY <1>1 DEF IsGame
<1>4. ASSUME NEW b \in Boards, NEW i \in 1..Len(LegalMoves(b))
      PROVE  DoMove(b, LegalMoves(b)[i]) \in Boards
  <2>1. LegalMoves(b) \in Seq(Promise!Range(LegalMoves(b)))
    BY <1>1 DEF IsGame
  <2>2. LegalMoves(b)[i] \in Promise!Range(LegalMoves(b))
    BY <2>1
  <2> QED BY <1>1, <2>2 DEF IsGame
<1> QED BY <1>2, <1>3, <1>4 DEF Count!IsGame

\* From every well-formed board and to every depth, number_of_moves and each of its
\* inner calls return the number of lines of legal moves.
THEOREM CountsAreRightInChess == IsChess => (Count!Spec => []Count!CountsTheLines)
<1>1. \A q \in Queries : q[2] \in Nat
  BY QueriesAssumption
<1> QED BY <1>1, ChessCanBeCounted, Count!LinesAreCounted, PTL
=============================================================================
