# A TLA+ verification of pawn_grabber

pawn_grabber is a small chess engine in C++. Its own code is `src/src/board.h`
and `src/src/board.cc` (the board, move generation, the search), the drivers
`perft.cc` and `eval.cc`, and the tests in `board_test.cc`; the rest of the
repository is a vendored copy of abseil. The engine is sequential: there are no
threads, no messages, nothing is persisted, and no call can time out. What makes
it hard to get right is the *length of legal call sequences*. A board is twelve
64-bit words, an en passant square, four castling flags and two counters; seven
`do_*_move` functions each update some of them; and every function trusts that
all the earlier ones have left the words consistent, with nothing but a few
`ABSL_RAW_CHECK`s to notice when they have not.

## Inventory

| Component | State | Operations | Correct when |
|---|---|---|---|
| Bitboard primitives (`board.cc` 1096-1237) | none | `north_of` ... `southwest_of`, `direction_to_function`, masks, coordinates, `pop_count`, `square_idx`, `bitboard_split` | a step never wraps around the edge or leaves the word; the loops see every bit and end |
| Board and `do_move` (`board.h` 134-261, `board.cc` 50-197, 644-833) | twelve Bitboards, `is_whites_move_`, `en_passant_square_`, four castling flags, `fifty_move_clock_`, `num_moves_` | `do_move` and the seven `do_*_move`, `move_piece`, `remove_piece_on`, `adjust_castling_rights`, `undo_move` | no square holds two pieces; men leave only by capture; rights and e.p. square are never stale |
| Move generation (`board.cc` 199-642) | none (reads a board) | the `append_*` functions, `pseudolegal_moves`, `attack_squares`, `is_king_attacked`, `is_pseudolegal_move_legal`, `is_castle_*_legal`, `legal_moves`, `legal_capture_moves` | exactly the legal moves of chess; no check fails |
| FEN constructor (`board.cc` 16-61, 854-975) | a board under construction, `rank` and `file` | `Board(fen)`, `init_bitboards`, `init_is_whites_move`, `init_castling_rights`, `init_en_passant`, and abseil's `SimpleAtoi` for the counters | the board the FEN describes; every shift is defined |
| perft (`board.cc` 800, 1279-1291, `perft.cc`) | one board per level, shared by all moves of the level; the loops of `main` | `number_of_moves`: do, recurse, undo; the driver compares with a table | the number of lines of the given length; no entry is skipped |
| Search (`board.cc` 835-852, 1030-1094, `eval.cc`) | a board per level, `alpha`, `beta`, `pv` | `evaluation`, `alpha_beta`, `quiescence_search`, `static_evaluation` | the minimax value and a line that reaches it |
| Printing (`board.cc` 69-178, 1015-1021, 1210-1218) | none | `to_pretty_str`, `square_to_str` | the diagram and the names of squares agree with the constructor |

Interactions. `perft` and both searches do the same two things in turn: they ask
a board for `legal_moves()` and perform one of the moves with `do_move()`.
`legal_moves` itself performs every pseudolegal move on a copy of the board and
generates the enemy's replies there, so `do_move` and the generators also run on
boards that are *not* legal (the mover's king may be en prise), and their checks
must not fail on these either. Castling moves are appended after that filter and
are never tried out. The searches copy the board for each move; `number_of_moves`
does and undoes all moves of a level on the same board, and what it restores is
the board stored in the move. `alpha_beta` turns into `quiescence_search` at the
horizon, with the same window and the same `pv`.

The hazards, each with its line, are in `PROJECT.json`. The main ones: two pieces
on one square make `move_piece` move the wrong one; an e.p. square or a castling
right that outlives its turn makes a later move remove or move whatever happens
to be there; a pawn that reaches the last rank by the wrong function makes the
next generation abort; castling is not covered by the legality filter; the turn
has already passed when the king is tested; windows, scores and lines of the
search are negated, swapped and clamped through many calls, and are wrong without
looking wrong; a move is undone by a copy made long before; shifts, narrowing
conversions and digit loops have edges that no ordinary input touches.

## Modules

| Module | Models | Uses |
|---|---|---|
| `Bitboards` | squares, Bitboards as sets of bit indices, the step functions, masks, colours | |
| `Bits` | the same functions, and the loops over bits, on words | |
| `Board` | `struct Board` and `struct Move`, `do_move` and all it calls | `Bitboards` |
| `MoveGen` | every `append_*` generator, attack masks, castling conditions, the legality filter, the `ABSL_RAW_CHECK`s on the way | `Board` |
| `Fen` | `Board(fen)` from its six fields, as operators | `Board` |
| `Printing` | the diagram of a board, the names of squares and moves | `Fen` |
| `FenReader` | the constructor as a state machine over characters | `Printing`, `Position` |
| `SimpleAtoi` | the conversion of the FEN's counters (abseil's `numbers.cc`) | |
| `Position` | the notion of a well-formed board, and what one move may change | `MoveGen` |
| `Game` | lines of play: the state machine and its properties | `Position` |
| `Rules` | the rules of chess as an abstract specification, without bitboards | |
| `GameRules` | the refinement mapping from `Game` to `Rules` | `Game`, instance of `Rules` |
| `Search` | `evaluation`, `alpha_beta` and `quiescence_search` as a machine with a stack, over any game | |
| `Minimax` | what the search promises, as an abstract specification: value and lines as recursive functions | |
| `SearchMinimax` | the refinement mapping from `Search` to `Minimax`, and what is required of a game | `Search`, instance of `Minimax` |
| `Evaluation` | `static_evaluation`, and the answers of a board as the search asks for them | `MoveGen` |
| `ChessSearch` | the search on boards | `SearchMinimax`, `Evaluation`, `Position` |
| `Perft` | `number_of_moves` and `undo_move` as a machine with a stack, over any game | |
| `PerftTable`, `PerftMain` | the boards and the table of `perft.cc`; its `main` | `Fen` |
| `MC...` | instances for TLC | |
| `PositionProofs` | the proofs about `do_move` and the generators, and about one move on a well-formed board | `Position` |
| `GameProofs` | the proofs about `Game`, and that it implements `Rules` | `GameRules`, `PositionProofs` |
| `SearchProofs` | the proofs about `Search`, and that it implements `Minimax`, in any game; then that chess is such a game, and one for `Perft` too | `ChessSearch`, `PositionProofs`, instance of `PerftProofs` |
| `PerftProofs` | the proofs about `Perft` | `Perft` |
| `SimpleAtoiProofs` | the proofs about `SimpleAtoi` | `SimpleAtoi` |
| `FenReaderProofs` | the proofs about `FenReader` | `FenReader`, `PositionProofs` |
| `PerftMainProofs` | the proof about `PerftMain` | `PerftMain` |
| `BitsProofs` | the proofs about `Bits` | `Bits` |

How the state corresponds. A square is the index of its bit (h1 is 0, a8 is 63),
a Bitboard the set of its one-bits: `0` is `{}`, `|` is union, `&` intersection,
a shift by eight adds or subtracts eight and drops what leaves 0..63. A board is a
record whose `bb` is a function from (colour, piece) to Bitboards; `castling` is
the set of the flags that are true, under their FEN letters; `en_passant_square_`
is `{}` for `nullopt`. The code writes every function twice, once for each
colour; the model writes it once with the colour as a parameter, after checking
that the two branches are mirror images. A function that pushes moves on a vector
returns the set of the moves. `GeneratesTheLegalMoves` also says that no move of
chess is there under two different records; whether one record is pushed twice
is not visible in a set. (The sizes compared in `board_test.cc` and the
counts of `perft.cc` would show it.) Loops over `all_bitboards()` keep their order and their
early exit (`first_bitboard`). The sliding loop is stated with `walk`, a closed
form of repeated steps; lemma `WalkIsIteratedStep` shows that it is what repeated
calls of `direction_fn` lead to.

`Game` has one variable for the board, one for the list `legal_moves()` has
returned and one for which call comes next. `GenerateMoves` is the whole of
`legal_moves()`; the six `Do...` actions are `do_move` by type of move. Where an
`ABSL_RAW_CHECK` would fail, the step goes to the phase `"aborted"`.

`Search` and `Perft` make the recursion explicit: a stack of frames, the running
call first, each with the parameters and locals of its call and a phase that says
where in the function it is (`called`, `looping`, `waiting` for the callee). Every
part of the code between two calls or returns is one action. What they ask of a
board (`legal_moves`, `do_move`, `static_evaluation`) is a constant operator, so
that the same machine runs on small games, all of which TLC can try, and on chess.
A callee's `pv` is the caller's local `line`; it comes back with the score. The
model's generators return sets; `vector` puts them in some order, which decides
which of several equally good lines is found and nothing else.

`Minimax` defines the value of a board without windows: the best over all moves to
the depth, and below it the best of standing pat and of all captures. It answers
once, with that value from the mover's side and a line: legal moves to the depth,
captures beyond it, and the value at its end. `SearchMinimax` maps an empty stack
to "answered", and `ReturnsTheMinimaxValue` says that `Search` implements it. The
set `Boards` of all boards of the game is there for the definition of `Value`, a
recursive function of a board and a depth; nothing in the search depends on it.
`Perft` likewise defines the lines of a given length, by lengthening the shorter
ones, and says that every call returns how many there are.

Operators commented "Faulty variant" are versions of the definition that follows
them with a plausible mistake. No specification uses them; each shows, put in the
place of the original, that a property notices the mistake.

## Runs

| Run | Instance | Checks |
|---|---|---|
| `game` | start position, an endgame full of pins, four castling rights, promotions on both sides, a mixed one; 2 or 3 half-moves (25 119 states) | types, the six parts of a well-formed board, no failing check, men leave only by capture |
| `rules` | the same, one half-move less; and one half-move from two families: black may castle both ways, with one more man of either colour and any kind on every square; black may capture e.p., with its king and a white queen on every pair of squares (28 340 states) | `legal_moves` is exactly the legal moves of chess, castling and e.p. included; the mover's king is safe afterwards; every `do_move` is a move of chess with its full effect (`Game` refines `Rules`) |
| `search` | a binary tree of depth 3 with all scores from {-1, 0, 1} at its leaves; chains of captures with all scores at all nodes; a graph with circles, captures out of them and a lost position, to depths 0..4 (563 555 states) | windows nest; every call returns the value clamped to its window, with a line if it is inside; `Search` refines `Minimax`; the search ends |
| `chess_search` | five searches: a mate in one, exchanges in the centre, promotions, an endgame (849 states) | `Search` refines `Minimax` on real boards; the answer is the same when the colours are exchanged |
| `perft` | all games with three positions and at most two moves in each, to depth 3; the seven boards of `perft.cc` to depth 2, the endgame to depth 3 (169 198 states) | every move is taken back; every call returns the number of lines, in small games and in chess; in chess the counts are the table's |
| `perft_main` | the whole table; each count right, off by one, or off by 2^32 (159 states) | no entry is passed without a comparison |
| `bits` | all words of a 3 by 3 board (10 241 states) | loops return what the sets say, shifts lead to neighbours only, loops end |
| `fen_reader` | the FENs of 524 boards: every man on every square, all castling rights, all e.p. squares (14 128 states) | the board is read back and no check fails; no undefined shift; printed moves are unambiguous up to promotion |
| `simple_atoi` | all texts of up to 4 characters out of 10, an `int` of 8 bits (63 243 states) | accepts exactly the numerals in range; no overflow on the way |
| `attack_mask` | as `game` | violated: `attack_squares` contains squares that only a pawn push reaches, against the comment on it |
| `fifty_moves` | as `game` | violated: no move changes `fifty_move_clock_`, against the comment on `struct Board` |

Bounds. In `Game`, `Starts` is the set of positions, `MaxPly` the half-move number
from which no more moves are generated; it is the only bound in the specification.
Every type of move occurs within it, and so do the pairs and triples of moves that
the hazards need: a jump and its e.p. capture, a promotion that captures the rook
on its corner and the castling that is then impossible, a capture of a rook by a
rook. What is true of longer games is proved (below). The families vary the
squares instead of the length, because lines of attack through vacated squares
are where castling and en passant could go wrong.

The games of `search` are small but complete in the scores: cutoffs at every
level, equal scores, windows of width one and lines that cross the horizon all
occur among them; three scores and a lost position are enough to order any two
siblings either way or leave them equal. The tree starts with white to move, since
with all scores the one with black is its mirror image. `Infinity` is 3, above
every score as 1000000 is. `chess_search` and the chess part of `perft` then tie the
machines to the real generators; their depths are what TLC evaluates in a minute.

A word of 9 bits has, like one of 64, both edges, inner ranks and a highest bit;
no definition in `Bits` depends on the size, and `BitsProofs` treats all sizes.
TLC's integers end at 2^31 - 1, so `PerftTable` writes 64 bit numbers in three
limbs. An `int` of 8 bits has its limits at 127 and -128, which four characters
reach and pass with either sign.
The boards of `fen_reader` are given by their men and not by FENs, and the FENs
are written from the diagram that `to_pretty_str` shows, so constructor and
printing are checked against each other.

Fairness and deadlock. The program is sequential and waits for nothing, so where
liveness is checked (`search`, `bits`) the assumption is
weak fairness of the whole next-state relation: the processor goes on. `Game` has
no fairness: the caller decides whether it asks for another move. All runs say
`CHECK_DEADLOCK FALSE`: games stop at mate, at stalemate or at the bound, and
functions return.

## Proofs

| Theorem | Says | Holds for |
|---|---|---|
| `Types`, `PiecesNeverOverlap`, `KingsStand`, `PawnsCanStep`, `RightsAreSound`, `EnPassantIsFresh`, `MoverIsSafe` | types, and the six parts of a well-formed board | all games from well-formed boards |
| `ChecksNeverFail` | no `ABSL_RAW_CHECK` of `legal_moves` or `do_move` fails | the same |
| `CaptureAccounting` | the mover's men keep their number; the other side loses at most one man, where the mover arrives or, en passant, beyond it | the same |
| `MovesAreTheLegalMoves` | `legal_moves` returns exactly the legal moves of chess, with one record for each | the same |
| `EnginePlaysChess` | `Game` implements `Rules`: every `do_move` is a move of chess with its full effect | the same |
| `WindowsAlwaysNest` | no call of the search gets an empty window, and its window stays inside its caller's | every game, every depth |
| `EveryReturnIsClamped` | every call of the search returns the minimax value of its board clamped to its window, and a line to it when the value is inside | every game in which captures run out |
| `SearchImplementsMinimax` | `Search` implements `Minimax` | the same, when static scores are inside the first window |
| `SearchIsRightInChess`, `CallsAreClampedInChess` | the last two in chess, with no hypothesis about games left | all well-formed boards, every depth |
| `ColoursDoNotMatter` | exchanging the colours changes nothing in what `evaluation` tells the player to move | all well-formed boards, every depth |
| `MovesAreTakenBack` | `number_of_moves` does every move on the board it was generated for | every game, every depth |
| `LinesAreCounted` | every call of `number_of_moves` returns the number of lines of its length | every game, every depth |
| `CountsAreRightInChess` | the same in chess | all well-formed boards, every depth |
| `NothingOverflows`, `NumeralsAreRead` | `SimpleAtoi` stays in its type, and accepts exactly the numerals of the type with their value | all texts, all limits of the type |
| `LoopsAreRight` | `pop_count`, `square_idx` and `bitboard_split` return what the set of one-bits says | all words, boards of any size |
| `StepsAreRight` | the shifts of `north_of` ... `southwest_of` lead to the neighbouring square, or to 0 beyond the edge | the same |
| `FenIsReadBack` | no check of the constructor fails on the FEN written from the diagram of a board, and it reads back that board (the counters are handed over) | all well-formed boards |
| `ShiftsStayDefined` | no shift of the constructor is by a negative number or by 64 or more | the same |
| `NamesAreUnique` | two moves of a board with the same printed name differ only in the piece promoted to | the same |
| `EveryEntryIsCompared` | `perft.cc` compares every entry of its table before it passes on to the next | every outcome of `number_of_moves` |

### One move on a board

`Game`'s theorems hold for *every* set of start positions and every `MaxPly`. Their
assumptions are `StartsAssumption` (every start board is `WellFormed`) and
`MaxPlyAssumption`; TLC evaluates both on each run's positions. The inductive
invariant is `Inv`: the types; `WellFormed(board)`; the listed moves are those of
`legal_moves(board)`; no check has failed. `WellFormed` has seven parts, and none
is inductive alone:

- a move piece by piece is predictable only if no two pieces share a square
  (`MovePiece`, `RemovePiece`, `MoveEffect`);
- the kings remain because the side that has moved is not in check, so no
  pseudolegal move ends on its king (`KingNotTaken`);
- castling rights remain sound because a king or rook that leaves, or a rook that
  is captured, is noticed by `adjust_castling_rights`; the two functions that do
  not call it only move pawns between the back ranks (`RightsAfter`);
- e.p. captures are predictable because the e.p. square is fresh
  (`EnPassantVictim`, `EnPassantAfter`);
- pawns stay off the back ranks because the generators split there (`PawnMoves`,
  `PawnsAfter`), and the check on destinations needs it (`PawnsHaveRoom`).

So `PositionProofs` first says what each generator pushes and what `do_move` does,
then that any pseudolegal move on a well-formed board keeps everything but the safety of the mover's own king, that the filter supplies this last part,
and that castling, which is not filtered, keeps all of it. The geometric heart is
`CastledRookShields`: a line to the king's new square that passes over its old
square or over the corner also passes over the castled rook. Hence a line that is
open after castling was open before (`SlideBeforeCastling`), and
`is_castle_*_legal` has looked at that. `GameProofs` draws the conclusions.

### The moves are those of chess

`Rules` knows no bitboards: a position is a mailbox of 8 by 8 squares, officers
attack along lines that are clear between the two squares, and a move is legal if
the king is not attacked afterwards. `GameProofs` relates the two step by step.

1. The mailbox depicts the board (`MailboxDepicts`, `Depicted`): a man is on a
   square in the one exactly if its bit is set in the other, since no two share one.
2. Lines: a walk of n steps that `append_*` would take is a line of files or ranks
   or a diagonal, and it is open exactly if all between are empty (`AwayGeometry`,
   `OpenIsClear`, `FilesAndRanks`, `DiagonalLines`). With the king's and the
   knight's steps this gives what officers aim at (`OfficersAim`); pawns are
   treated apart, as their mask also holds squares they push to (`PawnsCan`).
3. Attacks: the king's square is in `attack_squares` of the enemy exactly if the
   rules say it is attacked (`AttackSquaresAre`, `CheckIsSeen`). The squares of
   pushes do not matter there, because the king stands on its square. They could
   matter in castling, where the squares tested are empty: but a pawn that could
   push to one of them attacks the one beside it (`PushAttacksBeside`), and that one
   is tested too.
4. Moves: a pseudolegal move is a reach of the rules and vice versa, with the type
   that fits and under one record (`PseudolegalReaches`, `ReachesIsPseudolegal`,
   `PseudolegalOnce`); trying a move out gives the position of the rules
   (`EffectAgrees`), so the filter keeps the same moves (`FilterAgrees`); the
   castling tests agree (`CastlingAgrees`). Together: `LegalMovesAgree`.
5. Steps: the rights that remain and the new e.p. square agree as well
   (`KeptAgrees`, `TargetAgrees`), so each action is a step of `Rules`
   (`OrdinaryStep`, `CastlingStep`).

### The search and the count

The theorems about stacks hold for every game; what a game is, is part of the
statements. `IsGame` of `SearchMinimax`: `legal_moves` returns a vector, captures
are among the moves, a move leads to a board on which it is the other player's
turn, scores are integers. `ScoresInside`: no static score reaches `Infinity`.
`CapturesRunOut`: every set of boards has a board from which no capture leads back
into the set; without it `quiescence_search` need not end and `Value` is not
defined. `IsGame` of `PerftProofs` only asks for vectors of moves that lead to boards
of the game. TLC's games satisfy all of them, and the second half of `SearchProofs`
proves them of chess: a listed move leads to a well-formed board with the turn
passed (`LegalKeepsWellFormed`, `TurnPasses`), a capture leaves fewer men
(`CapturesTake`, from the accounting above), and 64 squares of material stay far
below 1000000 (`StaticScoreIsSmall`). The first half uses nothing about chess.

The invariants speak of all frames at once, and three lemmas say what replacing,
pushing and popping the running frame does to a sequence; every action is one of
the three. In the search each frame has a window, is linked to its caller, which
waits, and what it has found so far is right: no move done so far is worth more than
`alpha`, and once `alpha` was raised it is not above the value of the board and `pv`
is a line to it (`Serves`). That
`Value` is a function is proved first, from `CapturesRunOut` below the horizon and by
induction over the depth above it.

In `number_of_moves` all moves a frame has still to do, and the one in progress,
store the board the frame was given, and `res` is the number of those lines whose
first move is among the ones done. `Lines` lengthens lines at the end while the
recursion lengthens them at the front, so `Lines` is first shown to be the set of
all sequences that are lines (`LineSet`); those with first move k are then as many
as the lines of the board after move k (a bijection).

### The colours do not matter

The code writes out most of its rules twice, once for each colour, and tells the
colours apart by a sign in the score. `Twins` are two boards of which one is the
other turned over with the colours exchanged, whatever the counters say: they run
on after a move of black only, and nothing that the search calls looks at them.
The proof follows the exchange through the code: the eight directions, rays and
edges (`MirrorWalk`, `MirrorPawnSteps`), each generator (`TwinSlide`,
`TwinPseudolegalMoves`), the attack masks (`TwinAttacks`), `do_move` with the
castling rights and the e.p. square (`TwinMoves`, `TwinCastled`), the legality
filter and the castling tests (`TwinLegalMoves`), the material (`TwinScores`). So
the boards
after a move of the one are the twins of the boards after a move of the other
(`TwinKids`). That twins have the same value for the player to move follows by
the induction that made `Value` a function (`TwinValues`).

### SimpleAtoi

The invariant says which digits have been consumed, that they all are digits, and
that `value` is the number they denote, or ten times that when `scaled`. The two
tests are exact because 10 times the rounded quotient is at most the limit and
less than 10 below it (`TestAbove`, `TestBelow`); a text is refused for good reason
because more digits never make a number smaller (`NumbersGrow`).
`LimitsAssumption` (the type reaches from -10 or below to 10 or above) holds of
every integer type the function is instantiated with.

### Words and sets of bits

Everything above works with sets of squares where the code has words; `BitsProofs`
justifies that for the functions that look inside a word. `board_size` is any
number but 0, so a word may have 64 bits as in the code, which TLC cannot count to.
`SetOf` and `WordOf` are inverse to each other (`WordIsBack`, `SetIsBack`), since a shift by
n + 1 is a shift by n and one by 1 (`Halving`). A word but 0 is an odd multiple of
a power of two (`OddPart`); its predecessor agrees with it above that power and has
a zero there (`Predecessor`), so `bb & bb - 1` clears the lowest bit and no other
(`LowestBitCleared`). The invariant says what each loop has done: counted the bits
removed, shifted `res + 1` times and last a word that was not 0, collected the bits
removed, all below those that are left. A word with one bit is the power of two of
its rank and column (`SquaresArePowers`, `SquareHasPlace`), and the four shifts add
or subtract in one of the two, or leave the word (`NorthOfSquare` ...
`WestOfSquare`); the diagonal steps are made of these.

### The FEN constructor and the names of moves

`BoardsAssumption` of `FenReader` says that every board whose FEN is read is
`WellFormed`; TLC evaluates it on
the boards of the run. The
loop invariant of `init_bitboards` ties the board under construction to the text
that is left: the board has exactly the men of the squares passed so far
(`PassedMen`), and the text left is the FEN from the next square on (`Left`). Every
character keeps this (`CharacterKeepsScan`): a letter adds one man and passes one
square, a digit passes as many squares as it names, all empty, and a slash comes
exactly where a rank is full. So `rank` and `file` stay inside the board whenever a
man is placed, which is why the shifts are defined. `row_text` and `rows_text` are
recursive functions, unfolded with `LeastNumber`. The other fields
are read in one step and pass their checks (`SideIsRead`, `CastlingIsRead`,
`EnPassantIsRead`).

A printed name gives the two squares of the move (`NameGivesSquares`,
`MovesHaveNames`). What remains is that two moves between the same squares have the
same type: a man has only one kind, a pawn's push, jump, capture, e.p. capture and
promotion end on different squares (`PawnNamesDiffer`), and castling goes further
than a king's step (`CastlingGoesFar`).

### perft's driver

Every entry of the table is there with its counts (`TableIsReadable`), and the step
that passes on to the next depth or board passes exactly one entry, the one just
compared (`AdvancePassesOne`). The outcome of each count is arbitrary.

### What is only model-checked

Induction over numbers is available here in the form "a non-empty set of numbers
has a least one" (`LeastNumber`, from the library's theorem on well-founded
relations), and recursive functions are unfolded with it; induction over other
data, liveness and `ENABLED` are out of the prover's reach. So termination
(`Terminates`, `LoopsEnd`) stays with TLC, although the reasons it holds
are proved: windows, depths and captures as above. Also only checked by TLC are
the numbers in perft's table (`AgreesWithTheTable`, pure calculation). Every other
property of the passing runs is proved.

## Not modelled

- The vendored abseil, apart from `SimpleAtoi`. It makes up 98% of the
  repository's lines (mutexes, hash tables, time zones, demangling) and the engine
  calls next to nothing of it: `StrSplit`, `StrCat`, `c_accumulate`, `optional`,
  `string_view`, `ABSL_RAW_CHECK`, `Now`, none of which keeps state. A model of
  the rest would verify another project. Of the engine's own lines nearly all are
  mapped.
- Splitting the FEN at its blanks. Malformed FENs: one has to describe a
  well-formed board. The constructor's `ABSL_RAW_CHECK`s on the side to move and
  the e.p. square are modelled, and shown never to fail on such a FEN. The two
  counters reach `Fen` converted, as `SimpleAtoi` delivers them when it answers
  `true`; when it does is the subject of that module, so `ReadsBack` says nothing
  about them.
- The widths of `num_moves_` and `fifty_move_clock_` after construction.
- The frame of the printed diagram, `bb_to_pretty_str`, the `PrintTo` functions and
  what the drivers print (`perft.cc` also prints numbers above 2^31 cut to an `int`).
- A negative depth: `alpha_beta` and `number_of_moves` would not meet their base
  case.
- The order of the move vectors, and how often a move is on one.
- Another score for stalemate than for checkmate: `static_evaluation` has the same
  for both, and is modelled so (a TODO in the code mentions the difference).
- The tests in `board_test.cc`, which were read as documentation of intent.

## Plan

Done: all modules, runs and proofs above.
