-------- MODULE Chess --------
(***************************************************************************)
(* Chess: the rules of the board, and the match that is played by them.    *)
(***************************************************************************)
EXTENDS GameMatches

(***************************************************************************)
(* chess.board.js: the rules of chess as functions of a position.  Squares *)
(* are 0..63, a1 = 0, h8 = 63.  A board maps the occupied squares to their *)
(* pieces; a position adds whose turn it is, the castling rights and the   *)
(* square a pawn may be captured on in passing.  The counters of moves are *)
(* left out: no rule of the code reads them.                               *)
(***************************************************************************)
Squares == 0..63
File(s) == s % 8
Rank(s) == s \div 8
OnBoard(f, r) == f \in 0..7 /\ r \in 0..7

Opponent(c) == IF c = "w" THEN "b" ELSE "w"
Forward(c) == IF c = "w" THEN 1 ELSE -1
Piece(type, color) == [type |-> type, color |-> color]

KnightDeltas == {d \in (-2..2) \X (-2..2) : d[1] * d[1] + d[2] * d[2] = 5}
KingDeltas == ((-1..1) \X (-1..1)) \ {<<0, 0>>}
BishopDirs == {-1, 1} \X {-1, 1}
RookDirs == KingDeltas \ BishopDirs

BackRank == <<"r", "n", "b", "q", "k", "b", "n", "r">>

InitialPosition ==
  [board |-> [s \in 0..15 \cup 48..63 |->
                Piece(IF s \in 8..55 THEN "p" ELSE BackRank[File(s) + 1],
                      IF s < 32 THEN "w" ELSE "b")],
   turn |-> "w", castling |-> {"wK", "wQ", "bK", "bQ"}, enPassant |-> -1]

\* The square k steps from s in direction d.
Step(s, d, k) == (Rank(s) + k * d[2]) * 8 + File(s) + k * d[1]
StepsOn(s, d) == {k \in 1..7 : OnBoard(File(s) + k * d[1], Rank(s) + k * d[2])}

\* Squares one step from s in one of the directions.
Leaps(s, dirs) == {Step(s, d, 1) : d \in {e \in dirs : 1 \in StepsOn(s, e)}}
KnightLeaps == [s \in Squares |-> Leaps(s, KnightDeltas)]
KingLeaps == [s \in Squares |-> Leaps(s, KingDeltas)]

\* The squares from s to the edge in each direction, nearest first.
Rays == [s \in Squares |-> [d \in KingDeltas |-> [k \in StepsOn(s, d) |-> Step(s, d, k)]]]

\* Squares seen from s along the directions, up to the first occupied one.
Slides(board, s, dirs) ==
  UNION {{Rays[s][d][k] : k \in {j \in DOMAIN Rays[s][d] :
             \A i \in 1..j - 1 : Rays[s][d][i] \notin DOMAIN board}} : d \in dirs}

\* Some square of targets holds a piece of that color and one of the types.
Holds(board, targets, color, types) ==
  \E s \in targets \cap DOMAIN board : board[s].color = color /\ board[s].type \in types

\* Mutant: pawns attack backwards.
AttackedWrongWay(board, s, by) ==
  \/ Holds(board, Leaps(s, {-1, 1} \X {Forward(by)}), by, {"p"})
  \/ Holds(board, KnightLeaps[s], by, {"n"})
  \/ Holds(board, KingLeaps[s], by, {"k"})
  \/ Holds(board, Slides(board, s, BishopDirs), by, {"b", "q"})
  \/ Holds(board, Slides(board, s, RookDirs), by, {"r", "q"})

IsSquareAttacked(board, s, by) ==
  \/ Holds(board, Leaps(s, {-1, 1} \X {-Forward(by)}), by, {"p"})
  \/ Holds(board, KnightLeaps[s], by, {"n"})
  \/ Holds(board, KingLeaps[s], by, {"k"})
  \/ Holds(board, Slides(board, s, BishopDirs), by, {"b", "q"})
  \/ Holds(board, Slides(board, s, RookDirs), by, {"r", "q"})

KingsOf(board, color) == {s \in DOMAIN board : board[s] = Piece("k", color)}

InCheck(board, color) ==
  \E k \in KingsOf(board, color) : IsSquareAttacked(board, k, Opponent(color))

Move(from, to, kind, promotion) ==
  [from |-> from, to |-> to, kind |-> kind, promotion |-> promotion]

\* Moves to squares: onto free ones, and captures of the other color.
Onto(board, from, targets) ==
  {Move(from, s, "quiet", "none") : s \in targets \ DOMAIN board}
    \cup {Move(from, s, "capture", "none") :
            s \in {x \in targets \cap DOMAIN board : board[x].color # board[from].color}}

\* A pawn that reaches the last rank becomes one of four pieces.
Promoting(moves, color) ==
  UNION {IF Rank(mv.to) = (IF color = "w" THEN 7 ELSE 0)
         THEN {[mv EXCEPT !.promotion = p] : p \in {"q", "r", "b", "n"}} ELSE {mv} : mv \in moves}

PawnMoves(pos, from) ==
  LET board == pos.board
      color == board[from].color
      one == Leaps(from, {<<0, Forward(color)>>}) \ DOMAIN board
      two == IF one = {} \/ Rank(from) # (IF color = "w" THEN 1 ELSE 6) THEN {}
             ELSE {from + 16 * Forward(color)} \ DOMAIN board
      beside == Leaps(from, {-1, 1} \X {Forward(color)})
  IN Promoting({Move(from, s, "quiet", "none") : s \in one}, color)
       \cup {Move(from, s, "double", "none") : s \in two}
       \cup Promoting({mv \in Onto(board, from, beside) : mv.kind = "capture"}, color)
       \cup {Move(from, s, "enPassant", "none") :
               s \in {x \in beside \ DOMAIN board : x = pos.enPassant}}

\* Castling: right -> the king's square, the rook's, where they go, the
\* squares that must be free, and those the king must not be attacked on.
Castling(color) ==
  LET base == IF color = "w" THEN 0 ELSE 56 IN
  {[kind |-> "castleK", right |-> IF color = "w" THEN "wK" ELSE "bK",
    king |-> base + 4, rook |-> base + 7, to |-> base + 6, rookTo |-> base + 5,
    free |-> {base + 5, base + 6}, safe |-> {base + 4, base + 5, base + 6}],
   [kind |-> "castleQ", right |-> IF color = "w" THEN "wQ" ELSE "bQ",
    king |-> base + 4, rook |-> base, to |-> base + 2, rookTo |-> base + 3,
    free |-> {base + 1, base + 2, base + 3}, safe |-> {base + 2, base + 3, base + 4}]}

CastleMoves(pos, from) ==
  LET color == pos.board[from].color IN
  {Move(from, c.to, c.kind, "none") : c \in
     {x \in Castling(color) :
        /\ from = x.king /\ x.right \in pos.castling
        /\ x.free \cap DOMAIN pos.board = {}
        /\ Holds(pos.board, {x.rook}, color, {"r"})
        /\ \A s \in x.safe : ~IsSquareAttacked(pos.board, s, Opponent(color))}}

\* generatePseudoMovesFrom: what the piece on from may do, its own king's
\* safety aside.
PseudoMoves(pos, from) ==
  LET board == pos.board
      type == board[from].type
  IN CASE type = "p" -> PawnMoves(pos, from)
       [] type = "n" -> Onto(board, from, KnightLeaps[from])
       [] type = "k" -> Onto(board, from, KingLeaps[from]) \cup CastleMoves(pos, from)
       [] type = "b" -> Onto(board, from, Slides(board, from, BishopDirs))
       [] type = "r" -> Onto(board, from, Slides(board, from, RookDirs))
       [] type = "q" -> Onto(board, from, Slides(board, from, KingDeltas))

\* Rights go when the king moves and when a rook's home square is touched.
RightsAfter(pos, mv) ==
  LET color == pos.board[mv.from].color
      touched == {mv.from, mv.to}
  IN {r \in pos.castling :
        /\ ~(pos.board[mv.from].type = "k"
               /\ r \in (IF color = "w" THEN {"wK", "wQ"} ELSE {"bK", "bQ"}))
        /\ ~(r = "wQ" /\ 0 \in touched) /\ ~(r = "wK" /\ 7 \in touched)
        /\ ~(r = "bQ" /\ 56 \in touched) /\ ~(r = "bK" /\ 63 \in touched)}

\* applyMove
Applied(pos, mv) ==
  LET piece == pos.board[mv.from]
      color == piece.color
      placed == IF mv.promotion = "none" THEN piece ELSE Piece(mv.promotion, color)
      castle == {c \in Castling(color) : c.kind = mv.kind}
      left == {mv.from} \cup {c.rook : c \in castle}
                \cup (IF mv.kind = "enPassant" THEN {mv.to - 8 * Forward(color)} ELSE {})
      taken == {mv.to} \cup {c.rookTo : c \in castle}
  IN [board |-> [s \in (DOMAIN pos.board \ left) \cup taken |->
                   IF s = mv.to THEN placed
                   ELSE IF \E c \in castle : s = c.rookTo THEN Piece("r", color)
                   ELSE pos.board[s]],
      turn |-> Opponent(color),
      castling |-> RightsAfter(pos, mv),
      enPassant |-> IF mv.kind = "double" THEN mv.from + 8 * Forward(color) ELSE -1]

\* Pseudo-legal moves that do not leave the mover's king attacked.
LegalMovesFrom(pos, from) ==
  {mv \in PseudoMoves(pos, from) : ~InCheck(Applied(pos, mv).board, pos.board[from].color)}

AllLegalMoves(pos, color) ==
  UNION {LegalMovesFrom(pos, s) : s \in {x \in DOMAIN pos.board : pos.board[x].color = color}}

\* AllLegalMoves is empty.
IsStuck(pos, color) ==
  \A s \in {x \in DOMAIN pos.board : pos.board[x].color = color} :
     \A mv \in PseudoMoves(pos, s) : InCheck(Applied(pos, mv).board, color)

IsCheckmate(pos, color) == InCheck(pos.board, color) /\ IsStuck(pos, color)
IsStalemate(pos, color) == ~InCheck(pos.board, color) /\ IsStuck(pos, color)

\* King against king, one minor piece, or a bishop each on the same color.
IsInsufficientMaterial(board) ==
  LET rest == {s \in DOMAIN board : board[s].type # "k"} IN
  \/ rest = {}
  \/ \E s \in rest : rest = {s} /\ board[s].type \in {"b", "n"}
  \/ \E s, x \in rest :
       /\ rest = {s, x} /\ s # x
       /\ board[s].type = "b" /\ board[x].type = "b" /\ board[s].color # board[x].color
       /\ (File(s) + Rank(s)) % 2 = (File(x) + Rank(x)) % 2
-----------------------------
(***************************************************************************)
(* chess.service.js: the match around the rules above: whose turn it is,   *)
(* a clock for each side, resignation and the draw that one side           *)
(* offers and the other accepts.                                           *)
(***************************************************************************)
CONSTANTS Openings,   \* positions a match is followed from
          MaxMoves    \* bound: moves of a match that are followed

\* In each somebody is to move, and can; on the board are chessmen.
ASSUME OpeningsPlayable ==
  \A pos \in Openings :
     /\ pos.turn \in {"w", "b"}
     /\ \A s \in DOMAIN pos.board :
          pos.board[s] \in [type : {"p", "n", "b", "r", "q", "k"}, color : {"w", "b"}]
     /\ ~IsStuck(pos, pos.turn) /\ ~IsInsufficientMaterial(pos.board)

\* The first of the two players has the white pieces.
FreshChess(m, pos) ==
  [game |-> "chess", players |-> matches[m].players, pos |-> pos, moves |-> 0,
   clocks |-> [a \in Accounts |-> Duration], elapsed |-> 0, offer |-> Nobody,
   over |-> FALSE, winner |-> Nobody, result |-> "none"]

ChessTables(m) ==
  IF Len(matches[m].players) # 2 \/ ~Served(m, "chess") THEN {}
  ELSE IF tables[m] = NoTable THEN {FreshChess(m, pos) : pos \in Openings} ELSE {tables[m]}

PlayerOf(t, color) == IF color = "w" THEN t.players[1] ELSE t.players[2]
OnClock(t) == PlayerOf(t, t.pos.turn)
Rival(t, a) == IF t.players[1] = a THEN t.players[2] ELSE t.players[1]
OutOfTime(t) == TimeUp(t, t.clocks[OnClock(t)])

\* A match that goes on, in memory and in the row, with time on the clock.
Underway(m, t) == Active(m, "chess") /\ ~t.over /\ ~OutOfTime(t)

EndChess(h, m, t, winner, result) == EndGame(h, m, [t EXCEPT !.result = result], winner)

\* How the position after a move ends the match, if it does.
Verdict(pos) ==
  IF IsCheckmate(pos, pos.turn) THEN "checkmate"
  ELSE IF IsStalemate(pos, pos.turn) THEN "stalemate"
  ELSE IF IsInsufficientMaterial(pos.board) THEN "insufficient_material" ELSE "none"

MoveChess(h, m, a) ==
  \E t \in ChessTables(m) :
     /\ Underway(m, t) /\ OnClock(t) = a
     /\ t.moves < MaxMoves
     /\ \E mv \in AllLegalMoves(t.pos, t.pos.turn) :
          LET pos == Applied(t.pos, mv)
              verdict == Verdict(pos)
              u == [t EXCEPT !.pos = pos, !.moves = @ + 1, !.clocks[a] = @ - t.elapsed,
                             !.elapsed = 0, !.offer = Nobody]
          IN IF verdict = "none" THEN Keep(m, u)
             ELSE EndChess(h, m, u, IF verdict = "checkmate" THEN a ELSE Nobody, verdict)

Resign(h, m, a) ==
  \E t \in ChessTables(m) :
     /\ Underway(m, t) /\ Plays(m, a)
     /\ EndChess(h, m, t, Rival(t, a), "resignation")

OfferDraw(m, a) ==
  \E t \in ChessTables(m) :
     /\ Underway(m, t) /\ Plays(m, a)
     /\ Keep(m, [t EXCEPT !.offer = a])

RespondDraw(h, m, a, accept) ==
  \E t \in ChessTables(m) :
     /\ Underway(m, t) /\ Plays(m, a)
     /\ t.offer \notin {Nobody, a}
     /\ \/ accept /\ EndChess(h, m, t, Nobody, "draw_agreement")
        \/ ~accept /\ Keep(m, [t EXCEPT !.offer = Nobody])

\* Mutant: reading the match does not look at the clock.
LookWithoutClock(h, m) ==
  \E t \in ChessTables(m) : tables[m] = NoTable /\ Keep(m, t)

\* A request that finds the clock of the side to move run out ends the match.
LookAtChess(h, m) ==
  \E t \in ChessTables(m) :
     \/ /\ ~t.over /\ OutOfTime(t)
        /\ EndChess(h, m, [t EXCEPT !.clocks[OnClock(t)] = 0], Rival(t, OnClock(t)), "timeout")
     \/ tables[m] = NoTable /\ Keep(m, t)

ChessStep(h, m) ==
  \/ \E a \in Accounts :
        \/ MoveChess(h, m, a) \/ Resign(h, m, a) \/ OfferDraw(m, a)
        \/ \E accept \in BOOLEAN : RespondDraw(h, m, a, accept)
  \/ LookAtChess(h, m)
=============================
