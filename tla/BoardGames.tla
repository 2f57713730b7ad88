-------- MODULE BoardGames --------
(***************************************************************************)
(* The games that are played by turns that no clock ends: the two races,   *)
(* and domino.                                                             *)
(***************************************************************************)
EXTENDS GameMatches, FiniteSetsExt

(***************************************************************************)
(* The two races.  snakes-ladders.service.js and snakes-ladders.board.js:  *)
(* one roll is one move; a roll past the last square does not move; a      *)
(* snake or a ladder is taken once; the first player on the last square    *)
(* wins.  ludo.board.js and ludo.service.js: a roll, then the choice of a  *)
(* token.  Positions are relative to the player's own start: BASE, the     *)
(* squares of the shared track, the private home column, HOME.  A die can  *)
(* leave the base with its top face only, which also grants another roll;  *)
(* three of them in a row forfeit the turn.                                *)
(***************************************************************************)
CONSTANTS BoardSize,   \* the last square (100)
          Hops         \* square -> where its ladder or snake leads

\* No snake or ladder leads to the foot or head of another.
ASSUME HopsOnBoard ==
  /\ BoardSize \in Nat \ {0}
  /\ \A s \in DOMAIN Hops : s \in 1..BoardSize - 1 /\ Hops[s] \in (1..BoardSize) \ DOMAIN Hops

FreshBoard(m) ==
  [game |-> "snakes_ladders", players |-> matches[m].players, turn |-> 1,
   positions |-> [a \in Accounts |-> 0], over |-> FALSE, winner |-> Nobody]

RollLandsOn(from, die) == IF from + die > BoardSize THEN from ELSE from + die

ResolveSquare(square) == IF square \in DOMAIN Hops THEN Hops[square] ELSE square

ApplyMove(from, die) == ResolveSquare(RollLandsOn(from, die))

RollSnakes(h, m, a, die) ==
  LET t == Table(m, FreshBoard(m))
      moved == [t EXCEPT !.positions[a] = ApplyMove(t.positions[a], die)]
  IN /\ Active(m, "snakes_ladders")
     /\ ~t.over /\ CurrentActor(t) = a
     /\ IF moved.positions[a] = BoardSize THEN EndGame(h, m, moved, a)
        ELSE Keep(m, [moved EXCEPT !.turn = NextTurn(t)])

\* getState builds the board.
LookAtBoard(m) ==
  /\ Served(m, "snakes_ladders")
  /\ tables[m] = NoTable
  /\ Keep(m, FreshBoard(m))

SnakesStep(h, m) ==
  \/ \E a \in Accounts, die \in Faces : RollSnakes(h, m, a, die)
  \/ LookAtBoard(m)
-----------------------------
CONSTANTS TrackLength,      \* ABS_TRACK_LENGTH (52)
          HomeColumn,       \* HOME_COLUMN_LENGTH (6)
          TokensPerPlayer,  \* 4
          StartOffsets,     \* color -> where it enters the track (0, 13, 26, 39)
          SafeSquares,      \* squares without captures
          TopFace           \* the face that leaves the base (6)

ASSUME TracksFit ==
  /\ TopFace \in Faces /\ TrackLength \in Nat \ 0..2 /\ HomeColumn \in Nat \ {0}
  /\ TokensPerPlayer \in Nat \ {0}

Base == -1
LastOnTrack == TrackLength - 2
HomeRelPos == LastOnTrack + HomeColumn
Tokens == 1..TokensPerPlayer
NoDie == 0
ThreeSixes == 3

FreshLudo(m) ==
  [game |-> "ludo", players |-> matches[m].players, turn |-> 1,
   tokens |-> [a \in Accounts |-> [i \in Tokens |-> Base]],
   finished |-> [a \in Accounts |-> 0], die |-> NoDie, sixes |-> 0,
   over |-> FALSE, winner |-> Nobody]

ColorOf(t, a) == CHOOSE i \in 1..Len(t.players) : t.players[i] = a

\* absoluteSquare: NoSquare in the base and in the home column.
NoSquare == -1
Square(t, a, pos) ==
  IF pos \in 0..LastOnTrack THEN (pos + StartOffsets[ColorOf(t, a)]) % TrackLength ELSE NoSquare

\* computeMove: where the token goes; IllegalMove if it may not.
IllegalMove == -2
ComputeMove(pos, die) ==
  IF pos = HomeRelPos THEN IllegalMove
  ELSE IF pos = Base THEN (IF die = TopFace THEN 0 ELSE IllegalMove)
  ELSE IF pos + die > HomeRelPos THEN IllegalMove ELSE pos + die

LegalPieces(t, a, die) == {i \in Tokens : ComputeMove(t.tokens[a][i], die) # IllegalMove}

AdvanceTurn(t) == [t EXCEPT !.turn = NextTurn(t), !.die = NoDie, !.sixes = 0]

\* What a roll leaves: the third six in a row and a roll no token can use
\* pass the turn, any other waits for a move.
Rolled(t, a, die) ==
  LET sixes == IF die = TopFace THEN t.sixes + 1 ELSE 0 IN
  IF sixes = ThreeSixes \/ LegalPieces(t, a, die) = {} THEN AdvanceTurn(t)
  ELSE [t EXCEPT !.die = die, !.sixes = sixes]

RollLudo(m, a, die) ==
  LET t == Table(m, FreshLudo(m)) IN
  /\ Active(m, "ludo")
  /\ ~t.over /\ CurrentActor(t) = a /\ t.die = NoDie
  /\ Keep(m, Rolled(t, a, die))

\* Mutant: nobody is sent back.
CaptureNobody(t, a, pos) == t.tokens

\* Everybody else's tokens on the square go back, unless it is safe.
Capture(t, a, pos) ==
  LET square == Square(t, a, pos) IN
  [b \in Accounts |-> [i \in Tokens |->
     IF /\ square \notin {NoSquare} \cup SafeSquares
        /\ b # a /\ \E k \in 1..Len(t.players) : t.players[k] = b
        /\ Square(t, b, t.tokens[b][i]) = square
     THEN Base ELSE t.tokens[b][i]]]

MoveToken(h, m, a, i) ==
  LET t == tables[m]
      to == ComputeMove(t.tokens[a][i], t.die)
      home == IF to = HomeRelPos THEN 1 ELSE 0
      moved == [t EXCEPT !.tokens = [Capture(t, a, to) EXCEPT ![a][i] = to],
                         !.finished[a] = @ + home]
  IN /\ Active(m, "ludo") /\ t # NoTable
     /\ ~t.over /\ CurrentActor(t) = a /\ t.die # NoDie
     /\ to # IllegalMove
     /\ IF moved.finished[a] = TokensPerPlayer /\ home = 1
          THEN EndGame(h, m, [moved EXCEPT !.die = NoDie], a)
        ELSE IF t.die = TopFace THEN Keep(m, [moved EXCEPT !.die = NoDie])
        ELSE Keep(m, AdvanceTurn(moved))

LookAtLudo(m) ==
  /\ Served(m, "ludo")
  /\ tables[m] = NoTable
  /\ Keep(m, FreshLudo(m))

LudoStep(h, m) ==
  \/ \E a \in Accounts : \/ \E die \in Faces : RollLudo(m, a, die)
                         \/ \E i \in Tokens : MoveToken(h, m, a, i)
  \/ LookAtLudo(m)
-----------------------------
(***************************************************************************)
(* domino.board.js and domino.service.js: tiles are dealt by the server,   *)
(* played to an open end of the chain, drawn while the boneyard has any    *)
(* and the hand has no move, and passed after that.  A hand is a set: no   *)
(* rule looks at the order of its tiles.                                   *)
(***************************************************************************)
CONSTANTS MaxPip,     \* 6 in a double-six set
          HandSize    \* number of players -> tiles each is dealt

ASSUME TilesDealt == MaxPip \in Nat /\ HandSize \in [DOMAIN HandSize -> Nat \ {0}]

TileSet == {tile \in (0..MaxPip) \X (0..MaxPip) : tile[1] <= tile[2]}
PipSum(tile) == tile[1] + tile[2]
HandPipTotal(hand) == MapThenSumSet(PipSum, hand)

NoChain == <<>>   \* otherwise <<left end, right end>>
Ends == {1, 2}

\* legalEnds
LegalEnds(tile, chain) ==
  {e \in Ends : chain = NoChain \/ chain[e] \in {tile[1], tile[2]}}

HasAnyLegalMove(hand, chain) == \E tile \in hand : LegalEnds(tile, chain) # {}

\* Mutant: the half that matches stays open.
AttachFlipped(tile, e, chain) ==
  IF chain = NoChain THEN tile
  ELSE [chain EXCEPT ![e] = IF tile[1] = @ THEN tile[1] ELSE tile[2]]

\* attach: the half that does not match becomes the open end.
Attach(tile, e, chain) ==
  IF chain = NoChain THEN tile
  ELSE [chain EXCEPT ![e] = IF tile[1] = @ THEN tile[2] ELSE tile[1]]

\* The highest double opens, the heaviest tile if nobody has a double.
Weight(tile) == PipSum(tile) + (IF tile[1] = tile[2] THEN 2 * MaxPip ELSE 0)

Starter(players, hands) ==
  LET best(i) == Max({Weight(tile) : tile \in hands[players[i]]})
  IN Min({i \in 1..Len(players) : \A k \in 1..Len(players) : best(k) <= best(i)})

\* Every way to deal the hands of players from tiles.
Deals(players, tiles, size) ==
  {hands \in [Accounts -> {s \in SUBSET tiles : Cardinality(s) \in {0, size}}] :
     /\ \A a \in Accounts :
          hands[a] = {} <=> ~\E i \in 1..Len(players) : players[i] = a
     /\ \A a, b \in Accounts : a # b => hands[a] \cap hands[b] = {}}

\* No table when there is no hand size for so many players (status 400).
FreshDominoes(m) ==
  LET players == matches[m].players IN
  IF Len(players) \notin DOMAIN HandSize THEN {}
  ELSE {[game |-> "domino", players |-> players, turn |-> Starter(players, hands),
         hands |-> hands, boneyard |-> TileSet \ UNION {hands[a] : a \in Accounts},
         chain |-> NoChain, played |-> {}, passes |-> 0, over |-> FALSE, winner |-> Nobody] :
        hands \in Deals(players, TileSet, HandSize[Len(players)])}

\* The tables a request for the match can find: the one the engine has, or
\* one it deals now.
DominoTables(m) ==
  IF ~Active(m, "domino") THEN {}
  ELSE IF tables[m] = NoTable THEN FreshDominoes(m) ELSE {tables[m]}

DominoTurn(t, a) == ~t.over /\ CurrentActor(t) = a

PlayTile(h, m, a) ==
  \E t \in DominoTables(m) : \E tile \in t.hands[a] : \E e \in LegalEnds(tile, t.chain) :
     LET laid == [t EXCEPT !.chain = Attach(tile, e, @), !.hands[a] = @ \ {tile},
                           !.played = @ \cup {tile}, !.passes = 0]
     IN /\ DominoTurn(t, a)
        /\ IF laid.hands[a] = {} THEN EndGame(h, m, laid, a)
           ELSE Keep(m, [laid EXCEPT !.turn = NextTurn(t)])

DrawTile(m, a) ==
  \E t \in DominoTables(m) :
     /\ DominoTurn(t, a)
     /\ ~HasAnyLegalMove(t.hands[a], t.chain)
     /\ \E tile \in t.boneyard :
          Keep(m, [t EXCEPT !.boneyard = @ \ {tile}, !.hands[a] = @ \cup {tile}])

\* When all have passed in turn the lowest total of pips wins, if one has it.
PassDomino(h, m, a) ==
  \E t \in DominoTables(m) :
     LET passed == [t EXCEPT !.passes = @ + 1]
         Fewer(p, q) == HandPipTotal(t.hands[p]) < HandPipTotal(t.hands[q])
     IN /\ DominoTurn(t, a)
        /\ ~HasAnyLegalMove(t.hands[a], t.chain)
        /\ t.boneyard = {}
        /\ IF passed.passes >= Len(t.players)
             THEN EndGame(h, m, passed, OnlyBest({t.players[i] : i \in 1..Len(t.players)}, Fewer))
           ELSE Keep(m, [passed EXCEPT !.turn = NextTurn(t)])

LookAtDominoes(m) ==
  /\ Served(m, "domino")
  /\ tables[m] = NoTable
  /\ \E t \in FreshDominoes(m) : Keep(m, t)

DominoStep(h, m) ==
  \/ \E a \in Accounts : PlayTile(h, m, a) \/ DrawTile(m, a) \/ PassDomino(h, m, a)
  \/ LookAtDominoes(m)
=============================
