-------- MODULE Games --------
(***************************************************************************)
(* The room game center: the lobby and the seven engines that play what is *)
(* started in it.                                                          *)
(***************************************************************************)
EXTENDS BoardGames, TimedGames, Chess, Functions

gamesVars == matchVars

GamesInit == HandlersInit({}) /\ MatchesInit

\* The rosters POST /api/games is called with: the others, each named once.
Rosters(a) ==
  {<<>>} \cup {<<b>> : b \in Accounts \ {a}}
    \cup {<<b, c>> : b, c \in Accounts \ {a}}
NamedOnce(s) == \A i, k \in 1..Len(s) : i # k => s[i] # s[k]

Lobby ==
  \/ \E a \in Accounts, g \in DOMAIN Limits : \E others \in Rosters(a) :
        NamedOnce(others) /\ CreateMatch(a, g, others)
  \/ \E h \in Handlers : MatchStep(h) \/ (Ready(h) /\ MatchRequest(h))

Playing(h, m) ==
  \/ SnakesStep(h, m) \/ LudoStep(h, m) \/ DominoStep(h, m)
  \/ CarromStep(h, m) \/ EightBallStep(h, m) \/ QuizStep(h, m) \/ ChessStep(h, m)

GameCutOff ==
  /\ \E h \in Handlers : Interrupted(h)
  /\ UNCHANGED <<matches, tables, restarts>>

ClockedGames == {"carrom", "eight_ball", "quiz", "chess"}

TimePasses(m) ==
  /\ matches[m].state # "none" /\ matches[m].game \in ClockedGames
  /\ tables[m] # NoTable
  /\ ClockAdvances(m, IF matches[m].game = "chess" THEN tables[m].clocks[OnClock(tables[m])]
                      ELSE Duration)

GamesNext ==
  \/ Lobby \/ GameCutOff \/ Restart
  \/ \E m \in MatchIds : TimePasses(m) \/ \E h \in Handlers : Playing(h, m)

Looks(h, m) ==
  LookAtCarrom(h, m) \/ LookAtQuiz(h, m) \/ LookAtEightBall(m) \/ LookAtChess(h, m)

\* Time goes on, statements end, and some player goes on reading the game.
GamesSpec ==
  /\ GamesInit /\ [][GamesNext]_gamesVars
  /\ \A m \in MatchIds : WF_gamesVars(TimePasses(m))
  /\ \A h \in Handlers :
        /\ WF_gamesVars(MatchStep(h))
        /\ \A m \in MatchIds : WF_gamesVars(Looks(h, m))
-----------------------------
\* The table of m, if its engine has one for game g.
TablesOf(g) == {tables[m] : m \in {n \in MatchIds : Served(n, g) /\ tables[n] # NoTable}}

Seats(t) == {t.players[i] : i \in 1..Len(t.players)}
OnlyTop(t, best(_)) == OnlyBest(Seats(t), LAMBDA p, q : best(p) > best(q))

GamesTypeOK ==
  /\ \A h \in Handlers : job[h] = Idle \/ job[h].key \in MatchIds
  /\ restarts \in 0..MaxRestarts
  /\ \A m \in MatchIds :
       /\ matches[m].state \in {"none", "lobby", "active", "cancelled", "finished"}
       /\ matches[m].players \in Seq(Accounts)
       /\ tables[m].winner \in Accounts \cup {Nobody}
  /\ \A t \in TablesOf("eight_ball") : t.remaining \in [{"solids", "stripes"} -> 0..BallsPerGroup]

Contract == INSTANCE MatchContract WITH
  roster <- [m \in MatchIds |-> matches[m].players],
  phase <- [m \in MatchIds |-> matches[m].state],
  result <- [m \in MatchIds |-> matches[m].winner]

\* The lobby with its overlapping requests and the engines that call
\* finishMatch keep the promises of MatchContract
\* (game-match.repository.js:10-20).
LobbyKeepsContract == Contract!Spec

\* The result of a match is the one its engine came to, and a game that is
\* over has its result recorded, unless that is under way or was cut off
\* (game-match.service.js:19-22).
ResultFollowsPlay ==
  \A m \in MatchIds :
     /\ matches[m].state = "finished" /\ restarts = 0 =>
          tables[m].over /\ tables[m].winner = matches[m].winner
     /\ tables[m].over /\ matches[m].state # "finished" =>
          InFlight("finish", m, {"update"}) \/ m \in dropped

\* The tokens that are home.
Home(t, a) == {i \in Tokens : t.tokens[a][i] = HomeRelPos}

\* Tokens meet on safe squares, and a roll that waits has a move.
LudoSound(t) ==
  /\ t.die # NoDie => LegalPieces(t, CurrentActor(t), t.die) # {}
  /\ \A a, b \in Seats(t) : \A i, k \in Tokens :
       a # b /\ Square(t, a, t.tokens[a][i]) = Square(t, b, t.tokens[b][k])
         => Square(t, a, t.tokens[a][i]) \in SafeSquares \cup {NoSquare}
  /\ \A a \in Seats(t) :
       /\ t.finished[a] = Cardinality(Home(t, a))
       /\ t.winner = a <=> Home(t, a) = Tokens

\* Nobody rests on a foot of a ladder or a head of a snake.
BoardSound(t) ==
  \A a \in Seats(t) :
     /\ t.positions[a] \in (0..BoardSize) \ DOMAIN Hops
     /\ t.positions[a] = BoardSize <=> t.winner = a

\* Ludo: a roll that waits for a move has one, tokens of two players meet on
\* safe squares only, and the winner alone has brought all tokens home.
\* Snakes and ladders: nobody rests on the foot of a ladder or the head of a
\* snake, and only the winner is on the last square
\* (ludo.service.js:18-38, snakes-ladders.board.js:22-42).
RacesSound ==
  /\ \A t \in TablesOf("ludo") : LudoSound(t)
  /\ \A t \in TablesOf("snakes_ladders") : BoardSound(t)

\* How often a pip is on the tiles played, and at the open ends.
Halves(t, pip) ==
  SumFunctionOnSet([tile \in t.played |->
                      (IF tile[1] = pip THEN 1 ELSE 0) + (IF tile[2] = pip THEN 1 ELSE 0)], t.played)
EndsAt(t, pip) == Cardinality({e \in Ends : t.chain # NoChain /\ t.chain[e] = pip})

\* Every tile is somewhere once, and the chain is a chain.
DominoSound(t) ==
  LET stuck == \A a \in Seats(t) : ~HasAnyLegalMove(t.hands[a], t.chain) IN
  /\ (UNION {t.hands[a] : a \in Seats(t)}) \cup t.boneyard \cup t.played = TileSet
  /\ \A a, b \in Accounts : a # b => t.hands[a] \cap t.hands[b] = {}
  /\ \A a \in Accounts : t.hands[a] \cap (t.boneyard \cup t.played) = {}
  /\ t.boneyard \cap t.played = {}
  /\ \A pip \in 0..MaxPip : (Halves(t, pip) + EndsAt(t, pip)) % 2 = 0
  /\ t.over <=> (\E a \in Seats(t) : t.hands[a] = {}) \/ t.passes = Len(t.players)
  /\ t.over => \/ t.winner # Nobody /\ t.hands[t.winner] = {}
               \/ /\ stuck /\ t.boneyard = {}
                  /\ t.winner = OnlyBest(Seats(t), LAMBDA p, q :
                                  HandPipTotal(t.hands[p]) < HandPipTotal(t.hands[q]))

\* Dominoes: every tile is in one hand, in the boneyard or on the table; the
\* tiles on the table make one chain with the two open ends; who won emptied
\* the hand or, when nobody can move, holds the fewest pips alone
\* (domino.service.js:8-14).
TilesAccounted == \A t \in TablesOf("domino") : DominoSound(t)

\* What all players have scored.
Total(t) == SumFunctionOnSet(t.scores, Seats(t))

\* The queen waits or is covered, and points are for pieces pocketed.
CarromSound(t) ==
  /\ t.pending # Nobody => t.pending = CurrentActor(t) /\ t.pieces > 0
  /\ t.queenPocketed <=> (t.queenCovered \/ t.pending # Nobody)
  /\ Total(t) <= Regular * (StartPieces - t.pieces) + (IF t.queenCovered THEN QueenBonus ELSE 0)
  /\ t.over <=> t.pieces = 0
  /\ t.over => t.winner = OnlyTop(t, LAMBDA a : t.scores[a])

\* Balls on the table or in the score, and who loses on the eight ball.
EightBallSound(t) ==
  /\ \A a \in Seats(t) :
       t.scores[a] = IF t.groups[a] = NoGroup THEN 0
                     ELSE BallsPerGroup - t.remaining[t.groups[a]]
  /\ t.over => Cleared(t, t.winner) \/ ~Cleared(t, OtherPlayer(t, t.winner))

\* Carrom: a queen without cover is held by the player whose turn it is, who
\* has a piece left to cover it with, and nobody scores what was not
\* pocketed.  Eight ball: each group is on the table or in its owner's score,
\* and the eight ball ends the game for one who cleared the group, or against
\* one who did not (carrom.service.js:99-117, eight-ball.service.js:170-188).
PocketsSound ==
  /\ \A t \in TablesOf("carrom") : CarromSound(t)
  /\ \A t \in TablesOf("eight_ball") : EightBallSound(t)

\* Answers where a question was asked, and the scores they give.
QuizSound(t) ==
  /\ \A a \in Seats(t) :
       /\ \A q \in 1..Questions :
            /\ q < t.open \/ t.over => t.answers[q][a] # NoAnswer
            /\ q > t.open => t.answers[q][a] = NoAnswer
       /\ t.scores[a] = SumFunctionOnSet([q \in 1..Questions |->
            IF t.answers[q][a] = NoAnswer THEN 0 ELSE t.answers[q][a]], 1..Questions)
  /\ ~t.over => ~AllAnswered(t)
  /\ t.over => t.winner = OnlyTop(t, LAMBDA p : t.scores[p])

\* Quiz: every player has one answer or a zero for each question that closed
\* and none for one that did not open; the score is the sum of the answers;
\* the open question waits for somebody (quiz.service.js:81-98).
AnswersCounted == \A t \in TablesOf("quiz") : QuizSound(t)

\* The positions of a match: the side that moved is not in check, a right to
\* castle has its king and rook at home, a pawn that can be taken in passing
\* has just passed; a square is attacked exactly when some piece could
\* capture a king on it (chess.board.js:92-101, 289-345).
PositionSound(pos) ==
  /\ \A c \in {"w", "b"} :
       LET kings == KingsOf(pos.board, c) IN
       /\ Cardinality(kings) = 1
       /\ InCheck(pos.board, c) <=>
            \E s \in {x \in DOMAIN pos.board : pos.board[x].color = Opponent(c)} :
               \E mv \in PseudoMoves(pos, s) : mv.to \in kings
       /\ \A r \in Castling(c) : r.right \in pos.castling =>
            r.king \in kings /\ Holds(pos.board, {r.rook}, c, {"r"})
  /\ ~InCheck(pos.board, Opponent(pos.turn))
  /\ pos.enPassant # -1 =>
       LET past == pos.enPassant - 8 * Forward(pos.turn) IN
       /\ pos.board[past] = Piece("p", Opponent(pos.turn))
       /\ {pos.enPassant, pos.enPassant + 8 * Forward(pos.turn)} \cap DOMAIN pos.board = {}

\* The position is new; it stays as it is until the next move.
JustMoved(t) == t.elapsed = 0 /\ t.offer = Nobody

\* A match that goes on can go on, and each result is what the position, the
\* clocks or the players say.
ResultRight(t) ==
  LET side == t.pos.turn
      stuck == IsStuck(t.pos, side)
  IN /\ JustMoved(t) => t.over \/ ~(stuck \/ IsInsufficientMaterial(t.pos.board))
     /\ t.result = "checkmate" =>
          stuck /\ InCheck(t.pos.board, side) /\ t.winner = PlayerOf(t, Opponent(side))
     /\ t.result = "stalemate" => stuck /\ ~InCheck(t.pos.board, side)
     /\ t.result = "timeout" => t.clocks[OnClock(t)] = 0
     /\ t.winner = Nobody /\ t.over =>
          t.result \in {"stalemate", "insufficient_material", "draw_agreement"}

\* Chess: positions are sound, and results are right (chess.service.js:4-11).
ChessSound ==
  \A t \in TablesOf("chess") : (JustMoved(t) => PositionSound(t.pos)) /\ ResultRight(t)

InPlay(m) == tables[m] # NoTable /\ ~tables[m].over /\ matches[m].game \in {"quiz", "chess"}

\* A quiz and a game of chess end, whether anybody plays or not, as long as
\* somebody looks (chess.service.js:20-26, quiz.service.js:100-104).
ClockedGamesEnd == \A m \in MatchIds : InPlay(m) ~> ~InPlay(m)

\* "never fewer, e.g. starting a 2-player Chess lobby solo"
\* (game-match.service.js:170-172).
EnoughPlayers ==
  \A m \in MatchIds : matches[m].state = "active" =>
     Len(matches[m].players) >= Limits[matches[m].game].min

\* "only from lobby, first call wins" (game-match.repository.js:106-107): a
\* match that was cancelled stays cancelled.
CancelledStays ==
  [][\A m \in MatchIds : matches[m].state = "cancelled" => matches'[m] = matches[m]]_matches
=============================
