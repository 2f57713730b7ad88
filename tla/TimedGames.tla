-------- MODULE TimedGames --------
(***************************************************************************)
(* The games whose turns and questions run out of time.                    *)
(*                                                                         *)
(* carrom.service.js and eight-ball.service.js with their boards: a strike *)
(* is a roll of the server that falls in one of four bands.  In carrom a   *)
(* pocketed queen counts only if its player pockets a piece with the next  *)
(* strike.  In eight-ball the groups are given out by the first ball that  *)
(* is potted, and the eight ball wins for a player whose group is cleared  *)
(* and loses for anybody else.                                             *)
(*                                                                         *)
(* quiz.service.js: every player answers each question once, the faster    *)
(* the better; a question closes when all have answered or its time is up. *)
(* An answer is right or wrong; which choice is right is left out.         *)
(***************************************************************************)
EXTENDS GameMatches, Integers

CONSTANT StartPieces   \* START_REGULAR_PIECES (18)

ASSUME PiecesPositive == StartPieces \in Nat \ {0}

Regular == 10
QueenBonus == 50
FoulPenalty == 5

\* The band a roll falls in.
CarromOutcome(roll) ==
  CASE roll <= 15 -> "foul"
    [] roll \in 16..40 -> "miss"
    [] roll \in 41..85 -> "pocket"
    [] OTHER -> "queen"

FreshCarrom(m) ==
  [game |-> "carrom", players |-> matches[m].players, turn |-> 1, elapsed |-> 0,
   scores |-> [a \in Accounts |-> 0], pieces |-> StartPieces,
   queenPocketed |-> FALSE, queenCovered |-> FALSE, pending |-> Nobody,
   over |-> FALSE, winner |-> Nobody]

PassTurn(t) == [t EXCEPT !.turn = NextTurn(t), !.elapsed = 0]
KeepTurn(t) == [t EXCEPT !.elapsed = 0]

\* Mutant: the queen stays pocketed when its cover failed.
ForgetPendingQueen(t) ==
  IF t.pending = CurrentActor(t) THEN [t EXCEPT !.pending = Nobody] ELSE t

RevertPendingQueen(t) ==
  IF t.pending = CurrentActor(t) THEN [t EXCEPT !.queenPocketed = FALSE, !.pending = Nobody]
  ELSE t

CarromEnd(t) == t.pieces = 0 /\ t.pending = Nobody

CarromWinner(t) ==
  LET More(p, q) == t.scores[p] > t.scores[q]
  IN OnlyBest({t.players[i] : i \in 1..Len(t.players)}, More)

\* The game ends, or it goes on with the table next.
Settle(h, m, t, next) ==
  IF CarromEnd(t) THEN EndGame(h, m, t, CarromWinner(t)) ELSE Keep(m, next)

\* _tick: a turn whose time is up is forfeited.
Forfeit(h, m, t) == LET u == RevertPendingQueen(t) IN Settle(h, m, u, PassTurn(u))

\* A queen that is gone falls back to a piece, a piece that is gone to a miss.
Effective(t, outcome) ==
  LET o == IF outcome = "queen" /\ t.queenPocketed THEN "pocket" ELSE outcome
  IN IF o = "pocket" /\ t.pieces = 0 THEN "miss" ELSE o

Struck(t, a, outcome) ==
  CASE outcome = "foul" ->
         RevertPendingQueen([t EXCEPT !.scores[a] = IF @ < FoulPenalty THEN 0 ELSE @ - FoulPenalty])
    [] outcome = "miss" -> RevertPendingQueen(t)
    [] outcome = "pocket" ->
         IF t.pending = a
         THEN [t EXCEPT !.pieces = @ - 1, !.scores[a] = @ + Regular + QueenBonus,
                        !.queenCovered = TRUE, !.pending = Nobody]
         ELSE [t EXCEPT !.pieces = @ - 1, !.scores[a] = @ + Regular]
    [] outcome = "queen" -> [t EXCEPT !.queenPocketed = TRUE, !.pending = a]

StrikeCarrom(h, m, a, roll) ==
  LET t == Table(m, FreshCarrom(m))
      outcome == Effective(t, CarromOutcome(roll))
      u == Struck(t, a, outcome)
  IN /\ Active(m, "carrom")
     /\ ~t.over /\ ~TimeUp(t, Duration) /\ CurrentActor(t) = a
     /\ Settle(h, m, u, IF outcome \in {"foul", "miss"} THEN PassTurn(u) ELSE KeepTurn(u))

\* A request that finds the time up: getState, or a strike before anything else.
LookAtCarrom(h, m) ==
  LET t == Table(m, FreshCarrom(m)) IN
  /\ Served(m, "carrom")
  /\ IF ~t.over /\ TimeUp(t, Duration) THEN Forfeit(h, m, t)
     ELSE tables[m] = NoTable /\ Keep(m, t)

CarromStep(h, m) ==
  \/ \E a \in Accounts, roll \in Rolls : StrikeCarrom(h, m, a, roll)
  \/ LookAtCarrom(h, m)
-----------------------------

CONSTANT BallsPerGroup   \* 7

ASSUME BallsPositive == BallsPerGroup \in Nat \ {0}

EightOutcome(roll) ==
  CASE roll <= 15 -> "foul"
    [] roll \in 16..40 -> "miss"
    [] roll \in 41..90 -> "pot"
    [] OTHER -> "pot_eight"

NoGroup == "none"

\* No table unless there are two players (status 400).
FreshEightBall(m) ==
  [game |-> "eight_ball", players |-> matches[m].players, turn |-> 1, elapsed |-> 0,
   groups |-> [a \in Accounts |-> NoGroup],
   remaining |-> [g \in {"solids", "stripes"} |-> BallsPerGroup],
   scores |-> [a \in Accounts |-> 0], over |-> FALSE, winner |-> Nobody]

OtherPlayer(t, a) == IF t.players[1] = a THEN t.players[2] ELSE t.players[1]

NextShooter(t) == [t EXCEPT !.turn = NextTurn(t), !.elapsed = 0]

AssignGroups(t, a) ==
  IF t.groups[a] # NoGroup THEN t
  ELSE [t EXCEPT !.groups[a] = "solids", !.groups[OtherPlayer(t, a)] = "stripes"]

Cleared(t, a) == t.groups[a] # NoGroup /\ t.remaining[t.groups[a]] = 0

PotEight(h, m, t, a) == EndGame(h, m, t, IF Cleared(t, a) THEN a ELSE OtherPlayer(t, a))

\* Mutant: a ball of a group that is cleared is potted again.
PotAnyway(h, m, t, a) ==
  LET u == AssignGroups(t, a) IN
  Keep(m, [u EXCEPT !.remaining[u.groups[a]] = @ - 1, !.scores[a] = @ + 1, !.elapsed = 0])

\* A group that is cleared has no ball left: the eight ball is potted.
Pot(h, m, t, a) ==
  LET u == AssignGroups(t, a) IN
  IF Cleared(u, a) THEN PotEight(h, m, u, a)
  ELSE Keep(m, [u EXCEPT !.remaining[u.groups[a]] = @ - 1, !.scores[a] = @ + 1, !.elapsed = 0])

Seated(m, g) == Len(matches[m].players) = 2 /\ Served(m, g)

StrikeEightBall(h, m, a, roll) ==
  LET t == Table(m, FreshEightBall(m))
      outcome == EightOutcome(roll)
  IN /\ Active(m, "eight_ball") /\ Seated(m, "eight_ball")
     /\ ~t.over /\ ~TimeUp(t, Duration) /\ CurrentActor(t) = a
     /\ \/ outcome \in {"foul", "miss"} /\ Keep(m, NextShooter(t))
        \/ outcome = "pot" /\ Pot(h, m, t, a)
        \/ outcome = "pot_eight" /\ PotEight(h, m, t, a)

\* A request that finds the time up: the turn is forfeited.
LookAtEightBall(m) ==
  LET t == Table(m, FreshEightBall(m)) IN
  /\ Seated(m, "eight_ball")
  /\ \/ ~t.over /\ TimeUp(t, Duration) /\ Keep(m, NextShooter(t))
     \/ tables[m] = NoTable /\ Keep(m, t)

EightBallStep(h, m) ==
  \/ \E a \in Accounts, roll \in Rolls : StrikeEightBall(h, m, a, roll)
  \/ LookAtEightBall(m)
-----------------------------
CONSTANT Questions   \* questions of a match (5)

ASSUME QuestionsPositive == Questions \in Nat \ {0}

CorrectBaseScore == 100
SpeedBonusMax == 50
NoAnswer == -1

FreshQuiz(m) ==
  [game |-> "quiz", players |-> matches[m].players, open |-> 1, elapsed |-> 0,
   answers |-> [q \in 1..Questions |-> [a \in Accounts |-> NoAnswer]],
   scores |-> [a \in Accounts |-> 0], over |-> FALSE, winner |-> Nobody]

Contestants(t) == {t.players[i] : i \in 1..Len(t.players)}

\* Math.round of the bonus for the time that is left.
ScoreFor(right, elapsed) ==
  IF ~right THEN 0
  ELSE CorrectBaseScore + (2 * SpeedBonusMax * (Duration - elapsed) + Duration) \div (2 * Duration)

AllAnswered(t) == \A p \in Contestants(t) : t.answers[t.open][p] # NoAnswer

Closes(t) == AllAnswered(t) \/ TimeUp(t, Duration)

\* Whoever did not answer gets a zero.
Closed(t) ==
  [t EXCEPT !.answers[t.open] = [p \in Accounts |->
     IF p \in Contestants(t) /\ @[p] = NoAnswer THEN 0 ELSE @[p]]]

QuizWinner(t) ==
  LET More(p, q) == t.scores[p] > t.scores[q] IN OnlyBest(Contestants(t), More)

\* _finalizeCurrentAndAdvance
FinalizeAndAdvance(h, m, t) ==
  IF t.open = Questions THEN EndGame(h, m, Closed(t), QuizWinner(t))
  ELSE Keep(m, [Closed(t) EXCEPT !.open = @ + 1, !.elapsed = 0])

\* Mutant: an answer replaces the one given before.
AnswerAgain(t, a) == t.answers[t.open][a] = NoAnswer \/ t.elapsed = 0

FirstAnswer(t, a) == t.answers[t.open][a] = NoAnswer

SubmitAnswer(h, m, a, right) ==
  LET t == Table(m, FreshQuiz(m))
      score == ScoreFor(right, t.elapsed)
      u == [t EXCEPT !.answers[t.open][a] = score, !.scores[a] = @ + score]
  IN /\ Active(m, "quiz")
     /\ ~t.over /\ ~TimeUp(t, Duration)
     /\ a \in Contestants(t)
     /\ FirstAnswer(t, a)
     /\ IF Closes(u) THEN FinalizeAndAdvance(h, m, u) ELSE Keep(m, u)

\* A request that finds the time up closes the question first.
LookAtQuiz(h, m) ==
  LET t == Table(m, FreshQuiz(m)) IN
  /\ Served(m, "quiz")
  /\ IF ~t.over /\ TimeUp(t, Duration) THEN FinalizeAndAdvance(h, m, t)
     ELSE tables[m] = NoTable /\ Keep(m, t)

QuizStep(h, m) ==
  \/ \E a \in Accounts, right \in BOOLEAN : SubmitAnswer(h, m, a, right)
  \/ LookAtQuiz(h, m)
=============================
