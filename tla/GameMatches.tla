-------- MODULE GameMatches --------
(***************************************************************************)
(* game-match.service.js and PostgresGameMatchRepository: the lobby of a   *)
(* room's games.  A request reads the row, decides on what it read, and    *)
(* then runs an UPDATE that names the state it expects.  What is played is *)
(* kept by the engine of the game in a Map of the server process (tables): *)
(* it is built when somebody first looks at a started match, and is gone   *)
(* after a restart.                                                        *)
(***************************************************************************)
EXTENDS AccountIds, RequestHandlers, Sequences, FiniteSets

CONSTANTS MatchIds,
          Limits,        \* game -> its minPlayers and maxPlayers
          RoomMembers,   \* accounts isRoomMember lets through
          Nobody,        \* winner_id NULL
          MaxRestarts,   \* bound: restarts of the server in a run
          Faces,         \* faces of the die the server rolls (1 to 6)
          Rolls          \* rolls, 1 to 100, of a strike the server rolls

ASSUME NobodyPlays == Nobody \notin Accounts
ASSUME MatchesAreIds == MatchIds \subseteq Ids
ASSUME LimitsAreCounts ==
  \A g \in DOMAIN Limits : Limits[g].min \in Nat \ {0} /\ Limits[g].max \in Nat \ {0}
ASSUME FacesAreNumbers == Faces \subseteq Nat \ {0}
ASSUME RestartsBounded == MaxRestarts \in Nat

VARIABLES matches,   \* the table game_matches
          tables,    \* match -> the state its engine keeps
          restarts

matchVars == <<handlerVars, matches, tables, restarts>>

NoMatch == [state |-> "none", host |-> Nobody, players |-> <<>>, winner |-> Nobody]
NoTable == [over |-> FALSE, winner |-> Nobody]

MatchesInit ==
  /\ matches = [m \in MatchIds |-> NoMatch]
  /\ tables = [m \in MatchIds |-> NoTable]
  /\ restarts = 0

Plays(m, a) == \E i \in 1..Len(matches[m].players) : matches[m].players[i] = a
Without(s, a) ==
  LET kept[n \in 0..Len(s)] ==
        IF n = 0 THEN <<>> ELSE IF s[n] = a THEN kept[n - 1] ELSE Append(kept[n - 1], s[n])
  IN kept[Len(s)]

\* POST /api/games: the caller sits first, before whom the caller names.
CreateMatch(a, g, others) ==
  LET players == <<a>> \o others IN
  /\ a \in RoomMembers
  /\ Len(players) <= Limits[g].max
  /\ accepted < MaxRequests
  /\ accepted' = accepted + 1
  /\ \E m \in MatchIds \ issued :
        /\ issued' = issued \cup {m}
        /\ matches' = [matches EXCEPT ![m] =
             [state |-> "lobby", game |-> g, host |-> a, players |-> players, winner |-> Nobody]]
  /\ UNCHANGED <<job, dropped, time, notices, tables, restarts>>

\* A request that found the match in its lobby and goes on to statement at.
FromLobby(h, op, a, m) ==
  /\ matches[m].state = "lobby"
  /\ Accept(h, [op |-> op, at |-> "update", key |-> m, who |-> a])
  /\ UNCHANGED <<issued, matches, tables, restarts>>

StartJoin(h, a, m) ==
  /\ a \in RoomMembers
  /\ ~Plays(m, a)
  /\ FromLobby(h, "join", a, m)
  /\ Len(matches[m].players) < Limits[matches[m].game].max

\* The host who leaves withdraws the match.
StartLeave(h, a, m) ==
  /\ Plays(m, a)
  /\ FromLobby(h, IF a = matches[m].host THEN "cancel" ELSE "leave", a, m)

StartCancel(h, a, m) ==
  /\ a = matches[m].host
  /\ FromLobby(h, "cancel", a, m)

StartStart(h, a, m) ==
  /\ a = matches[m].host
  /\ FromLobby(h, "start", a, m)
  /\ Len(matches[m].players) >= Limits[matches[m].game].min

\* Mutant: an UPDATE that does not name the state.
SetRowAnyway(m, row) == matches' = [matches EXCEPT ![m] = row]

\* UPDATE game_matches ... WHERE id = m AND state = 'lobby'.
SetRow(m, row) ==
  matches' = IF matches[m].state = "lobby" THEN [matches EXCEPT ![m] = row] ELSE matches

AddPlayer(h) ==
  LET m == job[h].key IN
  /\ Doing(h, "join", "update")
  /\ SetRow(m, [matches[m] EXCEPT !.players =
                  IF Plays(m, job[h].who) THEN @ ELSE Append(@, job[h].who)])
  /\ Finish(h)

RemovePlayer(h) ==
  LET m == job[h].key IN
  /\ Doing(h, "leave", "update")
  /\ SetRow(m, [matches[m] EXCEPT !.players = Without(@, job[h].who)])
  /\ Finish(h)

CancelRow(h) ==
  LET m == job[h].key IN
  /\ Doing(h, "cancel", "update")
  /\ SetRow(m, [matches[m] EXCEPT !.state = "cancelled"])
  /\ Finish(h)

StartRow(h) ==
  LET m == job[h].key IN
  /\ Doing(h, "start", "update")
  /\ SetRow(m, [matches[m] EXCEPT !.state = "active"])
  /\ Finish(h)

\* Mutant: the last result overwrites the first.
FinishRowAnyway(h) ==
  LET m == job[h].key IN
  /\ Doing(h, "finish", "update")
  /\ matches' = [matches EXCEPT ![m].state = "finished", ![m].winner = job[h].winner]
  /\ Finish(h)

\* finishMatch, called by an engine: the winner must play in the match, and
\* UPDATE ... WHERE state <> 'finished' keeps the first result.
FinishRow(h) ==
  LET m == job[h].key IN
  /\ Doing(h, "finish", "update")
  /\ matches' = IF matches[m].state = "finished"
                     \/ (job[h].winner # Nobody /\ ~Plays(m, job[h].winner))
                THEN matches
                ELSE [matches EXCEPT ![m].state = "finished", ![m].winner = job[h].winner]
  /\ Finish(h)

MatchStep(h) ==
  /\ AddPlayer(h) \/ RemovePlayer(h) \/ CancelRow(h) \/ StartRow(h) \/ FinishRow(h)
  /\ UNCHANGED <<tables, restarts>>

MatchRequest(h) ==
  \E a \in Accounts, m \in MatchIds :
     StartJoin(h, a, m) \/ StartLeave(h, a, m) \/ StartCancel(h, a, m) \/ StartStart(h, a, m)
-----------------------------
(***************************************************************************)
(* What the engines share.  After the row of the match was read an engine  *)
(* runs to its end without a pause, except that it waits for finishMatch.  *)
(***************************************************************************)

\* The engine of g serves the match: it was started, or is past that.
Served(m, g) == matches[m].state \notin {"none", "lobby"} /\ matches[m].game = g
Active(m, g) == matches[m].state = "active" /\ matches[m].game = g

\* _getOrInitState.
Table(m, fresh) == IF tables[m] = NoTable THEN fresh ELSE tables[m]

CurrentActor(t) == t.players[t.turn]
NextTurn(t) == (t.turn % Len(t.players)) + 1

Keep(m, t) ==
  /\ tables' = [tables EXCEPT ![m] = t]
  /\ UNCHANGED <<handlerVars, matches, restarts>>

\* The engine ends its game and calls finishMatch.
EndGame(h, m, t, winner) ==
  /\ job[h] = Idle
  /\ tables' = [tables EXCEPT ![m] = [t EXCEPT !.over = TRUE, !.winner = winner]]
  /\ job' = [job EXCEPT ![h] = [op |-> "finish", at |-> "update", key |-> m, winner |-> winner]]
  /\ UNCHANGED <<accepted, issued, dropped, time, notices, matches, restarts>>

\* The only account of players with the highest (or lowest) score, if any.
OnlyBest(players, Beats(_, _)) ==
  LET best == {p \in players : \A q \in players : ~Beats(q, p)}
  IN IF Cardinality(best) = 1 THEN CHOOSE p \in best : TRUE ELSE Nobody

\* The server stops and starts again: the Maps are gone, the rows stay.
Restart ==
  /\ restarts < MaxRestarts
  /\ restarts' = restarts + 1
  /\ tables' = [m \in MatchIds |-> NoTable]
  /\ dropped' = dropped \cup {job[h].key : h \in {g \in Handlers : job[g] # Idle}}
  /\ job' = [h \in Handlers |-> Idle]
  /\ UNCHANGED <<accepted, issued, time, notices, matches>>
-----------------------------
\* Time, where it counts.  The engines set no timer: they note when the turn,
\* the question or the move began, and every request first brings the game up
\* to the clock.  A table holds the time that passed since (elapsed).
CONSTANT Duration   \* of a turn, of a question, and of a player's whole clock

ASSUME DurationPositive == Duration \in Nat \ {0}

TimeUp(t, limit) == t.elapsed >= limit

\* Time passes at the table of m.
ClockAdvances(m, limit) ==
  /\ tables[m] # NoTable
  /\ ~tables[m].over
  /\ tables[m].elapsed < limit
  /\ Keep(m, [tables[m] EXCEPT !.elapsed = @ + 1])
=============================
