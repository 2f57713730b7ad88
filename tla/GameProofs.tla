-------- MODULE GameProofs --------
(***************************************************************************)
(* Proofs about the room game center (Games): the lobby keeps the promises *)
(* of MatchContract, the result of a match is the one its engine came to,  *)
(* and the table of each engine is fair (Fair) whatever is played at it.   *)
(* GamesSound, the invariant that is inductive, has four parts: the rows   *)
(* and requests of the lobby, the tables, the results that are on their    *)
(* way, and the results that were recorded.  A step of an engine leaves a  *)
(* fair table, and a result on its way when that was the end (PlayMove);   *)
(* there is one lemma for that per engine.                                 *)
(***************************************************************************)
EXTENDS Games, SumProofs

\* What is there at the start and stays there from one number to the next is
\* there at each.
LEMMA Counting ==
  ASSUME NEW n \in Nat, NEW C, 0 \in C, \A k \in 0..n : k \in C /\ k + 1 <= n => k + 1 \in C
  PROVE  n \in C
<1> SUFFICES ASSUME n \notin C PROVE FALSE OBVIOUS
<1> DEFINE Bad == {0..k : k \in {i \in 0..n : i \notin C}}
<1>1. PICK D : D = 0..n /\ IsFiniteSet(D) BY FS_Interval
<1>2. Bad \subseteq SUBSET D /\ Bad # {} BY <1>1
<1>3. PICK T \in Bad : \A U \in Bad : U \subseteq T => U = T
 <2>1. IsFiniteSet(D) BY <1>1
 <2> HIDE DEF Bad
 <2> QED BY <1>2, <2>1, MinimalSet
<1>4. PICK k \in 0..n : k \notin C /\ T = 0..k BY <1>3
<1>5. k # 0 /\ k - 1 \in 0..n /\ k - 1 \notin C BY <1>4
<1>6. 0..(k - 1) \in Bad /\ 0..(k - 1) \subseteq T /\ 0..(k - 1) # T
 <2>1. k \in T /\ k \notin 0..(k - 1) BY <1>4, <1>5
 <2> QED BY <1>4, <1>5, <2>1
<1> QED BY <1>3, <1>6
-----------------------------
\* f[n] is what the first n entries of s are without a.
Keeps(f, s, a, n) ==
  f = [k \in 0..n |-> IF k = 0 THEN <<>> ELSE IF s[k] = a THEN f[k - 1] ELSE Append(f[k - 1], s[k])]

\* There is such a function.
LEMMA KeepsSome ==
  ASSUME NEW s, NEW a, NEW n \in Nat
  PROVE  \E f : Keeps(f, s, a, n)
<1> DEFINE C == {k \in 0..n : \E f : Keeps(f, s, a, k)}
<1>1. 0 \in C
 <2> DEFINE f == [k \in 0..0 |-> <<>>]
 <2>1. Keeps(f, s, a, 0) BY DEF Keeps
 <2> QED BY <2>1
<1>2. ASSUME NEW k \in 0..n, k \in C, k + 1 <= n
      PROVE  k + 1 \in C
 <2>1. PICK f : Keeps(f, s, a, k) BY <1>2
 <2> DEFINE g == [i \in 0..k + 1 |->
                    IF i = k + 1 THEN IF s[k + 1] = a THEN f[k] ELSE Append(f[k], s[k + 1])
                                     ELSE f[i]]
 <2>2. \A i \in 0..k : f[i] = IF i = 0 THEN <<>> ELSE IF s[i] = a THEN f[i - 1] ELSE Append(f[i - 1], s[i])
   BY <2>1 DEF Keeps
 <2>3. \A i \in 0..k + 1 :
         g[i] = IF i = 0 THEN <<>> ELSE IF s[i] = a THEN g[i - 1] ELSE Append(g[i - 1], s[i])
  <3>1. ASSUME NEW i \in 0..k
        PROVE  g[i] = f[i] /\ (i # 0 => g[i - 1] = f[i - 1])
    OBVIOUS
  <3>2. g[k + 1] = IF s[k + 1] = a THEN g[k] ELSE Append(g[k], s[k + 1]) OBVIOUS
  <3> HIDE DEF g
  <3>3. ASSUME NEW i \in 0..k + 1
        PROVE  g[i] = IF i = 0 THEN <<>> ELSE IF s[i] = a THEN g[i - 1] ELSE Append(g[i - 1], s[i])
   <4>1. CASE i = k + 1 BY <3>2, <4>1
   <4>2. CASE i \in 0..k BY <2>2, <3>1, <4>2
   <4> QED BY <4>1, <4>2
  <3> QED BY <3>3
 <2>4. g = [i \in 0..k + 1 |-> g[i]] OBVIOUS
 <2> HIDE DEF g
 <2>5. Keeps(g, s, a, k + 1) BY <2>3, <2>4 DEF Keeps
 <2> QED BY <1>2, <2>5
<1> HIDE DEF C
<1>3. n \in C BY <1>1, <1>2, Counting
<1> QED BY <1>3 DEF C

\* Who is left without a: the same in the same order, each once if it was
\* so, and the first if it was not a.
LEMMA WithoutKeeps ==
  ASSUME NEW S, NEW s \in Seq(S), NEW a
  PROVE  /\ Without(s, a) \in Seq(S)
         /\ NamedOnce(s) => NamedOnce(Without(s, a))
         /\ s # <<>> /\ s[1] # a => Without(s, a) # <<>> /\ Without(s, a)[1] = s[1]
<1> DEFINE f == CHOOSE kept : Keeps(kept, s, a, Len(s))
<1>1. Without(s, a) = f[Len(s)] BY DEF Without, Keeps
<1>2. Keeps(f, s, a, Len(s)) BY KeepsSome
<1> HIDE DEF f
<1>3. \A n \in 0..Len(s) :
        f[n] = IF n = 0 THEN <<>> ELSE IF s[n] = a THEN f[n - 1] ELSE Append(f[n - 1], s[n])
  BY <1>2 DEF Keeps
<1> DEFINE Fine(n) ==
             /\ f[n] \in Seq(S)
             /\ \A i \in 1..Len(f[n]) : \E k \in 1..n : f[n][i] = s[k]
             /\ NamedOnce(s) => NamedOnce(f[n])
             /\ n # 0 /\ s[1] # a => f[n] # <<>> /\ f[n][1] = s[1]
           C == {n \in 0..Len(s) : Fine(n)}
<1>4. 0 \in C
 <2>1. f[0] = <<>> /\ 0 \in 0..Len(s) BY <1>3
 <2>2. <<>> \in Seq(S) /\ Len(<<>>) = 0 /\ NamedOnce(<<>>) BY DEF NamedOnce
 <2>3. Fine(0) BY <2>1, <2>2
 <2> QED BY <2>1, <2>3
<1>5. ASSUME NEW n \in 0..Len(s), n \in C, n + 1 <= Len(s)
      PROVE  n + 1 \in C
 <2>1. PICK p, q : p = f[n] /\ q = f[n + 1] OBVIOUS
 <2>2. q = IF s[n + 1] = a THEN p ELSE Append(p, s[n + 1]) BY <1>3, <1>5, <2>1
 <2>3. /\ p \in Seq(S)
       /\ \A i \in 1..Len(p) : \E k \in 1..n : p[i] = s[k]
       /\ NamedOnce(s) => NamedOnce(p)
       /\ n # 0 /\ s[1] # a => p # <<>> /\ p[1] = s[1]
       /\ n = 0 => p = <<>>
   BY <1>3, <1>5, <2>1
 <2>4. n + 1 \in 1..Len(s) /\ s[n + 1] \in S BY <1>5
 <2>5. CASE s[n + 1] = a
  <3>1. q = p BY <2>2, <2>5
  <3>2. \A i \in 1..Len(q) : \E k \in 1..n + 1 : q[i] = s[k] BY <2>3, <2>4, <3>1
  <3>3. s[1] # a => q # <<>> /\ q[1] = s[1] BY <2>3, <2>5, <3>1
  <3>4. q \in Seq(S) /\ (NamedOnce(s) => NamedOnce(q)) BY <2>3, <3>1
  <3>5. n + 1 \in 0..Len(s) /\ f[n + 1] = q BY <2>1, <2>4
  <3> QED BY <3>2, <3>3, <3>4, <3>5
 <2>6. CASE s[n + 1] # a
  <3>1. q \in Seq(S) /\ Len(q) = Len(p) + 1 /\ q[Len(q)] = s[n + 1]
        /\ \A i \in 1..Len(p) : q[i] = p[i]
    BY <2>2, <2>3, <2>4, <2>6
  <3>2. \A i \in 1..Len(q) : \E k \in 1..n + 1 : q[i] = s[k] BY <2>3, <2>4, <3>1
  <3>3. ASSUME NamedOnce(s) PROVE NamedOnce(q)
   <4>1. \A i \in 1..Len(p) : p[i] # s[n + 1] BY <2>3, <2>4, <3>3 DEF NamedOnce
   <4>2. \A i, k \in 1..Len(p) : i # k => p[i] # p[k] BY <2>3, <3>3 DEF NamedOnce
   <4>3. ASSUME NEW i \in 1..Len(q), NEW k \in 1..Len(q), i # k
         PROVE  q[i] # q[k]
    <5>1. Len(p) \in Nat /\ Len(q) = Len(p) + 1 BY <2>3, <3>1
    <5>2. CASE i = Len(q) BY <3>1, <4>1, <4>3, <5>1, <5>2
    <5>3. CASE k = Len(q) BY <3>1, <4>1, <4>3, <5>1, <5>3
    <5>4. CASE i # Len(q) /\ k # Len(q) BY <3>1, <4>2, <4>3, <5>1, <5>4
    <5> QED BY <5>2, <5>3, <5>4
   <4> QED BY <4>3 DEF NamedOnce
  <3>4. s[1] # a => q # <<>> /\ q[1] = s[1] BY <2>3, <3>1
  <3> QED BY <2>1, <2>4, <3>1, <3>2, <3>3, <3>4
 <2> QED BY <2>5, <2>6
<1>6. Len(s) \in C
 <2> HIDE DEF C
 <2>1. Len(s) \in Nat OBVIOUS
 <2> QED BY <1>4, <1>5, <2>1, Counting
<1>7. s # <<>> => Len(s) # 0 OBVIOUS
<1> QED BY <1>1, <1>6, <1>7
-----------------------------
\* Requests that run an UPDATE of the lobby, and the ones of finishMatch.
LobbyJob == [op : {"join", "leave", "cancel", "start"}, at : {"update"}, key : MatchIds, who : Accounts]
FinishJob == [op : {"finish"}, at : {"update"}, key : MatchIds, winner : Accounts \cup {Nobody}]

\* A row of game_matches: the host sits first, and nobody sits twice.
MatchRow ==
  [state : {"lobby", "active", "cancelled", "finished"}, game : DOMAIN Limits, host : Accounts,
   players : Seq(Accounts), winner : Accounts \cup {Nobody}]
FairRow(row) ==
  row \in MatchRow /\ row.players # <<>> /\ row.players[1] = row.host /\ NamedOnce(row.players)

\* What requests carry, and that the host does not leave.
JobsTyped ==
  /\ job \in [Handlers -> {Idle} \cup LobbyJob \cup FinishJob]
  /\ \A h \in Handlers : job[h].op = "leave" =>
       matches[job[h].key] # NoMatch /\ job[h].who # matches[job[h].key].host

\* Every row is there, or is fair and was issued an id.
RowsTyped ==
  /\ matches = [m \in MatchIds |-> matches[m]]
  /\ \A m \in MatchIds : matches[m] = NoMatch \/ (FairRow(matches[m]) /\ m \in issued)

\* The rows and the requests of the lobby.
LobbyTyped == JobsTyped /\ RowsTyped /\ restarts \in 0..MaxRestarts

\* At first there are no matches.
LEMMA LobbyInit == GamesInit => LobbyTyped
  BY RestartsBounded DEF GamesInit, HandlersInit, MatchesInit, LobbyTyped, JobsTyped, RowsTyped, Idle

\* A row that is there is one.
LEMMA RowThere ==
  ASSUME RowsTyped, NEW m \in MatchIds, matches[m].state # "none"
  PROVE  FairRow(matches[m]) /\ matches[m] # NoMatch
  BY DEF RowsTyped, NoMatch

\* A match that is served has a row, past the lobby.
LEMMA RowLike ==
  ASSUME NEW row, FairRow(row)
  PROVE  row # NoMatch /\ row.state # "none"
  BY DEF FairRow, MatchRow, NoMatch

\* How one row may change: opened, joined, left, out of the lobby, finished.
Sits(row, a) == \E i \in 1..Len(row.players) : row.players[i] = a

RowMove(old, new) ==
  /\ FairRow(new)
  /\ \/ old = NoMatch /\ new.state = "lobby" /\ new.winner = Nobody
     \/ /\ old # NoMatch /\ new.host = old.host /\ new.game = old.game
        /\ \/ /\ old.state = "lobby" /\ new.state = "lobby" /\ new.winner = old.winner
              /\ \/ \E a \in Accounts : ~Sits(old, a) /\ new.players = Append(old.players, a)
                 \/ \E a \in Accounts : a # old.players[1] /\ new.players = Without(old.players, a)
           \/ /\ old.state = "lobby" /\ new.state \in {"active", "cancelled"}
              /\ new.players = old.players /\ new.winner = old.winner
           \/ /\ old.state \in {"active", "cancelled"} /\ new.state = "finished"
              /\ new.players = old.players
              /\ new.winner = Nobody \/ Sits(old, new.winner)

\* One row moves, or none.
RowMoves ==
  \/ matches' = matches
  \/ \E m \in MatchIds : \E new :
        RowMove(matches[m], new) /\ matches' = [matches EXCEPT ![m] = new]

\* Such a change is one the contract allows.
LEMMA MoveKeepsContract ==
  ASSUME RowsTyped, RowMoves
  PROVE  [Contract!Next]_(Contract!contractVars)
<1> DEFINE roster == [m \in MatchIds |-> matches[m].players]
           phase == [m \in MatchIds |-> matches[m].state]
           result == [m \in MatchIds |-> matches[m].winner]
<1>1. CASE matches' = matches BY <1>1 DEF Contract!contractVars
<1>2. ASSUME NEW m \in MatchIds, NEW new, RowMove(matches[m], new),
             matches' = [matches EXCEPT ![m] = new]
      PROVE  Contract!Next
 <2>1. /\ matches = [n \in MatchIds |-> matches[n]]
       /\ matches'[m] = new /\ \A n \in MatchIds \ {m} : matches'[n] = matches[n]
   BY <1>2 DEF RowsTyped
 <2>2. /\ roster' = [roster EXCEPT ![m] = new.players] /\ roster'[m] = new.players
       /\ phase' = [phase EXCEPT ![m] = new.state]
       /\ result' = [result EXCEPT ![m] = new.winner] /\ result'[m] = new.winner
   BY <2>1
 <2>3. roster[m] = matches[m].players /\ phase[m] = matches[m].state /\ result[m] = matches[m].winner
   OBVIOUS
 <2>4. /\ new.players = roster[m] => roster' = roster
       /\ new.winner = result[m] => result' = result
       /\ new.state = phase[m] => phase' = phase
   BY <2>1
 <2>5. new.players \in Seq(Accounts) \ {<<>>} BY <1>2 DEF RowMove, FairRow, MatchRow
 <2> HIDE DEF roster, phase, result
 <2>6. CASE matches[m] = NoMatch /\ new.state = "lobby" /\ new.winner = Nobody
  <3>1. phase[m] = "none" /\ phase' = [phase EXCEPT ![m] = "lobby"] /\ result' = result
    BY <2>2, <2>3, <2>4, <2>6 DEF NoMatch
  <3>2. roster'[m] \in Seq(Accounts) \ {<<>>} /\ roster' = [roster EXCEPT ![m] = roster'[m]] BY <2>2, <2>5
  <3>3. Contract!Open(m) BY <3>1, <3>2 DEF Contract!Open, roster, phase, result
  <3> QED BY <3>3 DEF Contract!Next
 <2>7. ASSUME matches[m].state = "lobby", new.state = "lobby", new.winner = matches[m].winner,
              NEW a \in Accounts, ~Sits(matches[m], a), new.players = Append(matches[m].players, a)
       PROVE  Contract!Next
  <3>1. Contract!Sit(m, a)
    BY <2>2, <2>3, <2>4, <2>7 DEF Contract!Sit, Contract!Sits, Sits, roster, phase, result
  <3> QED BY <3>1 DEF Contract!Next
 <2>8. ASSUME matches[m].state = "lobby", new.state = "lobby", new.winner = matches[m].winner,
              NEW a \in Accounts, a # matches[m].players[1], new.players = Without(matches[m].players, a)
       PROVE  Contract!Next
  <3>1. Contract!Others(matches[m].players, a) = Without(matches[m].players, a)
    BY DEF Contract!Others, Without
  <3>2. Contract!Rise(m, a) BY <2>2, <2>3, <2>4, <2>8, <3>1 DEF Contract!Rise, roster, phase, result
  <3> QED BY <3>2 DEF Contract!Next
 <2>9. CASE /\ matches[m].state = "lobby" /\ new.state \in {"active", "cancelled"}
            /\ new.players = matches[m].players /\ new.winner = matches[m].winner
  <3>1. Contract!Leave(m) BY <2>2, <2>3, <2>4, <2>9 DEF Contract!Leave, roster, phase, result
  <3> QED BY <3>1 DEF Contract!Next
 <2>10. CASE /\ matches[m].state \in {"active", "cancelled"} /\ new.state = "finished"
             /\ new.players = matches[m].players
             /\ new.winner = Nobody \/ Sits(matches[m], new.winner)
  <3>1. Contract!Conclude(m)
    BY <2>2, <2>3, <2>4, <2>10 DEF Contract!Conclude, Contract!Sits, Sits, roster, phase, result
  <3> QED BY <3>1 DEF Contract!Next
 <2> QED BY <1>2, <2>6, <2>7, <2>8, <2>9, <2>10 DEF RowMove
<1> QED BY <1>1, <1>2 DEF RowMoves
-----------------------------
(* What a table of each engine keeps. *)

\* Who plays, and that there is no winner before the game is over.
Seating(t) ==
  /\ t.players # <<>> /\ NamedOnce(t.players)
  /\ t.winner \in Seats(t) \cup {Nobody}
  /\ ~t.over => t.winner = Nobody

\* Also whose turn it is.
Turns(t) == Seating(t) /\ t.turn \in 1..Len(t.players)

\* Who can have won.
Winners == Accounts \cup {Nobody}

\* Snakes and ladders.
BoardTable ==
  [game : {"snakes_ladders"}, players : Seq(Accounts), turn : Nat,
   positions : [Accounts -> 0..BoardSize], over : BOOLEAN, winner : Winners]

\* Snakes and ladders: a fair table.
FairBoard(t) == t \in BoardTable /\ Turns(t) /\ BoardSound(t)

\* Ludo.
LudoTable ==
  [game : {"ludo"}, players : Seq(Accounts), turn : Nat,
   tokens : [Accounts -> [Tokens -> {Base} \cup 0..HomeRelPos]], finished : [Accounts -> Nat],
   die : {NoDie} \cup Faces, sixes : Nat, over : BOOLEAN, winner : Winners]

\* Ludo: a fair table.
FairLudo(t) == t \in LudoTable /\ Turns(t) /\ LudoSound(t)

\* Dominoes.
DominoTable ==
  [game : {"domino"}, players : Seq(Accounts), turn : Nat,
   hands : [Accounts -> SUBSET TileSet], boneyard : SUBSET TileSet,
   chain : {NoChain} \cup ((0..MaxPip) \X (0..MaxPip)), played : SUBSET TileSet,
   passes : Nat, over : BOOLEAN, winner : Winners]

\* i is one of the k seats before the one whose turn it is, of n.
Before(i, turn, k, n) == (i < turn /\ turn - i <= k) \/ (i >= turn /\ turn + n - i <= k)

\* Who passed last has no move, and there was nothing to draw.
PassedStuck(t) ==
  /\ t.passes > 0 => t.boneyard = {}
  /\ \A i \in 1..Len(t.players) : Before(i, t.turn, t.passes, Len(t.players)) =>
       ~HasAnyLegalMove(t.hands[t.players[i]], t.chain)

\* A game that goes on has not been passed by everybody.
FairDomino(t) ==
  /\ t \in DominoTable /\ Turns(t) /\ DominoSound(t)
  /\ \A a \in Accounts \ Seats(t) : t.hands[a] = {}
  /\ t.played = {} <=> t.chain = NoChain
  /\ ~t.over => t.passes < Len(t.players) /\ PassedStuck(t)

\* Carrom.
CarromTable ==
  [game : {"carrom"}, players : Seq(Accounts), turn : Nat, elapsed : Nat,
   scores : [Accounts -> Nat], pieces : 0..StartPieces, queenPocketed : BOOLEAN,
   queenCovered : BOOLEAN, pending : Winners, over : BOOLEAN, winner : Winners]

\* Carrom: a fair table; a queen that is covered does not wait for its cover.
FairCarrom(t) ==
  /\ t \in CarromTable /\ Turns(t) /\ CarromSound(t)
  /\ t.queenCovered => t.pending = Nobody

\* Eight ball: the two players have no group, or one each.
EightTable ==
  [game : {"eight_ball"}, players : Seq(Accounts), turn : Nat, elapsed : Nat,
   groups : [Accounts -> {NoGroup, "solids", "stripes"}],
   remaining : [{"solids", "stripes"} -> 0..BallsPerGroup],
   scores : [Accounts -> Nat], over : BOOLEAN, winner : Winners]

\* Eight ball: a fair table.
FairEight(t) ==
  /\ t \in EightTable /\ Turns(t) /\ EightBallSound(t) /\ Len(t.players) = 2
  /\ \A a, b \in Seats(t) : a # b =>
       \/ /\ t.groups[a] = NoGroup /\ t.groups[b] = NoGroup
          /\ \A g \in {"solids", "stripes"} : t.remaining[g] = BallsPerGroup
       \/ t.groups[a] # NoGroup /\ t.groups[b] # NoGroup /\ t.groups[a] # t.groups[b]

\* The quiz.
QuizTable ==
  [game : {"quiz"}, players : Seq(Accounts), open : 1..Questions, elapsed : Nat,
   answers : [1..Questions -> [Accounts -> {NoAnswer} \cup Nat]],
   scores : [Accounts -> Nat], over : BOOLEAN, winner : Winners]

\* The quiz: a fair table.
FairQuiz(t) == t \in QuizTable /\ Seating(t) /\ QuizSound(t)

\* On the board are chessmen, and who is to move can.
Chessmen == [type : {"p", "n", "b", "r", "q", "k"}, color : {"w", "b"}]
Playable(pos) ==
  pos.turn \in {"w", "b"} /\ \A s \in DOMAIN pos.board : pos.board[s] \in Chessmen
\* The player who is to move has a move, and there is enough material.
CanGoOn(pos) == ~IsStuck(pos, pos.turn) /\ ~IsInsufficientMaterial(pos.board)

\* The fields of a table of chess; what the clocks show is left open.
HasClocks(clocks) == clocks = [a \in Accounts |-> clocks[a]]
ChessFields(t) ==
  t = [game |-> "chess", players |-> t.players, pos |-> t.pos, moves |-> t.moves,
       clocks |-> t.clocks, elapsed |-> t.elapsed, offer |-> t.offer,
       over |-> t.over, winner |-> t.winner, result |-> t.result]

\* Chess: while it goes on it can.
FairChess(t) ==
  /\ ChessFields(t) /\ HasClocks(t.clocks)
  /\ t.players \in Seq(Accounts) /\ t.over \in BOOLEAN /\ t.winner \in Winners
  /\ Seating(t) /\ Len(t.players) = 2 /\ Playable(t.pos)
  /\ ResultRight(t)
  /\ ~t.over => t.result = "none" /\ CanGoOn(t.pos)

\* A table of one of the seven games.
Fair(t) ==
  \/ FairBoard(t) \/ FairLudo(t) \/ FairDomino(t)
  \/ FairCarrom(t) \/ FairEight(t) \/ FairQuiz(t) \/ FairChess(t)

\* The table of m is for its game and its players.
Placed(m, t) ==
  /\ matches[m].state \notin {"none", "lobby"}
  /\ t.game = matches[m].game /\ t.players = matches[m].players

\* Every match has no table, or a fair one of its game with its players.
TablesFair ==
  /\ tables = [m \in MatchIds |-> tables[m]]
  /\ \A m \in MatchIds : tables[m] = NoTable \/ (Placed(m, tables[m]) /\ Fair(tables[m]))

\* A result that is on its way is the one of the table.
FinishFits ==
  \A h \in Handlers : job[h].op = "finish" =>
     tables[job[h].key].over /\ tables[job[h].key].winner = job[h].winner

\* The inductive invariant.
GamesSound == LobbyTyped /\ TablesFair /\ FinishFits /\ ResultFollowsPlay

\* The engine of m leaves the table u, and says so when that is the end.
PlayMove(m, u) ==
  /\ ~tables[m].over /\ Fair(u) /\ Placed(m, u)
  /\ tables' = [tables EXCEPT ![m] = u]
  /\ UNCHANGED <<issued, dropped, matches, restarts>>
  /\ \/ ~u.over /\ job' = job
     \/ /\ u.over
        /\ \E h \in Handlers :
             /\ job[h] = Idle
             /\ job' = [job EXCEPT ![h] = [op |-> "finish", at |-> "update", key |-> m,
                                          winner |-> u.winner]]
-----------------------------
\* The same players sit at the same seats.
LEMMA SeatsSame ==
  ASSUME NEW t, NEW u, u.players = t.players
  PROVE  Seats(u) = Seats(t)
  BY DEF Seats

\* Who sits well sits well at a table with the same players.
LEMMA SeatingGoes ==
  ASSUME NEW t, Seating(t), NEW u, u.players = t.players,
         u.winner \in Seats(t) \cup {Nobody}, ~u.over => u.winner = Nobody
  PROVE  Seating(u) /\ Seats(u) = Seats(t)
  BY SeatsSame DEF Seating

\* Players are accounts, finitely many, and there is one.
LEMMA SeatsAre ==
  ASSUME NEW t, t.players \in Seq(Accounts)
  PROVE  /\ Seats(t) \subseteq Accounts /\ IsFiniteSet(Seats(t))
         /\ t.players # <<>> => Seats(t) # {}
         /\ \A i \in 1..Len(t.players) : t.players[i] \in Seats(t)
<1>1. PICK s : s = t.players /\ s \in Seq(Accounts) OBVIOUS
<1>2. Seats(t) = {s[i] : i \in 1..Len(s)} BY <1>1 DEF Seats
<1>3. PICK D : D = 1..Len(s) /\ IsFiniteSet(D) BY <1>1, FS_Interval
<1>4. IsFiniteSet({s[i] : i \in D}) BY <1>3, FiniteImage
<1>5. s # <<>> => 1 \in 1..Len(s) BY <1>1
<1>6. Seats(t) \subseteq Accounts BY <1>1, <1>2
<1> QED BY <1>1, <1>2, <1>3, <1>4, <1>5, <1>6
-----------------------------
\* After the last comes the first.
LEMMA Around ==
  ASSUME NEW n \in Nat, NEW k \in 1..n
  PROVE  k % n = IF k = n THEN 0 ELSE k
<1>1. n > 0 OBVIOUS
<1>2. n % n = 0 BY <1>1
<1>3. k # n => k % n = k BY <1>1
<1> QED BY <1>2, <1>3

\* The next in turn is a player.
LEMMA NextInTurn ==
  ASSUME NEW t, t.players \in Seq(Accounts), Turns(t)
  PROVE  NextTurn(t) \in 1..Len(t.players) /\ NextTurn(t) \in Nat
<1>1. PICK n, k : n = Len(t.players) /\ k = t.turn /\ n \in Nat /\ n > 0 /\ k \in 1..n BY DEF Turns
<1>2. k % n = IF k = n THEN 0 ELSE k BY <1>1, Around
<1> QED BY <1>1, <1>2 DEF NextTurn
-----------------------------
\* From the first square to the last, on squares without hops.
LEMMA BoardMoves ==
  ASSUME NEW from \in 0..BoardSize, NEW die \in Faces
  PROVE  ApplyMove(from, die) \in (0..BoardSize) \ DOMAIN Hops
         \/ ApplyMove(from, die) = from
  BY HopsOnBoard, FacesAreNumbers DEF ApplyMove, ResolveSquare, RollLandsOn

\* There is a first player.
LEMMA RowFirst == ASSUME NEW row, FairRow(row) PROVE 1 \in 1..Len(row.players)
  BY DEF FairRow, MatchRow

\* A new board is fair.
LEMMA BoardFresh ==
  ASSUME NEW m \in MatchIds, FairRow(matches[m])
  PROVE  FairBoard(FreshBoard(m)) /\ ~FreshBoard(m).over
<1>1. PICK t : t = FreshBoard(m) OBVIOUS
<1>2. /\ t \in BoardTable /\ t.players = matches[m].players /\ t.turn = 1 /\ t.winner = Nobody /\ ~t.over
      /\ \A a \in Accounts : t.positions[a] = 0
  BY <1>1, HopsOnBoard DEF FreshBoard, BoardTable, FairRow, MatchRow, Winners
<1>3. Turns(t) BY <1>2, RowFirst DEF Turns, Seating, FairRow
<1>4. Seats(t) \subseteq Accounts BY <1>2 DEF Seats, BoardTable
<1>5. 0 # BoardSize /\ 0 \notin DOMAIN Hops BY HopsOnBoard
<1> QED BY <1>1, <1>2, <1>3, <1>4, <1>5, HopsOnBoard, NobodyPlays DEF FairBoard, BoardSound

\* It stays so when somebody moves, and wins by that.
LEMMA BoardRolled ==
  ASSUME NEW t, FairBoard(t), ~t.over, NEW a, a = CurrentActor(t), NEW die \in Faces,
         NEW moved, moved = [t EXCEPT !.positions[a] = ApplyMove(t.positions[a], die)]
  PROVE  IF moved.positions[a] = BoardSize
         THEN FairBoard([moved EXCEPT !.over = TRUE, !.winner = a])
         ELSE FairBoard([moved EXCEPT !.turn = NextTurn(t)])
<1>1. t \in BoardTable /\ a \in Seats(t) /\ a \in Accounts /\ t.winner = Nobody
  BY DEF FairBoard, Turns, Seating, Seats, CurrentActor, BoardTable
<1>2. PICK p : p = ApplyMove(t.positions[a], die) /\ p \in (0..BoardSize) \ DOMAIN Hops
 <2>1. t.positions[a] \in (0..BoardSize) \ DOMAIN Hops BY <1>1 DEF FairBoard, BoardSound
 <2> QED BY <2>1, BoardMoves
<1>3. /\ moved \in BoardTable /\ moved.players = t.players /\ moved.turn = t.turn
      /\ moved.winner = t.winner /\ moved.over = t.over
      /\ moved.positions[a] = p /\ \A b \in Accounts \ {a} : moved.positions[b] = t.positions[b]
  BY <1>1, <1>2 DEF BoardTable
<1>4. ASSUME p = BoardSize
      PROVE  FairBoard([moved EXCEPT !.over = TRUE, !.winner = a])
 <2>1. PICK u : u = [moved EXCEPT !.over = TRUE, !.winner = a] OBVIOUS
 <2>2. /\ u \in BoardTable /\ u.players = t.players /\ u.turn = t.turn /\ u.winner = a /\ u.over
       /\ u.positions = moved.positions
   BY <1>1, <1>3, <2>1 DEF BoardTable, Winners
 <2>3. Turns(u) /\ Seats(u) = Seats(t) /\ Seats(t) \subseteq Accounts
   BY <1>1, <2>2, SMTT(60) DEF FairBoard, Turns, Seating, Seats, BoardTable
 <2>4. \A b \in Seats(t) : t.positions[b] # BoardSize /\ t.positions[b] \notin DOMAIN Hops
   BY <1>1, <2>3, NobodyPlays DEF FairBoard, BoardSound
 <2>5. \A b \in Seats(u) : /\ u.positions[b] \notin DOMAIN Hops
                           /\ u.positions[b] = BoardSize <=> u.winner = b
  <3>1. ASSUME NEW b \in Seats(u)
        PROVE  /\ u.positions[b] \notin DOMAIN Hops
               /\ u.positions[b] = BoardSize <=> u.winner = b
   <4>1. CASE b = a BY <1>2, <1>3, <1>4, <2>2, <4>1
   <4>2. CASE b # a
    <5>1. b \in Seats(t) /\ b \in Accounts BY <2>3, <3>1
    <5>2. u.positions[b] = t.positions[b] BY <1>3, <2>2, <4>2, <5>1
    <5> QED BY <2>2, <2>4, <4>2, <5>1, <5>2
   <4> QED BY <4>1, <4>2
  <3> QED BY <3>1
 <2>6. \A b \in Seats(u) : u.positions[b] \in 0..BoardSize BY <2>2, <2>3 DEF BoardTable
 <2> QED BY <2>1, <2>2, <2>3, <2>5, <2>6 DEF FairBoard, BoardSound
<1>5. ASSUME p # BoardSize
      PROVE  FairBoard([moved EXCEPT !.turn = NextTurn(t)])
 <2>1. PICK u : u = [moved EXCEPT !.turn = NextTurn(t)] OBVIOUS
 <2>2. NextTurn(t) \in 1..Len(t.players) /\ NextTurn(t) \in Nat
   BY <1>1, NextInTurn DEF FairBoard, BoardTable
 <2>3. /\ u \in BoardTable /\ u.players = t.players /\ u.turn = NextTurn(t)
       /\ u.winner = Nobody /\ u.over = t.over /\ u.positions = moved.positions
   BY <1>1, <1>3, <2>1, <2>2 DEF BoardTable
 <2>4. Turns(u) /\ Seats(u) = Seats(t) /\ Seats(t) \subseteq Accounts
  <3>1. Seating(u) /\ Seats(u) = Seats(t) BY <2>3, SeatingGoes DEF FairBoard, Turns
  <3>2. u.turn \in 1..Len(u.players) BY <2>2, <2>3
  <3> QED BY <1>1, <3>1, <3>2, SeatsAre DEF Turns, BoardTable
 <2>5. \A b \in Seats(t) : t.positions[b] # BoardSize /\ t.positions[b] \notin DOMAIN Hops
   BY <1>1, <2>4, NobodyPlays DEF FairBoard, BoardSound
 <2>6. \A b \in Seats(u) : b \in Accounts /\ u.positions[b] = IF b = a THEN p ELSE t.positions[b]
  <3>1. ASSUME NEW b \in Seats(u)
        PROVE  b \in Accounts /\ u.positions[b] = IF b = a THEN p ELSE t.positions[b]
   <4>1. b \in Accounts /\ u.positions = moved.positions BY <2>3, <2>4, <3>1
   <4>2. CASE b = a BY <1>3, <4>1, <4>2
   <4>3. CASE b # a BY <1>3, <4>1, <4>3
   <4> QED BY <4>2, <4>3
  <3> QED BY <3>1
 <2>7. \A b \in Seats(u) : u.positions[b] \in (0..BoardSize) \ DOMAIN Hops
   BY <1>1, <1>2, <2>4, <2>5, <2>6 DEF BoardTable
 <2>8. \A b \in Seats(u) : u.positions[b] # BoardSize /\ u.winner # b
   BY <1>2, <1>5, <2>3, <2>4, <2>5, <2>6, NobodyPlays
 <2> QED BY <2>1, <2>3, <2>4, <2>7, <2>8 DEF FairBoard, BoardSound
<1> QED BY <1>3, <1>4, <1>5
-----------------------------
(* What requests do to the rows. *)

\* Requests end, or nothing happens to them.
JobsEnd == job' = job \/ \E h \in Handlers : job' = [job EXCEPT ![h] = Idle]

\* Ids that are in use are issued.
IdsKept ==
  /\ issued \subseteq issued'
  /\ \A m \in MatchIds : matches'[m] # matches[m] => m \in issued'

\* A row that is there keeps its host.
LEMMA HostStays ==
  ASSUME RowsTyped, RowMoves, NEW m \in MatchIds, matches[m] # NoMatch
  PROVE  matches'[m] # NoMatch /\ matches'[m].host = matches[m].host
<1>1. CASE matches' = matches BY <1>1
<1>2. ASSUME NEW n \in MatchIds, NEW new, RowMove(matches[n], new),
             matches' = [matches EXCEPT ![n] = new]
      PROVE  matches'[m] # NoMatch /\ matches'[m].host = matches[m].host
 <2>1. matches = [k \in MatchIds |-> matches[k]] BY DEF RowsTyped
 <2>2. CASE m = n
  <3>1. matches'[m] = new BY <1>2, <2>1, <2>2
  <3>2. new # NoMatch BY <1>2, RowLike DEF RowMove
  <3>3. new.host = matches[m].host BY <1>2, <2>2 DEF RowMove
  <3> QED BY <3>1, <3>2, <3>3
 <2>3. CASE m # n BY <1>2, <2>1, <2>3
 <2> QED BY <2>2, <2>3
<1> QED BY <1>1, <1>2 DEF RowMoves

\* Rows that change as rows do, while requests at most end, are rows.
LEMMA RowsChange ==
  ASSUME LobbyTyped, RowMoves, JobsEnd, IdsKept, restarts' = restarts
  PROVE  LobbyTyped'
<1>1. \A m \in MatchIds : matches[m] # NoMatch =>
        matches'[m] # NoMatch /\ matches'[m].host = matches[m].host
  BY HostStays DEF LobbyTyped
<1>2. \A h \in Handlers : job'[h] = job[h] \/ job'[h] = Idle BY DEF JobsEnd, LobbyTyped, JobsTyped
<1>3. job' \in [Handlers -> {Idle} \cup LobbyJob \cup FinishJob] BY DEF JobsEnd, LobbyTyped, JobsTyped
<1>4. ASSUME NEW h \in Handlers, job'[h].op = "leave"
      PROVE  matches'[job'[h].key] # NoMatch /\ job'[h].who # matches'[job'[h].key].host
 <2>1. job'[h] = job[h] BY <1>2, <1>4 DEF Idle
 <2>2. matches[job[h].key] # NoMatch /\ job[h].who # matches[job[h].key].host
   BY <1>4, <2>1 DEF LobbyTyped, JobsTyped
 <2>3. job[h].key \in MatchIds
  <3>1. job[h] \in LobbyJob \cup FinishJob BY <1>4, <2>1 DEF LobbyTyped, JobsTyped, Idle
  <3> QED BY <3>1 DEF LobbyJob, FinishJob
 <2> QED BY <1>1, <2>1, <2>2, <2>3
<1>5. JobsTyped' BY <1>3, <1>4 DEF JobsTyped
<1>6. matches' = [m \in MatchIds |-> matches'[m]] BY DEF RowMoves, LobbyTyped, RowsTyped
<1>7. ASSUME NEW m \in MatchIds
      PROVE  matches'[m] = NoMatch \/ (FairRow(matches'[m]) /\ m \in issued')
 <2>1. CASE matches'[m] = matches[m] BY <2>1 DEF LobbyTyped, RowsTyped, IdsKept
 <2>2. CASE matches'[m] # matches[m]
  <3>1. m \in issued' BY <2>2 DEF IdsKept
  <3>2. PICK n \in MatchIds : \E new : RowMove(matches[n], new) /\ matches' = [matches EXCEPT ![n] = new]
    BY <2>2 DEF RowMoves
  <3>3. PICK new : RowMove(matches[n], new) /\ matches' = [matches EXCEPT ![n] = new] BY <3>2
  <3>4. matches'[m] = new BY <2>2, <3>3 DEF LobbyTyped, RowsTyped
  <3> QED BY <3>1, <3>3, <3>4 DEF RowMove
 <2> QED BY <2>1, <2>2
<1>8. RowsTyped' BY <1>6, <1>7 DEF RowsTyped
<1> QED BY <1>5, <1>8 DEF LobbyTyped

\* Somebody sits down.
LEMMA RowJoined ==
  ASSUME NEW row, FairRow(row), row.state = "lobby", NEW a \in Accounts, ~Sits(row, a),
         NEW new, new = [row EXCEPT !.players = Append(row.players, a)]
  PROVE  RowMove(row, new)
<1>1. PICK s : s = row.players /\ s \in Seq(Accounts) /\ s # <<>> /\ NamedOnce(s) BY DEF FairRow, MatchRow
<1>2. PICK q : q = Append(s, a) OBVIOUS
<1>20. q \in Seq(Accounts) /\ Len(q) = Len(s) + 1 /\ q[Len(s) + 1] = a
       /\ (\A i \in 1..Len(s) : q[i] = s[i])
  BY <1>1, <1>2
<1>21. Len(s) \in Nat /\ Len(s) > 0 BY <1>1
<1>22. q # <<>> /\ q[1] = s[1] BY <1>20, <1>21
<1>3. NamedOnce(q)
 <2>1. Len(s) \in Nat /\ \A i, k \in 1..Len(s) : i # k => s[i] # s[k] BY <1>1 DEF NamedOnce
 <2>2. \A i \in 1..Len(s) : s[i] # a BY <1>1 DEF Sits
 <2>3. ASSUME NEW i \in 1..Len(q), NEW k \in 1..Len(q), i # k
       PROVE  q[i] # q[k]
  <3>1. CASE i = Len(q) BY <1>20, <2>1, <2>2, <2>3, <3>1
  <3>2. CASE k = Len(q) BY <1>20, <2>1, <2>2, <2>3, <3>2
  <3>3. CASE i # Len(q) /\ k # Len(q) BY <1>20, <2>1, <2>3, <3>3
  <3> QED BY <3>1, <3>2, <3>3
 <2> QED BY <2>3 DEF NamedOnce
<1>4. /\ new \in MatchRow /\ new.players = q /\ new.host = row.host /\ new.game = row.game
      /\ new.state = "lobby" /\ new.winner = row.winner /\ row.players[1] = row.host
  BY <1>1, <1>2, <1>20 DEF FairRow, MatchRow
<1>5. FairRow(new) BY <1>1, <1>22, <1>3, <1>4 DEF FairRow
<1> QED BY <1>1, <1>2, <1>4, <1>5, RowLike DEF RowMove

\* Somebody other than the host gets up.
LEMMA RowLeft ==
  ASSUME NEW row, FairRow(row), row.state = "lobby", NEW a \in Accounts, a # row.host,
         NEW new, new = [row EXCEPT !.players = Without(row.players, a)]
  PROVE  RowMove(row, new)
<1>1. PICK s : s = row.players /\ s \in Seq(Accounts) /\ s # <<>> /\ NamedOnce(s) /\ s[1] = row.host
  BY DEF FairRow, MatchRow
<1>2. PICK q : q = Without(s, a) /\ q \in Seq(Accounts) /\ NamedOnce(q) /\ q # <<>> /\ q[1] = s[1]
  BY <1>1, WithoutKeeps
<1>3. /\ new \in MatchRow /\ new.players = q /\ new.host = row.host /\ new.game = row.game
      /\ new.state = "lobby" /\ new.winner = row.winner
  BY <1>1, <1>2 DEF FairRow, MatchRow
<1>4. FairRow(new) BY <1>1, <1>2, <1>3 DEF FairRow
<1> QED BY <1>1, <1>2, <1>3, <1>4, RowLike DEF RowMove

\* The match leaves the lobby.
LEMMA RowOut ==
  ASSUME NEW row, FairRow(row), row.state = "lobby", NEW p \in {"active", "cancelled"},
         NEW new, new = [row EXCEPT !.state = p]
  PROVE  RowMove(row, new)
<1>1. /\ new \in MatchRow /\ new.players = row.players /\ new.host = row.host /\ new.game = row.game
      /\ new.state = p /\ new.winner = row.winner
  BY DEF FairRow, MatchRow
<1> QED BY <1>1, RowLike DEF FairRow, RowMove

\* The match gets its result.
LEMMA RowFinished ==
  ASSUME NEW row, FairRow(row), row.state \in {"active", "cancelled"},
         NEW w, w = Nobody \/ Sits(row, w),
         NEW new, new = [row EXCEPT !.state = "finished", !.winner = w]
  PROVE  RowMove(row, new)
<1>1. w \in Accounts \cup {Nobody} BY DEF FairRow, MatchRow, Sits
<1>2. /\ new \in MatchRow /\ new.players = row.players /\ new.host = row.host /\ new.game = row.game
      /\ new.state = "finished" /\ new.winner = w
  BY <1>1 DEF FairRow, MatchRow
<1> QED BY <1>2, RowLike DEF FairRow, RowMove

\* A step of the lobby that records no result.
Calm ==
  /\ UNCHANGED <<tables, restarts, dropped>>
  /\ \A h \in Handlers : job'[h] = job[h] \/ (job[h].op # "finish" /\ job'[h].op # "finish")
  /\ \A m \in MatchIds : matches'[m] = matches[m]
       \/ (matches[m].state # "finished" /\ matches'[m].state # "finished")

\* A handler that does what a request for the lobby asks has such a request.
LEMMA LobbyJobs ==
  ASSUME LobbyTyped, NEW h \in Handlers, job[h].op \in {"join", "leave", "cancel", "start"}
  PROVE  job[h].key \in MatchIds /\ job[h].who \in Accounts
<1>1. job[h] \in LobbyJob BY DEF LobbyTyped, JobsTyped, Idle, FinishJob
<1> QED BY <1>1 DEF LobbyJob

\* A row in the lobby is a row.
LEMMA LobbyRow ==
  ASSUME RowsTyped, NEW m \in MatchIds, matches[m].state = "lobby"
  PROVE  FairRow(matches[m]) /\ m \in issued
  BY DEF RowsTyped, NoMatch

\* A request that sets a row of the lobby as rows change, and ends.
LEMMA RowSet ==
  ASSUME LobbyTyped, NEW h \in Handlers, job[h].op # "finish", NEW m \in MatchIds, NEW row,
         SetRow(m, row), Finish(h), UNCHANGED <<tables, restarts>>,
         matches[m].state = "lobby" => row = matches[m] \/ RowMove(matches[m], row)
  PROVE  LobbyTyped' /\ RowMoves /\ Calm
<1>1. RowsTyped /\ matches = [k \in MatchIds |-> matches[k]] BY DEF LobbyTyped, RowsTyped
<1>2. RowMoves
 <2>1. CASE matches[m].state = "lobby" /\ row # matches[m] BY <2>1 DEF SetRow, RowMoves
 <2>2. CASE matches[m].state # "lobby" BY <2>2 DEF SetRow, RowMoves
 <2>3. CASE row = matches[m] BY <1>1, <2>3 DEF SetRow, RowMoves
 <2> QED BY <2>1, <2>2, <2>3
<1>3. JobsEnd /\ issued' = issued /\ dropped' = dropped BY DEF Finish, JobsEnd
<1>4. \A k \in MatchIds :
        matches'[k] # matches[k] => k = m /\ matches[m].state = "lobby" /\ matches'[m] = row
  BY <1>1 DEF SetRow
<1>5. IdsKept BY <1>1, <1>3, <1>4, LobbyRow DEF IdsKept
<1>6. LobbyTyped' BY <1>2, <1>3, <1>5, RowsChange
<1>7. \A g \in Handlers : job'[g] = job[g] \/ (job[g].op # "finish" /\ job'[g].op # "finish")
  BY DEF Finish, LobbyTyped, JobsTyped, Idle
<1>8. \A k \in MatchIds : matches'[k] = matches[k]
        \/ (matches[k].state # "finished" /\ matches'[k].state # "finished")
  BY <1>4 DEF RowMove
<1> QED BY <1>2, <1>3, <1>6, <1>7, <1>8 DEF Calm

\* What runs against a row of the lobby.
LEMMA LobbySteps ==
  ASSUME LobbyTyped, NEW h \in Handlers,
         AddPlayer(h) \/ RemovePlayer(h) \/ CancelRow(h) \/ StartRow(h), UNCHANGED <<tables, restarts>>
  PROVE  LobbyTyped' /\ RowMoves /\ Calm
<1> DEFINE m == job[h].key
<1>0. RowsTyped /\ Finish(h) BY DEF LobbyTyped, AddPlayer, RemovePlayer, CancelRow, StartRow
<1>1. CASE AddPlayer(h)
 <2>1. job[h].op = "join" /\ m \in MatchIds /\ job[h].who \in Accounts
   BY <1>1, LobbyJobs DEF AddPlayer, Doing
 <2>2. PICK row : /\ SetRow(m, row)
                  /\ row = [matches[m] EXCEPT !.players = IF Plays(m, job[h].who) THEN matches[m].players
                                                ELSE Append(matches[m].players, job[h].who)]
   BY <1>1 DEF AddPlayer
 <2>3. ASSUME matches[m].state = "lobby" PROVE row = matches[m] \/ RowMove(matches[m], row)
  <3>1. FairRow(matches[m]) BY <1>0, <2>1, <2>3, LobbyRow
  <3>2. CASE Plays(m, job[h].who) BY <2>2, <3>1, <3>2 DEF FairRow, MatchRow
  <3>3. CASE ~Plays(m, job[h].who)
   <4>1. ~Sits(matches[m], job[h].who) BY <3>3 DEF Sits, Plays
   <4> QED BY <2>1, <2>2, <2>3, <3>1, <3>3, <4>1, RowJoined
  <3> QED BY <3>2, <3>3
 <2> HIDE DEF m
 <2> QED BY <1>0, <2>1, <2>2, <2>3, RowSet
<1>2. CASE RemovePlayer(h)
 <2>1. job[h].op = "leave" /\ m \in MatchIds /\ job[h].who \in Accounts
   BY <1>2, LobbyJobs DEF RemovePlayer, Doing
 <2>2. PICK row : /\ SetRow(m, row)
                  /\ row = [matches[m] EXCEPT !.players = Without(matches[m].players, job[h].who)]
   BY <1>2 DEF RemovePlayer
 <2>3. ASSUME matches[m].state = "lobby" PROVE RowMove(matches[m], row)
  <3>1. FairRow(matches[m]) BY <1>0, <2>1, <2>3, LobbyRow
  <3>2. job[h].who # matches[m].host BY <2>1 DEF LobbyTyped, JobsTyped
  <3> QED BY <2>1, <2>2, <2>3, <3>1, <3>2, RowLeft
 <2> HIDE DEF m
 <2> QED BY <1>0, <2>1, <2>2, <2>3, RowSet
<1>3. CASE CancelRow(h)
 <2>1. job[h].op = "cancel" /\ m \in MatchIds BY <1>3, LobbyJobs DEF CancelRow, Doing
 <2>2. PICK row : SetRow(m, row) /\ row = [matches[m] EXCEPT !.state = "cancelled"] BY <1>3 DEF CancelRow
 <2>3. matches[m].state = "lobby" => RowMove(matches[m], row) BY <1>0, <2>1, <2>2, LobbyRow, RowOut
 <2> HIDE DEF m
 <2> QED BY <1>0, <2>1, <2>2, <2>3, RowSet
<1>4. CASE StartRow(h)
 <2>1. job[h].op = "start" /\ m \in MatchIds BY <1>4, LobbyJobs DEF StartRow, Doing
 <2>2. PICK row : SetRow(m, row) /\ row = [matches[m] EXCEPT !.state = "active"] BY <1>4 DEF StartRow
 <2>3. matches[m].state = "lobby" => RowMove(matches[m], row) BY <1>0, <2>1, <2>2, LobbyRow, RowOut
 <2> HIDE DEF m
 <2> QED BY <1>0, <2>1, <2>2, <2>3, RowSet
<1> QED BY <1>1, <1>2, <1>3, <1>4

\* A request that found its match in the lobby.
LEMMA LobbyAccepts ==
  ASSUME LobbyTyped, NEW h \in Handlers, NEW op \in {"join", "leave", "cancel", "start"},
         NEW a \in Accounts, NEW m \in MatchIds, FromLobby(h, op, a, m),
         op = "leave" => a # matches[m].host
  PROVE  LobbyTyped' /\ RowMoves /\ Calm
<1>1. PICK j : /\ j = [op |-> op, at |-> "update", key |-> m, who |-> a]
               /\ job' = [job EXCEPT ![h] = j]
  BY DEF FromLobby, Accept
<1>2. j \in LobbyJob /\ j.op # "finish" BY <1>1 DEF LobbyJob
<1>3. job[h] = Idle /\ UNCHANGED <<issued, matches, tables, restarts, dropped>>
      /\ matches[m].state = "lobby"
  BY DEF FromLobby, Accept, Ready
<1>4. job' \in [Handlers -> {Idle} \cup LobbyJob \cup FinishJob] BY <1>1, <1>2 DEF LobbyTyped, JobsTyped
<1>5. \A g \in Handlers : job'[g] = job[g] \/ (g = h /\ job'[g] = j) BY <1>1 DEF LobbyTyped, JobsTyped
<1>6. ASSUME NEW g \in Handlers, job'[g].op = "leave"
      PROVE  matches'[job'[g].key] # NoMatch /\ job'[g].who # matches'[job'[g].key].host
 <2>1. matches' = matches BY <1>3
 <2>2. CASE job'[g] = job[g] BY <1>6, <2>1, <2>2 DEF LobbyTyped, JobsTyped
 <2>3. CASE job'[g] = j BY <1>1, <1>3, <1>6, <2>1, <2>3 DEF NoMatch
 <2> QED BY <1>5, <2>2, <2>3
<1>7. JobsTyped' BY <1>4, <1>6 DEF JobsTyped
<1>8. RowsTyped' BY <1>3 DEF LobbyTyped, RowsTyped
<1>9. \A g \in Handlers : job'[g] = job[g] \/ (job[g].op # "finish" /\ job'[g].op # "finish")
  BY <1>2, <1>3, <1>5 DEF Idle
<1> QED BY <1>3, <1>7, <1>8, <1>9 DEF LobbyTyped, RowMoves, Calm

\* A request that read the row and goes on.
LEMMA LobbyRequests ==
  ASSUME LobbyTyped, NEW h \in Handlers, MatchRequest(h)
  PROVE  LobbyTyped' /\ RowMoves /\ Calm
<1>1. PICK a \in Accounts, m \in MatchIds :
        StartJoin(h, a, m) \/ StartLeave(h, a, m) \/ StartCancel(h, a, m) \/ StartStart(h, a, m)
  BY DEF MatchRequest
<1>2. CASE StartJoin(h, a, m) BY <1>2, LobbyAccepts DEF StartJoin
<1>3. CASE StartLeave(h, a, m)
 <2>1. CASE a = matches[m].host BY <1>3, <2>1, LobbyAccepts DEF StartLeave
 <2>2. CASE a # matches[m].host BY <1>3, <2>2, LobbyAccepts DEF StartLeave
 <2> QED BY <2>1, <2>2
<1>4. CASE StartCancel(h, a, m) BY <1>4, LobbyAccepts DEF StartCancel
<1>5. CASE StartStart(h, a, m) BY <1>5, LobbyAccepts DEF StartStart
<1> QED BY <1>1, <1>2, <1>3, <1>4, <1>5

\* The caller and the others the caller names.
LEMMA RosterNamed ==
  ASSUME NEW a \in Accounts, NEW others \in Rosters(a), NamedOnce(others),
         NEW s, s = <<a>> \o others
  PROVE  s \in Seq(Accounts) /\ s # <<>> /\ s[1] = a /\ NamedOnce(s)
<1>1. others \in Seq(Accounts \ {a})
 <2>1. CASE others = <<>> BY <2>1
 <2>2. ASSUME NEW b \in Accounts \ {a}, others = <<b>>
       PROVE  others \in Seq(Accounts \ {a})
   BY <2>2
 <2>3. ASSUME NEW b \in Accounts \ {a}, NEW c \in Accounts \ {a}, others = <<b, c>>
       PROVE  others \in Seq(Accounts \ {a})
   BY <2>3
 <2> QED BY <2>1, <2>2, <2>3 DEF Rosters
<1>2. PICK n : n = Len(others) /\ n \in Nat BY <1>1
<1>3. \A i \in 1..n : others[i] \in Accounts /\ others[i] # a BY <1>1, <1>2
<1>4. PICK p : p = <<a>> OBVIOUS
<1>5. p \in Seq(Accounts) /\ Len(p) = 1 /\ p[1] = a BY <1>4
<1>6. others \in Seq(Accounts) BY <1>1
<1>7. s \in Seq(Accounts) /\ Len(s) = 1 + n BY <1>2, <1>4, <1>5, <1>6
<1>8. \A i \in 1..1 + n : s[i] = IF i <= 1 THEN p[i] ELSE others[i - 1] BY <1>2, <1>4, <1>5, <1>6
<1>9. s[1] = a /\ \A i \in 1..n : s[i + 1] = others[i] BY <1>2, <1>5, <1>8
<1>10. \A i, k \in 1..n : i # k => others[i] # others[k] BY <1>2 DEF NamedOnce
<1>11. ASSUME NEW i \in 1..Len(s), NEW k \in 1..Len(s), i # k
       PROVE  s[i] # s[k]
 <2>1. CASE i = 1
  <3>1. k - 1 \in 1..n /\ s[k] = others[k - 1] BY <1>2, <1>5, <1>7, <1>8, <1>11, <2>1
  <3> QED BY <1>3, <1>9, <2>1, <3>1
 <2>2. CASE k = 1
  <3>1. i - 1 \in 1..n /\ s[i] = others[i - 1] BY <1>2, <1>5, <1>7, <1>8, <1>11, <2>2
  <3> QED BY <1>3, <1>9, <2>2, <3>1
 <2>3. CASE i # 1 /\ k # 1
  <3>1. /\ i - 1 \in 1..n /\ s[i] = others[i - 1] /\ k - 1 \in 1..n /\ s[k] = others[k - 1]
        /\ i - 1 # k - 1
    BY <1>2, <1>7, <1>8, <1>11, <2>3
  <3> QED BY <1>10, <3>1
 <2> QED BY <2>1, <2>2, <2>3
<1>12. s # <<>> BY <1>2, <1>7
<1> QED BY <1>7, <1>9, <1>11, <1>12 DEF NamedOnce

\* A match that is opened.
LEMMA LobbyCreates ==
  ASSUME LobbyTyped, NEW a \in Accounts, NEW g \in DOMAIN Limits, NEW others \in Rosters(a),
         NamedOnce(others), CreateMatch(a, g, others)
  PROVE  LobbyTyped' /\ RowMoves /\ Calm
<1>1. PICK s : s = <<a>> \o others OBVIOUS
<1>2. s \in Seq(Accounts) /\ s # <<>> /\ s[1] = a /\ NamedOnce(s) BY <1>1, RosterNamed
<1>3. PICK m \in MatchIds \ issued :
        /\ issued' = issued \cup {m}
        /\ matches' = [matches EXCEPT ![m] =
             [state |-> "lobby", game |-> g, host |-> a, players |-> s, winner |-> Nobody]]
  BY <1>1 DEF CreateMatch
<1>4. PICK new : new = [state |-> "lobby", game |-> g, host |-> a, players |-> s, winner |-> Nobody] OBVIOUS
<1>5. FairRow(new) /\ new.state = "lobby" /\ new.winner = Nobody BY <1>2, <1>4 DEF FairRow, MatchRow
<1>6. matches[m] = NoMatch /\ matches' = [matches EXCEPT ![m] = new]
      /\ matches = [k \in MatchIds |-> matches[k]]
  BY <1>3, <1>4 DEF LobbyTyped, RowsTyped
<1>7. RowMove(matches[m], new) /\ RowMoves BY <1>5, <1>6 DEF RowMove, RowMoves
<1>8. \A k \in MatchIds : matches'[k] # matches[k] => k = m /\ matches'[k] = new BY <1>6
<1>9. IdsKept BY <1>3, <1>8 DEF IdsKept
<1>10. UNCHANGED <<job, dropped, tables, restarts>> BY DEF CreateMatch
<1>11. LobbyTyped' BY <1>7, <1>9, <1>10, RowsChange DEF JobsEnd
<1>12. \A k \in MatchIds : matches'[k] = matches[k]
        \/ (matches[k].state # "finished" /\ matches'[k].state # "finished")
  BY <1>5, <1>6, <1>8 DEF NoMatch
<1> QED BY <1>7, <1>10, <1>11, <1>12 DEF Calm
-----------------------------
(* What an engine finds and what it leaves. *)

\* A fair table is told by its game.
LEMMA FairKinds ==
  ASSUME NEW t, Fair(t)
  PROVE  /\ t.game = "snakes_ladders" => FairBoard(t)
         /\ t.game = "ludo" => FairLudo(t)
         /\ t.game = "domino" => FairDomino(t)
         /\ t.game = "carrom" => FairCarrom(t)
         /\ t.game = "eight_ball" => FairEight(t)
         /\ t.game = "quiz" => FairQuiz(t)
         /\ t.game = "chess" => FairChess(t)
<1>1. /\ FairBoard(t) => t.game = "snakes_ladders"
      /\ FairLudo(t) => t.game = "ludo"
      /\ FairDomino(t) => t.game = "domino"
      /\ FairCarrom(t) => t.game = "carrom"
      /\ FairEight(t) => t.game = "eight_ball"
      /\ FairQuiz(t) => t.game = "quiz"
  BY DEF FairBoard, FairLudo, FairDomino, FairCarrom, FairEight, FairQuiz, BoardTable, LudoTable,
     DominoTable, CarromTable, EightTable, QuizTable
<1>2. FairChess(t) => t.game = "chess" BY DEF FairChess, ChessFields
<1> QED BY <1>1, <1>2 DEF Fair

\* A fair table has players, is over or not, and has a winner only then.
LEMMA FairSeating ==
  ASSUME NEW t, Fair(t)
  PROVE  /\ Seating(t) /\ t.players \in Seq(Accounts) /\ t.over \in BOOLEAN
         /\ t.winner \in Winners /\ t # NoTable
<1>1. Seating(t)
  BY DEF Fair, FairBoard, FairLudo, FairDomino, FairCarrom, FairEight, FairQuiz, FairChess, Turns
<1>2. t.players \in Seq(Accounts) /\ t.over \in BOOLEAN /\ t.winner \in Winners
  BY DEF Fair, FairBoard, FairLudo, FairDomino, FairCarrom, FairEight, FairQuiz, FairChess, BoardTable,
     LudoTable, DominoTable, CarromTable, EightTable, QuizTable
<1>3. "game" \in DOMAIN t
 <2>1. CASE FairChess(t)
  <3>1. DOMAIN t = {"game", "players", "pos", "moves", "clocks", "elapsed", "offer", "over",
                    "winner", "result"}
    BY <2>1 DEF FairChess, ChessFields
  <3> QED BY <3>1
 <2>2. CASE ~FairChess(t)
   BY <2>2 DEF Fair, FairBoard, FairLudo, FairDomino, FairCarrom, FairEight, FairQuiz, BoardTable,
      LudoTable, DominoTable, CarromTable, EightTable, QuizTable
 <2> QED BY <2>1, <2>2
<1>4. "game" \notin DOMAIN NoTable BY DEF NoTable
<1>5. t # NoTable BY <1>3, <1>4
<1> QED BY <1>1, <1>2, <1>5

\* A table that the engine keeps, and one where it ends its game.
LEMMA Kept ==
  ASSUME NEW m \in MatchIds, NEW u, Keep(m, u), Fair(u), ~u.over, Placed(m, u), ~tables[m].over
  PROVE  PlayMove(m, u)
  BY DEF Keep, PlayMove, handlerVars

\* A move that ends the game, whose result is to be recorded.
LEMMA Ended ==
  ASSUME NEW h \in Handlers, NEW m \in MatchIds, NEW t, NEW w, EndGame(h, m, t, w),
         NEW u, u = [t EXCEPT !.over = TRUE, !.winner = w],
         Fair(u), u.over, u.winner = w, Placed(m, u), ~tables[m].over
  PROVE  PlayMove(m, u)
  BY DEF EndGame, PlayMove

\* The table an engine finds or builds.
LEMMA TableFound ==
  ASSUME TablesFair, NEW m \in MatchIds, NEW g, Served(m, g), NEW fresh, ~fresh.over, Fair(fresh),
         Placed(m, fresh), NEW t, t = Table(m, fresh)
  PROVE  /\ Fair(t) /\ Placed(m, t) /\ t.game = g
         /\ tables[m] = NoTable => t = fresh /\ ~tables[m].over
         /\ ~t.over => ~tables[m].over
<1>1. CASE tables[m] = NoTable BY <1>1 DEF Table, NoTable, Placed, Served
<1>2. CASE tables[m] # NoTable BY <1>2 DEF Table, TablesFair, Placed, Served
<1> QED BY <1>1, <1>2

\* The row of a match that is served.
LEMMA RowServed ==
  ASSUME RowsTyped, NEW m \in MatchIds, NEW g, Served(m, g)
  PROVE  FairRow(matches[m]) /\ matches[m].state \notin {"none", "lobby"} /\ matches[m].game = g
  BY RowThere DEF Served

\* A match that is active is served.
LEMMA ActiveServed ==
  ASSUME NEW m \in MatchIds, NEW g, Active(m, g)
  PROVE  Served(m, g)
  BY DEF Served, Active
-----------------------------
\* Snakes and ladders.
LEMMA SnakesMoves ==
  ASSUME LobbyTyped, TablesFair, NEW h \in Handlers, NEW m \in MatchIds, SnakesStep(h, m)
  PROVE  \E u : PlayMove(m, u)
<1>1. Served(m, "snakes_ladders")
 <2>1. CASE LookAtBoard(m) BY <2>1 DEF LookAtBoard
 <2>2. ASSUME NEW a \in Accounts, NEW die \in Faces, RollSnakes(h, m, a, die)
       PROVE  Active(m, "snakes_ladders")
   BY <2>2 DEF RollSnakes
 <2> QED BY <2>1, <2>2, ActiveServed DEF SnakesStep
<1>2. FairRow(matches[m]) /\ matches[m].state \notin {"none", "lobby"} /\ matches[m].game = "snakes_ladders"
  BY <1>1, RowServed DEF LobbyTyped
<1>3. PICK fresh : fresh = FreshBoard(m) OBVIOUS
<1>4. FairBoard(fresh) /\ ~fresh.over /\ Fair(fresh) /\ Placed(m, fresh)
 <2>1. FairBoard(fresh) /\ ~fresh.over BY <1>2, <1>3, BoardFresh
 <2>2. fresh.game = "snakes_ladders" /\ fresh.players = matches[m].players BY <1>3 DEF FreshBoard
 <2>3. Fair(fresh) BY <2>1 DEF Fair
 <2> QED BY <1>2, <2>1, <2>2, <2>3 DEF Placed
<1>5. CASE LookAtBoard(m)
 <2>1. tables[m] = NoTable /\ Keep(m, fresh) BY <1>3, <1>5 DEF LookAtBoard
 <2>2. ~tables[m].over BY <2>1 DEF NoTable
 <2> QED BY <1>4, <2>1, <2>2, Kept
<1>6. ASSUME NEW a \in Accounts, NEW die \in Faces, RollSnakes(h, m, a, die)
      PROVE  \E u : PlayMove(m, u)
 <2>1. PICK t : t = Table(m, fresh) OBVIOUS
 <2>2. Fair(t) /\ Placed(m, t) /\ t.game = "snakes_ladders" /\ (~t.over => ~tables[m].over)
   BY <1>1, <1>4, <2>1, TableFound
 <2>3. FairBoard(t) BY <2>2, FairKinds
 <2>4. PICK moved : moved = [t EXCEPT !.positions[a] = ApplyMove(t.positions[a], die)] OBVIOUS
 <2>5. /\ ~t.over /\ CurrentActor(t) = a
       /\ IF moved.positions[a] = BoardSize THEN EndGame(h, m, moved, a)
          ELSE Keep(m, [moved EXCEPT !.turn = NextTurn(t)])
   BY <1>3, <1>6, <2>1, <2>4 DEF RollSnakes
 <2>6. /\ moved.players = t.players /\ moved.game = t.game
       /\ moved = [game |-> t.game, players |-> t.players, turn |-> t.turn,
                   positions |-> moved.positions, over |-> t.over, winner |-> t.winner]
   BY <2>3, <2>4 DEF FairBoard, BoardTable
 <2>60. /\ moved.positions[a] = BoardSize => FairBoard([moved EXCEPT !.over = TRUE, !.winner = a])
        /\ moved.positions[a] # BoardSize => FairBoard([moved EXCEPT !.turn = NextTurn(t)])
  <3>1. a = CurrentActor(t) /\ ~t.over BY <2>5
  <3> QED BY <2>3, <2>4, <3>1, BoardRolled, Zenon
 <2>7. CASE moved.positions[a] = BoardSize
  <3>1. PICK u : u = [moved EXCEPT !.over = TRUE, !.winner = a] OBVIOUS
  <3>2. u.over /\ u.winner = a /\ u.players = t.players /\ u.game = t.game BY <2>6, <3>1
  <3>3. FairBoard(u) BY <2>60, <2>7, <3>1
  <3>4. EndGame(h, m, moved, a) /\ ~tables[m].over BY <2>2, <2>5, <2>7
  <3>5. Fair(u) /\ Placed(m, u) BY <2>2, <3>2, <3>3 DEF Fair, Placed
  <3> QED BY <3>1, <3>2, <3>4, <3>5, Ended, Zenon
 <2>8. CASE moved.positions[a] # BoardSize
  <3>1. PICK u : u = [moved EXCEPT !.turn = NextTurn(t)] OBVIOUS
  <3>2. u.over = t.over /\ u.players = t.players /\ u.game = t.game BY <2>6, <3>1
  <3>3. FairBoard(u) BY <2>60, <2>8, <3>1
  <3>4. Keep(m, u) BY <2>5, <2>8, <3>1
  <3>5. Fair(u) /\ Placed(m, u) /\ ~tables[m].over /\ ~u.over BY <2>2, <2>5, <3>2, <3>3 DEF Fair, Placed
  <3> QED BY <3>4, <3>5, Kept
 <2> QED BY <2>7, <2>8
<1> QED BY <1>5, <1>6 DEF SnakesStep
-----------------------------
\* Ludo.  A token that moves goes somewhere it was not, and not past home.
LEMMA TokenMoves ==
  ASSUME NEW pos \in {Base} \cup 0..HomeRelPos, NEW die \in Faces,
         NEW to, to = ComputeMove(pos, die), to # IllegalMove
  PROVE  to \in 0..HomeRelPos /\ pos # HomeRelPos
<1>1. die \in Nat \ {0} BY FacesAreNumbers
<1>2. HomeRelPos \in Nat \ {0} /\ Base \notin 0..HomeRelPos BY TracksFit DEF HomeRelPos, LastOnTrack, Base
<1>3. pos # HomeRelPos BY DEF ComputeMove
<1>4. CASE pos = Base BY <1>2, <1>3, <1>4 DEF ComputeMove
<1>5. CASE pos # Base
 <2>1. pos \in 0..HomeRelPos /\ to = pos + die /\ ~(pos + die > HomeRelPos) BY <1>3, <1>5 DEF ComputeMove
 <2> QED BY <1>1, <1>2, <1>3, <2>1
<1> QED BY <1>4, <1>5

\* Nobody meets in a base or at home.
LEMMA OffTrack ==
  ASSUME NEW t, NEW a
  PROVE  Square(t, a, Base) = NoSquare /\ Square(t, a, HomeRelPos) = NoSquare
<1>1. Base \notin 0..LastOnTrack /\ HomeRelPos \notin 0..LastOnTrack
  BY TracksFit DEF HomeRelPos, LastOnTrack, Base
<1> QED BY <1>1 DEF Square

\* Who sits at a table.
LEMMA SeatOf ==
  ASSUME NEW t, NEW b
  PROVE  b \in Seats(t) <=> \E k \in 1..Len(t.players) : t.players[k] = b
  BY DEF Seats

\* Where the tokens are after a has moved token i to square to.
TokensAfter(t, a, i, to) == [Capture(t, a, to) EXCEPT ![a][i] = to]

\* What the tokens of the players are then.
LEMMA TokensMoved ==
  ASSUME NEW t, t \in LudoTable, NEW a \in Accounts, NEW i \in Tokens, NEW to \in 0..HomeRelPos,
         NEW tok, tok = TokensAfter(t, a, i, to)
  PROVE  /\ tok \in [Accounts -> [Tokens -> {Base} \cup 0..HomeRelPos]]
         /\ tok[a][i] = to /\ \A k \in Tokens \ {i} : tok[a][k] = t.tokens[a][k]
         /\ \A b \in Accounts \ {a}, k \in Tokens :
              tok[b][k] = IF /\ Square(t, a, to) \notin {NoSquare} \cup SafeSquares
                             /\ b \in Seats(t)
                             /\ Square(t, b, t.tokens[b][k]) = Square(t, a, to)
                          THEN Base ELSE t.tokens[b][k]
<1>1. PICK cap : cap = Capture(t, a, to) OBVIOUS
<1>2. PICK square : square = Square(t, a, to) OBVIOUS
<1>3. cap = [b \in Accounts |-> [k \in Tokens |->
                IF square \notin {NoSquare} \cup SafeSquares /\ b # a /\ b \in Seats(t)
                     /\ Square(t, b, t.tokens[b][k]) = square
                THEN Base ELSE t.tokens[b][k]]]
  BY <1>1, <1>2, SeatOf DEF Capture
<1>4. \A b \in Accounts : t.tokens[b] \in [Tokens -> {Base} \cup 0..HomeRelPos] BY DEF LudoTable
<1>5. cap \in [Accounts -> [Tokens -> {Base} \cup 0..HomeRelPos]]
 <2>1. ASSUME NEW b \in Accounts, NEW k \in Tokens
       PROVE  cap[b][k] \in {Base} \cup 0..HomeRelPos
   BY <1>3, <1>4, <2>1
 <2>2. ASSUME NEW b \in Accounts
       PROVE  cap[b] = [k \in Tokens |-> cap[b][k]]
  <3>1. cap[b] = [k \in Tokens |->
                    IF square \notin {NoSquare} \cup SafeSquares /\ b # a /\ b \in Seats(t)
                         /\ Square(t, b, t.tokens[b][k]) = square
                    THEN Base ELSE t.tokens[b][k]]
    BY <1>3
  <3> QED BY <3>1
 <2>3. cap = [b \in Accounts |-> cap[b]] BY <1>3
 <2>4. \A b \in Accounts : cap[b] \in [Tokens -> {Base} \cup 0..HomeRelPos] BY <2>1, <2>2, Zenon
 <2> QED BY <2>3, <2>4, Zenon
<1>6. tok = [cap EXCEPT ![a][i] = to] BY <1>1 DEF TokensAfter
<1>7. tok \in [Accounts -> [Tokens -> {Base} \cup 0..HomeRelPos]]
 <2>1. PICK row : row = [cap[a] EXCEPT ![i] = to] OBVIOUS
 <2>2. row \in [Tokens -> {Base} \cup 0..HomeRelPos]
  <3>1. cap[a] \in [Tokens -> {Base} \cup 0..HomeRelPos] BY <1>5
  <3> QED BY <2>1, <3>1
 <2>3. tok = [cap EXCEPT ![a] = row] BY <1>6, <2>1
 <2> QED BY <1>5, <2>2, <2>3
<1>8. tok[a][i] = to /\ \A k \in Tokens \ {i} : tok[a][k] = cap[a][k] BY <1>5, <1>6
<1>9. \A k \in Tokens : cap[a][k] = t.tokens[a][k] BY <1>3
<1>10. \A b \in Accounts \ {a} : tok[b] = cap[b] BY <1>5, <1>6
<1>11. \A b \in Accounts \ {a}, k \in Tokens :
         cap[b][k] = IF square \notin {NoSquare} \cup SafeSquares /\ b \in Seats(t)
                          /\ Square(t, b, t.tokens[b][k]) = square
                     THEN Base ELSE t.tokens[b][k]
  BY <1>3
<1> QED BY <1>2, <1>7, <1>8, <1>9, <1>10, <1>11

\* Still they meet on safe squares only.
LEMMA TokensMeet ==
  ASSUME NEW t, FairLudo(t), NEW a \in Accounts, NEW i \in Tokens, NEW to \in 0..HomeRelPos,
         NEW tok, tok = TokensAfter(t, a, i, to)
  PROVE  \A b, c \in Seats(t) : \A k, l \in Tokens :
           b # c /\ Square(t, b, tok[b][k]) = Square(t, c, tok[c][l])
             => Square(t, b, tok[b][k]) \in SafeSquares \cup {NoSquare}
<1> SUFFICES ASSUME NEW b \in Seats(t), NEW c \in Seats(t), NEW k \in Tokens, NEW l \in Tokens,
                    b # c, Square(t, b, tok[b][k]) = Square(t, c, tok[c][l])
             PROVE  Square(t, b, tok[b][k]) \in SafeSquares \cup {NoSquare}
  OBVIOUS
<1>1. t \in LudoTable /\ b \in Accounts /\ c \in Accounts BY SeatsAre DEF FairLudo, LudoTable
<1>2. PICK old : old = t.tokens OBVIOUS
<1>3. PICK square : square = Square(t, a, to) OBVIOUS
<1>4. /\ tok[a][i] = to /\ \A n \in Tokens \ {i} : tok[a][n] = old[a][n]
      /\ \A d \in Accounts \ {a}, n \in Tokens :
           tok[d][n] = IF square \notin {NoSquare} \cup SafeSquares /\ d \in Seats(t)
                            /\ Square(t, d, old[d][n]) = square
                       THEN Base ELSE old[d][n]
  BY <1>1, <1>2, <1>3, TokensMoved
<1>5. \A n, o \in Tokens : Square(t, b, old[b][n]) = Square(t, c, old[c][o])
        => Square(t, b, old[b][n]) \in SafeSquares \cup {NoSquare}
  BY <1>2 DEF FairLudo, LudoSound
<1>6. Square(t, b, Base) = NoSquare /\ Square(t, c, Base) = NoSquare BY OffTrack
<1>7. CASE b # a /\ c # a
 <2>1. tok[b][k] \in {Base, old[b][k]} /\ tok[c][l] \in {Base, old[c][l]} BY <1>1, <1>4, <1>7
 <2> QED BY <1>5, <1>6, <2>1
<1>8. CASE b = a /\ k # i
 <2>1. tok[b][k] = old[b][k] /\ tok[c][l] \in {Base, old[c][l]} BY <1>1, <1>4, <1>8
 <2> QED BY <1>5, <1>6, <2>1
<1>9. CASE c = a /\ l # i
 <2>1. tok[c][l] = old[c][l] /\ tok[b][k] \in {Base, old[b][k]} BY <1>1, <1>4, <1>9
 <2> QED BY <1>5, <1>6, <2>1
<1>10. CASE b = a /\ k = i
 <2>1. Square(t, b, tok[b][k]) = square BY <1>3, <1>4, <1>10
 <2>2. CASE square \notin {NoSquare} \cup SafeSquares /\ Square(t, c, old[c][l]) = square
   BY <1>1, <1>4, <1>6, <1>10, <2>1, <2>2
 <2>3. CASE square \notin {NoSquare} \cup SafeSquares /\ Square(t, c, old[c][l]) # square
  <3>1. tok[c][l] = old[c][l] BY <1>1, <1>4, <1>10, <2>3
  <3> QED BY <2>1, <2>3, <3>1
 <2> QED BY <2>1, <2>2, <2>3
<1>11. CASE c = a /\ l = i
 <2>1. Square(t, c, tok[c][l]) = square BY <1>3, <1>4, <1>11
 <2>2. CASE square \notin {NoSquare} \cup SafeSquares /\ Square(t, b, old[b][k]) = square
   BY <1>1, <1>4, <1>6, <1>11, <2>1, <2>2
 <2>3. CASE square \notin {NoSquare} \cup SafeSquares /\ Square(t, b, old[b][k]) # square
  <3>1. tok[b][k] = old[b][k] BY <1>1, <1>4, <1>11, <2>3
  <3> QED BY <2>1, <2>3, <3>1
 <2> QED BY <2>1, <2>2, <2>3
<1> QED BY <1>7, <1>8, <1>9, <1>10, <1>11

\* How many tokens a player has.
LEMMA TokensCount == IsFiniteSet(Tokens) /\ Cardinality(Tokens) = TokensPerPlayer
<1>1. PICK n : n = TokensPerPlayer /\ n \in Nat \ {0} BY TracksFit
<1>2. IsFiniteSet(1..n) /\ Cardinality(1..n) = n BY <1>1, FS_Interval
<1> QED BY <1>1, <1>2 DEF Tokens

\* Tokens that are home stay there, and only the one that moved can be new.
LEMMA TokensHome ==
  ASSUME NEW t, FairLudo(t), NEW a \in Seats(t), NEW i \in Tokens, NEW to \in 0..HomeRelPos,
         t.tokens[a][i] # HomeRelPos,
         NEW tok, tok = TokensAfter(t, a, i, to),
         NEW u, u.players = t.players, u.tokens = tok
  PROVE  /\ \A b \in Seats(t) \ {a} : Home(u, b) = Home(t, b)
         /\ to # HomeRelPos => Home(u, a) = Home(t, a)
         /\ to = HomeRelPos => Home(u, a) = Home(t, a) \cup {i}
         /\ i \notin Home(t, a) /\ IsFiniteSet(Home(t, a)) /\ Home(t, a) \subseteq Tokens
<1>1. t \in LudoTable /\ a \in Accounts /\ Seats(t) \subseteq Accounts BY SeatsAre DEF FairLudo, LudoTable
<1>2. /\ tok[a][i] = to /\ \A n \in Tokens \ {i} : tok[a][n] = t.tokens[a][n]
      /\ \A d \in Accounts \ {a}, n \in Tokens :
           tok[d][n] = IF Square(t, a, to) \notin {NoSquare} \cup SafeSquares /\ d \in Seats(t)
                            /\ Square(t, d, t.tokens[d][n]) = Square(t, a, to)
                       THEN Base ELSE t.tokens[d][n]
  BY <1>1, TokensMoved
<1>3. Base # HomeRelPos BY TracksFit DEF HomeRelPos, LastOnTrack, Base
<1>4. ASSUME NEW b \in Seats(t) \ {a}
      PROVE  Home(u, b) = Home(t, b)
 <2>1. ASSUME NEW n \in Tokens
       PROVE  tok[b][n] = HomeRelPos <=> t.tokens[b][n] = HomeRelPos
  <3>1. CASE t.tokens[b][n] = HomeRelPos
   <4>1. Square(t, b, t.tokens[b][n]) = NoSquare BY <3>1, OffTrack
   <4> QED BY <1>1, <1>2, <3>1, <4>1
  <3>2. CASE t.tokens[b][n] # HomeRelPos BY <1>1, <1>2, <1>3, <3>2
  <3> QED BY <3>1, <3>2
 <2> QED BY <2>1 DEF Home
<1>5. i \notin Home(t, a) /\ Home(t, a) \subseteq Tokens BY DEF Home
<1>6. IsFiniteSet(Home(t, a))
 <2>1. IsFiniteSet(Tokens) BY TokensCount
 <2> QED BY <1>5, <2>1, FS_Subset
<1>7. /\ to # HomeRelPos => Home(u, a) = Home(t, a)
      /\ to = HomeRelPos => Home(u, a) = Home(t, a) \cup {i}
 <2>1. Home(u, a) = {n \in Tokens : tok[a][n] = HomeRelPos} BY DEF Home
 <2>2. Home(t, a) = {n \in Tokens : t.tokens[a][n] = HomeRelPos} BY DEF Home
 <2> QED BY <1>2, <2>1, <2>2
<1> QED BY <1>4, <1>5, <1>6, <1>7

\* A new board is fair.
LEMMA LudoFresh ==
  ASSUME NEW m \in MatchIds, FairRow(matches[m]), NEW t, t = FreshLudo(m)
  PROVE  FairLudo(t) /\ ~t.over /\ t.game = "ludo" /\ t.players = matches[m].players
<1>1. /\ t.game = "ludo" /\ t.players = matches[m].players /\ t.turn = 1 /\ t.winner = Nobody /\ ~t.over
      /\ t.die = NoDie
      /\ \A a \in Accounts : t.finished[a] = 0 /\ \A i \in Tokens : t.tokens[a][i] = Base
  BY DEF FreshLudo
<1>2. t \in LudoTable BY DEF FreshLudo, LudoTable, FairRow, MatchRow, Winners
<1>3. Turns(t) BY <1>1, RowFirst DEF Turns, Seating, FairRow
<1>4. Seats(t) \subseteq Accounts BY <1>2, SeatsAre DEF LudoTable
<1>5. Base # HomeRelPos /\ 1 \in Tokens BY TracksFit DEF HomeRelPos, LastOnTrack, Base, Tokens
<1>6. \A a \in Seats(t) : Home(t, a) = {} /\ Home(t, a) # Tokens /\ t.winner # a
 <2>1. ASSUME NEW a \in Seats(t)
       PROVE  Home(t, a) = {} /\ Home(t, a) # Tokens /\ t.winner # a
  <3>1. a \in Accounts /\ t.winner # a BY <1>1, <1>4, NobodyPlays
  <3>2. \A i \in Tokens : t.tokens[a][i] # HomeRelPos BY <1>1, <1>5, <3>1
  <3>3. Home(t, a) = {} BY <3>2 DEF Home
  <3> QED BY <1>5, <3>1, <3>3
 <2> QED BY <2>1
<1>7. Cardinality({}) = 0 BY FS_EmptySet
<1>8. \A a \in Seats(t) : t.finished[a] = Cardinality(Home(t, a)) /\ (t.winner = a <=> Home(t, a) = Tokens)
 <2>1. ASSUME NEW a \in Seats(t)
       PROVE  t.finished[a] = Cardinality(Home(t, a)) /\ (t.winner = a <=> Home(t, a) = Tokens)
  <3>1. t.finished[a] = 0 BY <1>1, <1>4
  <3>2. Home(t, a) = {} /\ Home(t, a) # Tokens /\ t.winner # a BY <1>6
  <3>3. Cardinality(Home(t, a)) = 0 BY <1>7, <3>2
  <3> QED BY <3>1, <3>2, <3>3
 <2> QED BY <2>1
<1>9. \A a \in Seats(t), i \in Tokens : Square(t, a, t.tokens[a][i]) = NoSquare BY <1>1, <1>4, OffTrack
<1> QED BY <1>1, <1>2, <1>3, <1>8, <1>9 DEF FairLudo, LudoSound

\* A table that differs in the die and the turn is as fair as before, if a
\* die that lies has a token it can move.
LEMMA LudoTurned ==
  ASSUME NEW t, FairLudo(t), ~t.over,
         NEW u, u \in LudoTable, u.players = t.players, u.tokens = t.tokens, u.finished = t.finished,
         u.winner = t.winner, u.over = t.over, u.turn \in 1..Len(t.players),
         u.die # NoDie => LegalPieces(t, CurrentActor(u), u.die) # {}
  PROVE  FairLudo(u)
<1>1. Seating(u) /\ Seats(u) = Seats(t) /\ Turns(u) BY SeatingGoes DEF FairLudo, Turns, Seating
<1>2. \A a, d : LegalPieces(u, a, d) = LegalPieces(t, a, d) BY DEF LegalPieces
<1>3. \A a : Home(u, a) = Home(t, a) BY DEF Home
<1>4. \A a, p : Square(u, a, p) = Square(t, a, p) BY DEF Square, ColorOf
<1> QED BY <1>1, <1>2, <1>3, <1>4 DEF FairLudo, LudoSound

\* The turn passes.
LEMMA LudoAdvanced ==
  ASSUME NEW t, FairLudo(t), ~t.over, NEW u, u = AdvanceTurn(t)
  PROVE  FairLudo(u) /\ u.over = t.over /\ u.game = t.game /\ u.players = t.players
<1>1. NextTurn(t) \in 1..Len(t.players) /\ NextTurn(t) \in Nat BY NextInTurn DEF FairLudo, LudoTable
<1>2. /\ u \in LudoTable /\ u.players = t.players /\ u.tokens = t.tokens /\ u.finished = t.finished
      /\ u.winner = t.winner /\ u.over = t.over /\ u.turn = NextTurn(t) /\ u.die = NoDie
      /\ u.game = t.game
  BY <1>1 DEF FairLudo, LudoTable, AdvanceTurn
<1> QED BY <1>1, <1>2, LudoTurned

\* A roll.
LEMMA LudoRolled ==
  ASSUME NEW t, FairLudo(t), ~t.over, NEW a, a = CurrentActor(t), NEW die \in Faces,
         NEW u, u = Rolled(t, a, die)
  PROVE  FairLudo(u) /\ u.over = t.over /\ u.game = t.game /\ u.players = t.players
<1>1. PICK sixes : sixes = IF die = TopFace THEN t.sixes + 1 ELSE 0 OBVIOUS
<1>2. sixes \in Nat BY <1>1 DEF FairLudo, LudoTable
<1>3. u = IF sixes = ThreeSixes \/ LegalPieces(t, a, die) = {} THEN AdvanceTurn(t)
          ELSE [t EXCEPT !.die = die, !.sixes = sixes]
  BY <1>1 DEF Rolled
<1>4. CASE u = AdvanceTurn(t) BY <1>4, LudoAdvanced
<1>5. CASE u = [t EXCEPT !.die = die, !.sixes = sixes] /\ LegalPieces(t, a, die) # {}
 <2>1. /\ u \in LudoTable /\ u.players = t.players /\ u.tokens = t.tokens /\ u.finished = t.finished
       /\ u.winner = t.winner /\ u.over = t.over /\ u.turn = t.turn /\ u.die = die
       /\ u.game = t.game
   BY <1>2, <1>5 DEF FairLudo, LudoTable
 <2>2. CurrentActor(u) = a /\ u.turn \in 1..Len(t.players) BY <2>1 DEF CurrentActor, FairLudo, Turns
 <2> QED BY <1>5, <2>1, <2>2, LudoTurned
<1> QED BY <1>3, <1>4, <1>5

\* The table u that t becomes when a moves token i: it may go home, and win
\* by that.
MovedOn(t, u, a, i, to) ==
  LET home == IF to = HomeRelPos THEN 1 ELSE 0 IN
  /\ u \in LudoTable /\ u.players = t.players /\ u.turn = t.turn /\ u.die = NoDie
  /\ u.tokens = TokensAfter(t, a, i, to)
  /\ u.finished[a] = t.finished[a] + home
  /\ \A b \in Accounts \ {a} : u.finished[b] = t.finished[b]
  /\ u.over <=> t.finished[a] + home = TokensPerPlayer /\ home = 1
  /\ u.winner = IF u.over THEN a ELSE Nobody

\* That is fair.
LEMMA LudoMoved ==
  ASSUME NEW t, FairLudo(t), ~t.over, NEW a, a = CurrentActor(t), NEW i \in Tokens,
         t.die # NoDie, NEW to, to = ComputeMove(t.tokens[a][i], t.die), to # IllegalMove,
         NEW u, MovedOn(t, u, a, i, to)
  PROVE  FairLudo(u)
<1>1. t \in LudoTable /\ a \in Seats(t) /\ a \in Accounts /\ Seats(t) \subseteq Accounts
      /\ t.turn \in 1..Len(t.players) /\ t.winner = Nobody
 <2>1. t \in LudoTable /\ t.players \in Seq(Accounts) /\ t.turn \in 1..Len(t.players) /\ t.winner = Nobody
   BY DEF FairLudo, LudoTable, Turns, Seating
 <2>2. a \in Seats(t) BY <2>1 DEF Seats, CurrentActor
 <2>3. Seats(t) \subseteq Accounts BY <2>1, SeatsAre
 <2> QED BY <2>1, <2>2, <2>3
<1>2. to \in 0..HomeRelPos /\ t.tokens[a][i] # HomeRelPos
 <2>1. t.tokens[a][i] \in {Base} \cup 0..HomeRelPos /\ t.die \in Faces BY <1>1 DEF LudoTable
 <2> QED BY <2>1, TokenMoves
<1>3. PICK tok : tok = TokensAfter(t, a, i, to) OBVIOUS
<1>4. PICK home : home = IF to = HomeRelPos THEN 1 ELSE 0 OBVIOUS
<1>5. u \in LudoTable /\ u.players = t.players /\ u.turn = t.turn /\ u.die = NoDie /\ u.tokens = tok
  BY <1>3 DEF MovedOn
<1>51. u.finished[a] = t.finished[a] + home /\ \A b \in Accounts \ {a} : u.finished[b] = t.finished[b]
  BY <1>4 DEF MovedOn
<1>52. u.over <=> t.finished[a] + home = TokensPerPlayer /\ home = 1 BY <1>4 DEF MovedOn
<1>53. u.winner = IF u.over THEN a ELSE Nobody BY DEF MovedOn
<1>6. t.finished[a] \in Nat BY <1>1 DEF LudoTable
<1>60. \A b, c \in Seats(t) : \A k, l \in Tokens :
         b # c /\ Square(t, b, tok[b][k]) = Square(t, c, tok[c][l])
           => Square(t, b, tok[b][k]) \in SafeSquares \cup {NoSquare}
 <2>1. a \in Accounts BY <1>1
 <2>2. to \in 0..HomeRelPos BY <1>2
 <2> QED BY <1>3, <2>1, <2>2, TokensMeet
<1>8. /\ \A b \in Seats(t) \ {a} : Home(u, b) = Home(t, b)
      /\ to # HomeRelPos => Home(u, a) = Home(t, a)
      /\ to = HomeRelPos => Home(u, a) = Home(t, a) \cup {i}
      /\ i \notin Home(t, a) /\ IsFiniteSet(Home(t, a)) /\ Home(t, a) \subseteq Tokens
 <2>1. a \in Seats(t) BY <1>1
 <2>2. t.tokens[a][i] # HomeRelPos BY <1>2
 <2>3. to \in 0..HomeRelPos BY <1>2
 <2>4. u.players = t.players BY <1>5
 <2>5. u.tokens = tok BY <1>5
 <2> HIDE DEF MovedOn
 <2> QED BY <1>3, <2>1, <2>2, <2>3, <2>4, <2>5, TokensHome
<1>9. \A b \in Seats(t) : t.finished[b] = Cardinality(Home(t, b)) /\ Home(t, b) # Tokens
 <2>1. \A b \in Seats(t) : t.winner # b BY <1>1, NobodyPlays
 <2> QED BY <2>1 DEF FairLudo, LudoSound
<1>10. u.finished[a] = Cardinality(Home(u, a)) /\ (u.over <=> Home(u, a) = Tokens)
 <2>1. CASE to # HomeRelPos
  <3>1. home = 0 /\ Home(u, a) = Home(t, a) /\ ~u.over /\ u.finished[a] = t.finished[a]
    BY <1>4, <1>51, <1>52, <1>6, <1>8, <2>1
  <3> QED BY <1>1, <1>9, <3>1
 <2>2. CASE to = HomeRelPos
  <3>1. home = 1 /\ Home(u, a) = Home(t, a) \cup {i} /\ i \notin Home(t, a) BY <1>4, <1>8, <2>2
  <3>2. PICK H : H = Home(t, a) OBVIOUS
  <3>3. Cardinality(H \cup {i}) = Cardinality(H) + 1 /\ IsFiniteSet(H) BY <1>8, <3>1, <3>2, FS_AddElement
  <3>4. u.finished[a] = Cardinality(Home(u, a)) BY <1>1, <1>51, <1>6, <1>9, <3>1, <3>2, <3>3
  <3>5. u.over <=> Cardinality(Home(u, a)) = Cardinality(Tokens)
    BY <1>51, <1>52, <1>6, <3>1, <3>4, TokensCount
  <3>6. Home(u, a) \in SUBSET Tokens BY DEF Home
  <3>7. Cardinality(Tokens) = Cardinality(Home(u, a)) => Tokens = Home(u, a) BY <3>6, TokensCount, FS_Subset
  <3> QED BY <3>4, <3>5, <3>7
 <2> QED BY <2>1, <2>2
<1>11. Seats(u) = Seats(t) /\ Turns(u)
 <2>1. Seating(u) /\ Seats(u) = Seats(t)
  <3>1. u.winner \in Seats(t) \cup {Nobody} /\ (~u.over => u.winner = Nobody) BY <1>1, <1>53
  <3> QED BY <1>5, <3>1, SeatingGoes DEF FairLudo, Turns
 <2> QED BY <1>1, <1>5, <2>1 DEF Turns
<1>12. ASSUME NEW b \in Seats(u)
       PROVE  u.finished[b] = Cardinality(Home(u, b)) /\ (u.winner = b <=> Home(u, b) = Tokens)
 <2>1. CASE b = a
  <3>1. u.winner = a <=> u.over BY <1>1, <1>53, NobodyPlays
  <3> QED BY <1>10, <2>1, <3>1
 <2>2. CASE b # a
  <3>1. b \in Seats(t) \ {a} /\ b \in Accounts BY <1>1, <1>11, <1>12, <2>2
  <3>2. u.winner # b /\ u.finished[b] = t.finished[b] /\ Home(u, b) = Home(t, b)
    BY <1>1, <1>51, <1>53, <1>8, <3>1, NobodyPlays
  <3> QED BY <1>9, <3>1, <3>2
 <2> QED BY <2>1, <2>2
<1>13. ASSUME NEW b \in Seats(u), NEW c \in Seats(u), NEW k \in Tokens, NEW l \in Tokens,
              b # c, Square(u, b, u.tokens[b][k]) = Square(u, c, u.tokens[c][l])
       PROVE  Square(u, b, u.tokens[b][k]) \in SafeSquares \cup {NoSquare}
 <2>1. \A d, p : Square(u, d, p) = Square(t, d, p) BY <1>5 DEF Square, ColorOf
 <2>2. Square(t, b, tok[b][k]) = Square(t, c, tok[c][l])
  <3>1. Square(u, b, u.tokens[b][k]) = Square(t, b, tok[b][k]) BY <1>5, <2>1, Zenon
  <3>2. Square(u, c, u.tokens[c][l]) = Square(t, c, tok[c][l]) BY <1>5, <2>1, Zenon
  <3> QED BY <1>13, <3>1, <3>2
 <2>3. b \in Seats(t) /\ c \in Seats(t) BY <1>11, <1>13
 <2>4. Square(t, b, tok[b][k]) \in SafeSquares \cup {NoSquare}
  <3>3. b \in Seats(t) BY <2>3
  <3>4. c \in Seats(t) BY <2>3
  <3>5. b # c BY <1>13
  <3> QED BY <1>60, <2>2, <3>3, <3>4, <3>5
 <2>5. Square(u, b, u.tokens[b][k]) = Square(t, b, tok[b][k]) BY <1>5, <2>1, Zenon
 <2> QED BY <2>4, <2>5
<1>14. LudoSound(u) BY <1>5, <1>12, <1>13 DEF LudoSound
<1> QED BY <1>5, <1>11, <1>14 DEF FairLudo

\* The table while MoveToken makes up its mind.
AfterMove(t, a, i, to, home) ==
  [t EXCEPT !.tokens = TokensAfter(t, a, i, to), !.finished[a] = t.finished[a] + home]

\* The table without the die, and the one a has won.
DieTaken(t) == [t EXCEPT !.die = NoDie]
WonBy(t, a) == [t EXCEPT !.die = NoDie, !.over = TRUE, !.winner = a]

\* The tables MoveToken makes.
LEMMA MovedOnIs ==
  ASSUME NEW t, t \in LudoTable, ~t.over, t.winner = Nobody, NEW a \in Accounts, NEW i \in Tokens,
         NEW to \in 0..HomeRelPos, NEW home, home = IF to = HomeRelPos THEN 1 ELSE 0,
         NEW moved, moved = AfterMove(t, a, i, to, home)
  PROVE  /\ moved.finished[a] = t.finished[a] + home
         /\ moved.finished[a] = TokensPerPlayer /\ home = 1 =>
              MovedOn(t, WonBy(moved, a), a, i, to)
         /\ ~(moved.finished[a] = TokensPerPlayer /\ home = 1) =>
              MovedOn(t, DieTaken(moved), a, i, to)
<1>1. PICK tok : tok = TokensAfter(t, a, i, to) OBVIOUS
<1>2. tok \in [Accounts -> [Tokens -> {Base} \cup 0..HomeRelPos]] BY <1>1, TokensMoved
<1>3. PICK fin : fin = [t.finished EXCEPT ![a] = t.finished[a] + home] OBVIOUS
<1>4. home \in Nat /\ t.finished \in [Accounts -> Nat] BY DEF LudoTable
<1>5. /\ fin \in [Accounts -> Nat] /\ fin[a] = t.finished[a] + home
      /\ \A b \in Accounts \ {a} : fin[b] = t.finished[b]
  BY <1>3, <1>4
<1>6. moved = [t EXCEPT !.tokens = tok, !.finished = fin] BY <1>1, <1>3 DEF LudoTable, AfterMove
<1>7. /\ moved.finished = fin /\ moved.tokens = tok /\ moved.players = t.players /\ moved.turn = t.turn
      /\ moved.over = t.over /\ moved.winner = t.winner
      /\ moved \in LudoTable
  BY <1>2, <1>5, <1>6 DEF LudoTable
<1>8. ASSUME moved.finished[a] = TokensPerPlayer, home = 1
      PROVE  MovedOn(t, WonBy(moved, a), a, i, to)
 <2>1. PICK u : u = WonBy(moved, a) OBVIOUS
 <2>2. /\ u \in LudoTable /\ u.players = t.players /\ u.turn = t.turn /\ u.die = NoDie
       /\ u.tokens = tok /\ u.finished = fin /\ u.over /\ u.winner = a
   BY <1>7, <2>1 DEF LudoTable, Winners, WonBy
 <2> QED BY <1>1, <1>5, <1>7, <1>8, <2>1, <2>2 DEF MovedOn
<1>9. ASSUME ~(moved.finished[a] = TokensPerPlayer /\ home = 1)
      PROVE  MovedOn(t, DieTaken(moved), a, i, to)
 <2>1. PICK u : u = DieTaken(moved) OBVIOUS
 <2>2. /\ u \in LudoTable /\ u.players = t.players /\ u.turn = t.turn /\ u.die = NoDie
       /\ u.tokens = tok /\ u.finished = fin /\ ~u.over /\ u.winner = Nobody
   BY <1>7, <2>1 DEF LudoTable, DieTaken
 <2> QED BY <1>1, <1>5, <1>7, <1>9, <2>1, <2>2 DEF MovedOn
<1> QED BY <1>5, <1>7, <1>8, <1>9

\* Ludo: every step leaves a fair table.
LEMMA LudoMoves ==
  ASSUME LobbyTyped, TablesFair, NEW h \in Handlers, NEW m \in MatchIds, LudoStep(h, m)
  PROVE  \E u : PlayMove(m, u)
<1>1. Served(m, "ludo")
 <2>1. CASE LookAtLudo(m) BY <2>1 DEF LookAtLudo
 <2>2. ASSUME NEW a \in Accounts, NEW die \in Faces, RollLudo(m, a, die)
       PROVE  Active(m, "ludo")
   BY <2>2 DEF RollLudo
 <2>3. ASSUME NEW a \in Accounts, NEW i \in Tokens, MoveToken(h, m, a, i)
       PROVE  Active(m, "ludo")
   BY <2>3 DEF MoveToken
 <2> QED BY <2>1, <2>2, <2>3, ActiveServed DEF LudoStep
<1>2. FairRow(matches[m]) /\ matches[m].state \notin {"none", "lobby"} /\ matches[m].game = "ludo"
  BY <1>1, RowServed DEF LobbyTyped
<1>3. PICK fresh : fresh = FreshLudo(m) OBVIOUS
<1>4. ~fresh.over /\ Fair(fresh) /\ Placed(m, fresh)
 <2>1. FairLudo(fresh) /\ ~fresh.over /\ fresh.game = "ludo" /\ fresh.players = matches[m].players
   BY <1>2, <1>3, LudoFresh
 <2>2. Fair(fresh) BY <2>1 DEF Fair
 <2> QED BY <1>2, <2>1, <2>2 DEF Placed
<1>5. PICK t : t = Table(m, fresh) OBVIOUS
<1>6. Fair(t) /\ Placed(m, t) /\ t.game = "ludo" /\ (~t.over => ~tables[m].over)
  BY <1>1, <1>4, <1>5, TableFound
<1>7. FairLudo(t) BY <1>6, FairKinds
<1>8. CASE LookAtLudo(m)
 <2>1. tables[m] = NoTable /\ Keep(m, fresh) BY <1>3, <1>8 DEF LookAtLudo
 <2>2. ~tables[m].over BY <2>1 DEF NoTable
 <2> QED BY <1>4, <2>1, <2>2, Kept
<1>9. ASSUME NEW a \in Accounts, NEW die \in Faces, RollLudo(m, a, die)
      PROVE  \E u : PlayMove(m, u)
 <2>1. PICK u : u = Rolled(t, a, die) OBVIOUS
 <2>2. ~t.over /\ a = CurrentActor(t) /\ Keep(m, u) BY <1>3, <1>5, <1>9, <2>1 DEF RollLudo
 <2>3. FairLudo(u) /\ u.over = t.over /\ u.game = t.game /\ u.players = t.players
   BY <1>7, <2>1, <2>2, LudoRolled
 <2>4. Fair(u) /\ Placed(m, u) /\ ~tables[m].over /\ ~u.over BY <1>6, <2>2, <2>3 DEF Fair, Placed
 <2> QED BY <2>2, <2>4, Kept
<1>10. ASSUME NEW a \in Accounts, NEW i \in Tokens, MoveToken(h, m, a, i)
       PROVE  \E u : PlayMove(m, u)
 <2>1. t = tables[m] BY <1>5, <1>10 DEF MoveToken, Table
 <2>2. PICK to : to = ComputeMove(t.tokens[a][i], t.die) OBVIOUS
 <2>3. PICK home : home = IF to = HomeRelPos THEN 1 ELSE 0 OBVIOUS
 <2>4. PICK moved : moved = AfterMove(t, a, i, to, home) OBVIOUS
 <2>5. /\ ~t.over /\ a = CurrentActor(t) /\ t.die # NoDie /\ to # IllegalMove
       /\ IF moved.finished[a] = TokensPerPlayer /\ home = 1
            THEN EndGame(h, m, [moved EXCEPT !.die = NoDie], a)
          ELSE IF t.die = TopFace THEN Keep(m, [moved EXCEPT !.die = NoDie])
          ELSE Keep(m, AdvanceTurn(moved))
   BY <1>10, <2>1, <2>2, <2>3, <2>4 DEF MoveToken, AfterMove, TokensAfter
 <2>6. t \in LudoTable /\ t.winner = Nobody BY <1>7, <2>5 DEF FairLudo, Turns, Seating
 <2>7. to \in 0..HomeRelPos
  <3>1. t.tokens[a][i] \in {Base} \cup 0..HomeRelPos /\ t.die \in Faces BY <2>5, <2>6 DEF LudoTable
  <3> QED BY <2>2, <2>5, <3>1, TokenMoves
 <2>8. /\ moved.finished[a] = TokensPerPlayer /\ home = 1 =>
            MovedOn(t, WonBy(moved, a), a, i, to)
       /\ ~(moved.finished[a] = TokensPerPlayer /\ home = 1) =>
            MovedOn(t, DieTaken(moved), a, i, to)
  <3>1. ~t.over BY <2>5
  <3> QED BY <2>3, <2>4, <2>6, <2>7, <3>1, MovedOnIs
 <2>9. ASSUME NEW u, MovedOn(t, u, a, i, to)
       PROVE  FairLudo(u) /\ Fair(u) /\ Placed(m, u)
  <3>1. FairLudo(u) BY <1>7, <2>2, <2>5, <2>9, LudoMoved, Zenon
  <3>2. u.players = t.players /\ u.game = "ludo" BY <2>9 DEF MovedOn, LudoTable
  <3> QED BY <1>6, <3>1, <3>2 DEF Fair, Placed
 <2>10. moved = [game |-> moved.game, players |-> moved.players, turn |-> moved.turn,
                 tokens |-> moved.tokens,
                 finished |-> moved.finished, die |-> moved.die, sixes |-> moved.sixes,
                 over |-> moved.over, winner |-> moved.winner] /\ ~moved.over
   BY <2>4, <2>5, <2>6 DEF LudoTable, AfterMove
 <2>11. CASE moved.finished[a] = TokensPerPlayer /\ home = 1
  <3>1. PICK u : u = WonBy(moved, a) OBVIOUS
  <3>2. u = [[moved EXCEPT !.die = NoDie] EXCEPT !.over = TRUE, !.winner = a] /\ u.over /\ u.winner = a
    BY <2>10, <3>1 DEF WonBy
  <3>3. Fair(u) /\ Placed(m, u) BY <2>8, <2>9, <2>11, <3>1
  <3>4. EndGame(h, m, [moved EXCEPT !.die = NoDie], a) /\ ~tables[m].over BY <1>6, <2>5, <2>11
  <3> QED BY <3>2, <3>3, <3>4, Ended, Zenon
 <2>12. CASE ~(moved.finished[a] = TokensPerPlayer /\ home = 1)
  <3>1. PICK u : u = DieTaken(moved) OBVIOUS
  <3>2. FairLudo(u) /\ Fair(u) /\ Placed(m, u) BY <2>8, <2>9, <2>12, <3>1
  <3>3. ~u.over /\ ~tables[m].over BY <1>6, <2>5, <2>10, <3>1 DEF DieTaken
  <3>4. CASE t.die = TopFace
   <4>1. Keep(m, u) BY <2>5, <2>12, <3>1, <3>4 DEF DieTaken
   <4> QED BY <3>2, <3>3, <4>1, Kept
  <3>5. CASE t.die # TopFace
   <4>1. PICK v : v = AdvanceTurn(u) OBVIOUS
   <4>2. FairLudo(v) /\ v.over = u.over /\ v.game = u.game /\ v.players = u.players
     BY <3>2, <3>3, <4>1, LudoAdvanced
   <4>3. AdvanceTurn(moved) = v BY <2>10, <3>1, <4>1 DEF AdvanceTurn, NextTurn, DieTaken
   <4>4. Keep(m, v) BY <2>5, <2>12, <3>5, <4>3
   <4>5. Fair(v) /\ Placed(m, v) /\ ~v.over BY <3>2, <3>3, <4>2 DEF Fair, Placed
   <4> QED BY <3>3, <4>4, <4>5, Kept
  <3> QED BY <3>4, <3>5
 <2> QED BY <2>11, <2>12
<1> QED BY <1>8, <1>9, <1>10 DEF LudoStep
-----------------------------
\* The one of S with the highest score, if there is one.
TopOf(S, scores) ==
  LET best == {p \in S : \A q \in S : ~(scores[q] > scores[p])}
  IN IF Cardinality(best) = 1 THEN CHOOSE p \in best : TRUE ELSE Nobody

\* What is chosen from a set with one member is a member.
LEMMA ChosenIsOne ==
  ASSUME NEW S, IsFiniteSet(S), NEW B, B \subseteq S,
         NEW w, w = IF Cardinality(B) = 1 THEN CHOOSE p \in B : TRUE ELSE Nobody
  PROVE  w \in S \cup {Nobody}
<1>1. IsFiniteSet(B) BY FS_Subset
<1>2. CASE Cardinality(B) = 1
 <2>1. PICK x : B = {x} BY <1>1, <1>2, FS_Singleton
 <2>2. (CHOOSE p \in B : TRUE) \in B BY <2>1
 <2> QED BY <1>2, <2>2
<1>3. CASE Cardinality(B) # 1 BY <1>3
<1> QED BY <1>2, <1>3

\* Who is on top is one of them, or nobody.
LEMMA TopIsOne ==
  ASSUME NEW S, IsFiniteSet(S), NEW scores
  PROVE  TopOf(S, scores) \in S \cup {Nobody}
<1>1. PICK B : B = {p \in S : \A q \in S : ~(scores[q] > scores[p])} OBVIOUS
<1>2. TopOf(S, scores) = IF Cardinality(B) = 1 THEN CHOOSE p \in B : TRUE ELSE Nobody BY <1>1 DEF TopOf
<1>3. B \subseteq S BY <1>1
<1> QED BY <1>2, <1>3, ChosenIsOne

\* That is how carrom and the quiz choose.
LEMMA TopWins ==
  ASSUME NEW t
  PROVE  /\ CarromWinner(t) = TopOf(Seats(t), t.scores)
         /\ QuizWinner(t) = TopOf(Seats(t), t.scores)
         /\ OnlyTop(t, LAMBDA a : t.scores[a]) = TopOf(Seats(t), t.scores)
<1>1. CarromWinner(t) = TopOf(Seats(t), t.scores) BY DEF CarromWinner, OnlyBest, TopOf, Seats
<1>2. QuizWinner(t) = TopOf(Seats(t), t.scores) BY DEF QuizWinner, OnlyBest, TopOf, Seats, Contestants
<1>3. OnlyTop(t, LAMBDA a : t.scores[a]) = TopOf(Seats(t), t.scores) BY DEF OnlyTop, OnlyBest, TopOf
<1> QED BY <1>1, <1>2, <1>3

\* Carrom.  A table in the middle of a step: the last piece may be gone.
MidCarrom(t) ==
  /\ t \in CarromTable /\ Turns(t) /\ ~t.over
  /\ t.pending # Nobody => t.pending = CurrentActor(t) /\ t.pieces > 0
  /\ t.queenPocketed <=> (t.queenCovered \/ t.pending # Nobody)
  /\ Total(t) <= Regular * (StartPieces - t.pieces) + (IF t.queenCovered THEN QueenBonus ELSE 0)
  /\ t.queenCovered => t.pending = Nobody

\* CarromSound, with the winner by the name used here.
LEMMA CarromSoundIs ==
  ASSUME NEW t
  PROVE  CarromSound(t) <=>
           /\ t.pending # Nobody => t.pending = CurrentActor(t) /\ t.pieces > 0
           /\ t.queenPocketed <=> (t.queenCovered \/ t.pending # Nobody)
           /\ Total(t) <= Regular * (StartPieces - t.pieces)
                            + (IF t.queenCovered THEN QueenBonus ELSE 0)
           /\ t.over <=> t.pieces = 0
           /\ t.over => t.winner = TopOf(Seats(t), t.scores)
<1>1. OnlyTop(t, LAMBDA a : t.scores[a]) = TopOf(Seats(t), t.scores) BY TopWins
<1> QED BY <1>1 DEF CarromSound

\* One where the game goes on is fair, and the other way round.
LEMMA CarromMiddle ==
  ASSUME NEW t, ~t.over
  PROVE  FairCarrom(t) <=> MidCarrom(t) /\ t.pieces # 0
<1>1. CarromSound(t) <=>
           /\ t.pending # Nobody => t.pending = CurrentActor(t) /\ t.pieces > 0
           /\ t.queenPocketed <=> (t.queenCovered \/ t.pending # Nobody)
           /\ Total(t) <= Regular * (StartPieces - t.pieces)
                            + (IF t.queenCovered THEN QueenBonus ELSE 0)
           /\ t.over <=> t.pieces = 0
           /\ t.over => t.winner = TopOf(Seats(t), t.scores)
  BY CarromSoundIs
<1> QED BY <1>1 DEF FairCarrom, MidCarrom

\* g is f but for a.
SameBut(f, g, a) == \A b \in Accounts \ {a} : g[b] = f[b]

\* When one player's score changes the total changes by as much.
LEMMA CarromTotal ==
  ASSUME NEW t, t \in CarromTable, NEW u, u \in CarromTable, u.players = t.players,
         NEW a \in Seats(t), SameBut(t.scores, u.scores, a)
  PROVE  Total(u) = Total(t) - t.scores[a] + u.scores[a] /\ Total(t) \in Nat
<1>1. Seats(u) = Seats(t) /\ Seats(t) \subseteq Accounts /\ IsFiniteSet(Seats(t))
  BY SeatsSame, SeatsAre DEF CarromTable
<1>2. t.scores \in [Accounts -> Nat] /\ u.scores \in [Accounts -> Nat] BY DEF CarromTable
<1>3. PICK f, g, S : f = t.scores /\ g = u.scores /\ S = Seats(t) OBVIOUS
<1>31. S \subseteq Accounts /\ f \in [Accounts -> Nat] /\ g \in [Accounts -> Nat] BY <1>1, <1>2, <1>3
<1>4. \A b \in S : f[b] \in Int /\ g[b] \in Int /\ f[b] \in Nat BY <1>31
<1>5. \A b \in S \ {a} : g[b] = f[b] BY <1>1, <1>3, Zenon DEF SameBut
<1>6. IsFiniteSet(S) /\ a \in S BY <1>1, <1>3
<1>7. SumFunctionOnSet(g, S) = SumFunctionOnSet(f, S) - f[a] + g[a] BY <1>4, <1>5, <1>6, SumExcept
<1>8. SumFunctionOnSet(f, S) \in Nat BY <1>4, <1>6, SumNat
<1> QED BY <1>1, <1>3, <1>7, <1>8 DEF Total

\* A new carrom board is fair.
LEMMA CarromFresh ==
  ASSUME NEW m \in MatchIds, FairRow(matches[m]), NEW t, t = FreshCarrom(m)
  PROVE  FairCarrom(t) /\ ~t.over /\ t.game = "carrom" /\ t.players = matches[m].players
<1>1. /\ t.game = "carrom" /\ t.players = matches[m].players /\ t.turn = 1 /\ t.winner = Nobody /\ ~t.over
      /\ t.pending = Nobody /\ ~t.queenPocketed /\ ~t.queenCovered /\ t.pieces = StartPieces
      /\ \A a \in Accounts : t.scores[a] = 0
  BY DEF FreshCarrom
<1>2. t \in CarromTable BY PiecesPositive DEF FreshCarrom, CarromTable, FairRow, MatchRow, Winners
<1>3. Turns(t) BY <1>1, RowFirst DEF Turns, Seating, FairRow
<1>4. Seats(t) \subseteq Accounts /\ IsFiniteSet(Seats(t)) BY <1>2, SeatsAre DEF CarromTable
<1>5. Total(t) = 0
 <2>1. \A a \in Seats(t) : t.scores[a] = 0 /\ 0 \in Nat BY <1>1, <1>4, Zenon
 <2> QED BY <1>4, <2>1, SumNat DEF Total
<1>6. MidCarrom(t) BY <1>1, <1>2, <1>3, <1>5, PiecesPositive DEF MidCarrom, Regular
<1> QED BY <1>1, <1>6, CarromMiddle, PiecesPositive

\* What a step may change at a table where the game goes on.
LEMMA CarromGoes ==
  ASSUME NEW t, MidCarrom(t), NEW u, u \in CarromTable, u.players = t.players, ~u.over,
         u.winner = t.winner, u.turn \in 1..Len(t.players),
         u.pending # Nobody => u.pending = CurrentActor(u) /\ u.pieces > 0,
         u.queenPocketed <=> (u.queenCovered \/ u.pending # Nobody),
         u.queenCovered => u.pending = Nobody,
         Total(u) <= Regular * (StartPieces - u.pieces) + (IF u.queenCovered THEN QueenBonus ELSE 0)
  PROVE  MidCarrom(u)
<1>1. Turns(t) /\ t.winner = Nobody BY DEF MidCarrom, Turns, Seating
<1>2. Seating(u)
 <2>1. u.winner \in Seats(t) \cup {Nobody} /\ u.winner = Nobody BY <1>1
 <2> QED BY <1>1, <2>1, SeatingGoes DEF Turns
<1>3. Turns(u) BY <1>2 DEF Turns
<1> QED BY <1>3 DEF MidCarrom

\* Who is on turn is a player, and no queen waits for anybody else.
LEMMA CarromActor ==
  ASSUME NEW t, MidCarrom(t)
  PROVE  /\ CurrentActor(t) \in Seats(t) /\ CurrentActor(t) \in Accounts
         /\ CurrentActor(t) # Nobody /\ t.pending \in {Nobody, CurrentActor(t)}
<1>1. t.turn \in 1..Len(t.players) /\ t.players \in Seq(Accounts) BY DEF MidCarrom, Turns, CarromTable
<1>2. CurrentActor(t) \in Seats(t) /\ Seats(t) \subseteq Accounts BY <1>1, SeatsAre DEF CurrentActor
<1> QED BY <1>2, NobodyPlays DEF MidCarrom

\* The same players at a table with the same scores have the same total.
LEMMA TotalSame ==
  ASSUME NEW t, NEW u, u.players = t.players, u.scores = t.scores
  PROVE  Total(u) = Total(t)
  BY SeatsSame DEF Total

\* A queen without cover goes back.
LEMMA CarromReverts ==
  ASSUME NEW t, MidCarrom(t), NEW u, u = RevertPendingQueen(t)
  PROVE  /\ MidCarrom(u) /\ u.pending = Nobody /\ u.pieces = t.pieces
         /\ u.players = t.players /\ u.game = t.game
<1>1. t.pending \in {Nobody, CurrentActor(t)} /\ CurrentActor(t) # Nobody BY CarromActor
<1>2. CASE t.pending # CurrentActor(t)
 <2>1. u = t BY <1>2 DEF RevertPendingQueen
 <2> QED BY <1>1, <1>2, <2>1
<1>3. CASE t.pending = CurrentActor(t)
 <2>1. u = [t EXCEPT !.queenPocketed = FALSE, !.pending = Nobody] BY <1>3 DEF RevertPendingQueen
 <2>2. t \in CarromTable /\ ~t.queenCovered /\ ~t.over BY <1>1, <1>3 DEF MidCarrom
 <2>3. /\ u \in CarromTable /\ u.players = t.players /\ u.scores = t.scores /\ u.pieces = t.pieces
       /\ u.turn = t.turn /\ u.winner = t.winner /\ u.game = t.game
   BY <2>1, <2>2 DEF CarromTable, Winners
 <2>4. ~u.over /\ ~u.queenPocketed /\ ~u.queenCovered /\ u.pending = Nobody BY <2>1, <2>2 DEF CarromTable
 <2>5. Total(u) <= Regular * (StartPieces - u.pieces) + (IF u.queenCovered THEN QueenBonus ELSE 0)
   BY <2>2, <2>3, <2>4, TotalSame DEF MidCarrom
 <2>6. u.turn \in 1..Len(t.players) BY <2>3 DEF MidCarrom, Turns
 <2> QED BY <2>3, <2>4, <2>5, <2>6, CarromGoes
<1> QED BY <1>2, <1>3

\* What a foul costs.
Fined(t, a) == [t EXCEPT !.scores[a] = IF @ < FoulPenalty THEN 0 ELSE @ - FoulPenalty]

\* A foul takes no more than there is.
LEMMA CarromFouled ==
  ASSUME NEW t, MidCarrom(t), NEW a, a = CurrentActor(t), NEW u, u = Fined(t, a)
  PROVE  MidCarrom(u) /\ u.pieces = t.pieces /\ u.players = t.players /\ u.game = t.game
<1>1. t \in CarromTable /\ a \in Seats(t) /\ a \in Accounts /\ ~t.over BY CarromActor DEF MidCarrom
<1>2. PICK x : x = IF t.scores[a] < FoulPenalty THEN 0 ELSE t.scores[a] - FoulPenalty OBVIOUS
<1>3. x \in Nat /\ x <= t.scores[a] /\ t.scores[a] \in Nat BY <1>1, <1>2 DEF CarromTable, FoulPenalty
<1>4. PICK sc : sc = [t.scores EXCEPT ![a] = x] OBVIOUS
<1>5. sc \in [Accounts -> Nat] /\ sc[a] = x BY <1>1, <1>3, <1>4 DEF CarromTable
<1>6. SameBut(t.scores, sc, a) BY <1>1, <1>4 DEF CarromTable, SameBut
<1>7. u = [t EXCEPT !.scores = sc] BY <1>2, <1>4, Zenon DEF Fined
<1>8. /\ u \in CarromTable /\ u.players = t.players /\ u.scores = sc /\ u.pieces = t.pieces
      /\ u.turn = t.turn /\ u.winner = t.winner /\ u.game = t.game /\ u.pending = t.pending
  BY <1>1, <1>5, <1>7 DEF CarromTable
<1>9. /\ u.over <=> t.over
      /\ u.queenPocketed <=> t.queenPocketed
      /\ u.queenCovered <=> t.queenCovered
  BY <1>1, <1>7 DEF CarromTable
<1>10. Total(u) = Total(t) - t.scores[a] + u.scores[a] /\ Total(t) \in Nat BY <1>1, <1>6, <1>8, CarromTotal
<1>11. Total(u) <= Total(t) /\ Total(u) \in Int BY <1>3, <1>5, <1>8, <1>10
<1>12. PICK bound : bound = Regular * (StartPieces - t.pieces) + (IF t.queenCovered THEN QueenBonus ELSE 0)
  OBVIOUS
<1>13. bound \in Int BY <1>1, <1>12, PiecesPositive DEF CarromTable, Regular, QueenBonus
<1>14. Total(u) <= bound BY <1>10, <1>11, <1>12, <1>13 DEF MidCarrom
<1>15. Total(u) <= Regular * (StartPieces - u.pieces) + (IF u.queenCovered THEN QueenBonus ELSE 0)
  BY <1>8, <1>9, <1>12, <1>14
<1>16. /\ u.pending # Nobody => u.pending = CurrentActor(u) /\ u.pieces > 0
       /\ u.queenPocketed <=> (u.queenCovered \/ u.pending # Nobody)
       /\ u.queenCovered => u.pending = Nobody
       /\ u.turn \in 1..Len(t.players)
  BY <1>8, <1>9 DEF MidCarrom, CurrentActor, Turns
<1> QED BY <1>1, <1>8, <1>9, <1>15, <1>16, CarromGoes
-----------------------------

\* What a pocketed piece brings, and the queen with it when it is her cover.
Gained(t, a) ==
  IF t.pending = a
  THEN [t EXCEPT !.pieces = @ - 1, !.scores[a] = @ + Regular + QueenBonus,
                 !.queenCovered = TRUE, !.pending = Nobody]
  ELSE [t EXCEPT !.pieces = @ - 1, !.scores[a] = @ + Regular]

\* A piece that is pocketed is paid once, also for the queen.
LEMMA CarromPocketed ==
  ASSUME NEW t, MidCarrom(t), NEW a, a = CurrentActor(t), t.pieces # 0, NEW u, u = Gained(t, a)
  PROVE  MidCarrom(u) /\ u.players = t.players /\ u.game = t.game
<1>1. /\ t \in CarromTable /\ a \in Seats(t) /\ a \in Accounts /\ a # Nobody /\ ~t.over
      /\ t.pending \in {Nobody, a}
  BY CarromActor DEF MidCarrom
<1>2. PICK x : x = IF t.pending = a THEN t.scores[a] + Regular + QueenBonus ELSE t.scores[a] + Regular
  OBVIOUS
<1>3. /\ x \in Nat /\ t.scores[a] \in Nat
      /\ x - t.scores[a] = IF t.pending = a THEN Regular + QueenBonus ELSE Regular
  BY <1>1, <1>2 DEF CarromTable, Regular, QueenBonus
<1>4. PICK sc : sc = [t.scores EXCEPT ![a] = x] OBVIOUS
<1>5. sc \in [Accounts -> Nat] /\ sc[a] = x BY <1>1, <1>3, <1>4 DEF CarromTable
<1>6. SameBut(t.scores, sc, a) BY <1>1, <1>4 DEF CarromTable, SameBut
<1>7. t.pieces - 1 \in 0..StartPieces /\ t.pieces \in 1..StartPieces BY <1>1, PiecesPositive DEF CarromTable
<1>8. /\ t.pending = a => u = [t EXCEPT !.pieces = t.pieces - 1, !.scores = sc,
                                        !.queenCovered = TRUE, !.pending = Nobody]
      /\ t.pending # a => u = [t EXCEPT !.pieces = t.pieces - 1, !.scores = sc]
  BY <1>1, <1>2, <1>4 DEF Gained, CarromTable
<1>9. /\ u \in CarromTable /\ u.players = t.players /\ u.scores = sc /\ u.pieces = t.pieces - 1
      /\ u.turn = t.turn /\ u.winner = t.winner /\ u.game = t.game /\ u.pending = Nobody
 <2>1. CASE t.pending = a
  <3>1. u = [t EXCEPT !.pieces = t.pieces - 1, !.scores = sc, !.queenCovered = TRUE, !.pending = Nobody]
    BY <1>8, <2>1
  <3>2. Nobody \in Winners BY DEF Winners
  <3>3. u \in CarromTable BY <1>1, <1>5, <1>7, <3>1, <3>2 DEF CarromTable
  <3> QED BY <1>1, <3>1, <3>3 DEF CarromTable
 <2>2. CASE t.pending # a BY <1>1, <1>5, <1>7, <1>8, <2>2, ZenonT(60) DEF CarromTable, Winners
 <2> QED BY <2>1, <2>2
<1>10. /\ u.over <=> t.over
       /\ u.queenPocketed <=> t.queenPocketed
       /\ u.queenCovered <=> (t.pending = a \/ t.queenCovered)
 <2>1. CASE t.pending = a BY <1>1, <1>8, <2>1 DEF CarromTable
 <2>2. CASE t.pending # a BY <1>1, <1>8, <2>2 DEF CarromTable
 <2> QED BY <2>1, <2>2
<1>11. Total(u) = Total(t) - t.scores[a] + u.scores[a] /\ Total(t) \in Nat BY <1>1, <1>6, <1>9, CarromTotal
<1>12. t.pending = a => ~t.queenCovered BY <1>1 DEF MidCarrom
<1>13. Total(t) <= Regular * (StartPieces - t.pieces) + (IF t.queenCovered THEN QueenBonus ELSE 0)
  BY DEF MidCarrom
<1>14. Total(u) <= Regular * (StartPieces - u.pieces) + (IF u.queenCovered THEN QueenBonus ELSE 0)
 <2>1. PICK total, p, s : total = Total(t) /\ p = t.pieces /\ s = StartPieces OBVIOUS
 <2>2. total \in Nat /\ p \in Nat /\ s \in Nat BY <1>7, <1>11, <2>1, PiecesPositive
 <2>3. u.pieces = p - 1 /\ Total(u) = total + (x - t.scores[a]) BY <1>3, <1>5, <1>9, <1>11, <2>1
 <2>4. CASE t.pending = a
  <3>1. u.queenCovered /\ ~t.queenCovered BY <1>10, <1>12, <2>4
  <3>2. total <= 10 * (s - p) /\ Total(u) = total + 60
    BY <1>3, <1>13, <2>1, <2>2, <2>3, <2>4, <3>1 DEF Regular, QueenBonus
  <3>3. Total(u) <= 10 * (s - (p - 1)) + 50 BY <2>2, <3>2
  <3> QED BY <2>1, <2>3, <3>1, <3>3 DEF Regular, QueenBonus
 <2>5. CASE t.pending # a
  <3>1. u.queenCovered <=> t.queenCovered BY <1>10, <2>5
  <3>2. PICK b : b = IF t.queenCovered THEN QueenBonus ELSE 0 OBVIOUS
  <3>3. b \in Nat BY <3>2 DEF QueenBonus
  <3>4. total <= 10 * (s - p) + b /\ Total(u) = total + 10
    BY <1>3, <1>13, <2>1, <2>2, <2>3, <2>5, <3>2 DEF Regular
  <3>5. Total(u) <= 10 * (s - (p - 1)) + b BY <2>2, <3>3, <3>4
  <3> QED BY <2>1, <2>3, <3>1, <3>2, <3>5 DEF Regular
 <2> QED BY <2>4, <2>5
<1>15. u.queenPocketed <=> (u.queenCovered \/ u.pending # Nobody) BY <1>1, <1>9, <1>10 DEF MidCarrom
<1>16. u.turn \in 1..Len(t.players) BY <1>9 DEF MidCarrom, Turns
<1> QED BY <1>1, <1>9, <1>10, <1>14, <1>15, <1>16, CarromGoes

\* The queen waits for her cover.
Uncovered(t, a) == [t EXCEPT !.queenPocketed = TRUE, !.pending = a]

\* The queen is pocketed, and waits for its cover.
LEMMA CarromQueen ==
  ASSUME NEW t, MidCarrom(t), NEW a, a = CurrentActor(t), t.pieces # 0, ~t.queenPocketed,
         NEW u, u = Uncovered(t, a)
  PROVE  MidCarrom(u) /\ u.players = t.players /\ u.game = t.game
<1>1. t \in CarromTable /\ a \in Accounts /\ a # Nobody /\ ~t.over /\ ~t.queenCovered
  BY CarromActor DEF MidCarrom
<1>2. /\ u \in CarromTable /\ u.players = t.players /\ u.scores = t.scores /\ u.pieces = t.pieces
      /\ u.turn = t.turn /\ u.winner = t.winner /\ u.game = t.game /\ u.pending = a
  BY <1>1 DEF Uncovered, CarromTable, Winners
<1>3. ~u.over /\ u.queenPocketed /\ ~u.queenCovered BY <1>1 DEF Uncovered, CarromTable
<1>4. Total(u) = Total(t) BY <1>2, TotalSame
<1>5. Total(u) <= Regular * (StartPieces - u.pieces) + (IF u.queenCovered THEN QueenBonus ELSE 0)
  BY <1>1, <1>2, <1>3, <1>4 DEF MidCarrom
<1>6. u.pieces > 0 /\ u.pending = CurrentActor(u) /\ u.turn \in 1..Len(t.players)
  BY <1>1, <1>2, PiecesPositive DEF CurrentActor, CarromTable, MidCarrom, Turns
<1> QED BY <1>1, <1>2, <1>3, <1>5, <1>6, CarromGoes

\* The table with seat n on turn.
Onward(t, n) == [t EXCEPT !.turn = n, !.elapsed = 0]

\* The winner of carrom wins a fair table, and a table that goes on is fair.
LEMMA CarromSettled ==
  ASSUME NEW h \in Handlers, NEW m \in MatchIds, NEW u, MidCarrom(u), Placed(m, u), ~tables[m].over,
         NEW next, Settle(h, m, u, next),
         next = KeepTurn(u) \/ (next = PassTurn(u) /\ u.pending = Nobody)
  PROVE  \E v : PlayMove(m, v)
<1>1. u \in CarromTable /\ Turns(u) /\ ~u.over /\ u.pieces \in Nat
  BY PiecesPositive DEF MidCarrom, CarromTable
<1>2. Seats(u) \subseteq Accounts /\ IsFiniteSet(Seats(u)) BY <1>1, SeatsAre DEF CarromTable
<1>3. u.winner = Nobody /\ Seating(u) BY <1>1 DEF Turns, Seating
<1>4. CarromEnd(u) <=> u.pieces = 0 BY DEF CarromEnd, MidCarrom
<1>5. CASE u.pieces = 0
 <2>1. PICK w : w = CarromWinner(u) OBVIOUS
 <2>2. w = TopOf(Seats(u), u.scores) /\ w \in Seats(u) \cup {Nobody} BY <1>2, <2>1, TopWins, TopIsOne
 <2>3. PICK v : v = [u EXCEPT !.over = TRUE, !.winner = w] OBVIOUS
 <2>4. /\ v \in CarromTable /\ v.players = u.players /\ v.scores = u.scores /\ v.pieces = u.pieces
       /\ v.turn = u.turn /\ v.winner = w /\ v.game = u.game /\ v.pending = u.pending
   BY <1>1, <1>2, <2>2, <2>3 DEF CarromTable, Winners
 <2>5. v.over /\ (v.queenPocketed <=> u.queenPocketed) /\ (v.queenCovered <=> u.queenCovered)
   BY <1>1, <2>3 DEF CarromTable
 <2>6. Seating(v) /\ Seats(v) = Seats(u) BY <1>3, <2>2, <2>4, <2>5, SeatingGoes
 <2>7. Turns(v) BY <1>1, <2>4, <2>6 DEF Turns
 <2>8. Total(v) = Total(u) /\ CurrentActor(v) = CurrentActor(u) BY <2>4, TotalSame DEF CurrentActor
 <2>9. CarromSound(v)
  <3>1. /\ v.pending # Nobody => v.pending = CurrentActor(v) /\ v.pieces > 0
        /\ v.queenPocketed <=> (v.queenCovered \/ v.pending # Nobody)
    BY <2>4, <2>5, <2>8 DEF MidCarrom
  <3>2. Total(v) <= Regular * (StartPieces - v.pieces) + (IF v.queenCovered THEN QueenBonus ELSE 0)
    BY <2>4, <2>5, <2>8 DEF MidCarrom
  <3>3. v.pieces = 0 /\ v.winner = TopOf(Seats(v), v.scores) BY <1>5, <2>2, <2>4, <2>6
  <3> QED BY <2>5, <3>1, <3>2, <3>3, CarromSoundIs
 <2>10. FairCarrom(v) BY <2>4, <2>5, <2>7, <2>9 DEF FairCarrom, MidCarrom
 <2>11. Fair(v) /\ Placed(m, v) BY <2>4, <2>10 DEF Fair, Placed
 <2>12. EndGame(h, m, u, w) BY <1>4, <1>5, <2>1 DEF Settle
 <2> QED BY <2>3, <2>4, <2>5, <2>11, <2>12, Ended, Zenon
<1>6. CASE u.pieces # 0
 <2>1. Keep(m, next) BY <1>4, <1>6 DEF Settle
 <2>2. PICK n : n \in {u.turn, NextTurn(u)} /\ n \in 1..Len(u.players) /\ n \in Nat
                /\ (u.pending # Nobody => n = u.turn) /\ next = Onward(u, n)
  <3>1. u.turn \in 1..Len(u.players) /\ u.turn \in Nat BY <1>1 DEF Turns, CarromTable
  <3>2. NextTurn(u) \in 1..Len(u.players) /\ NextTurn(u) \in Nat BY <1>1, NextInTurn DEF CarromTable
  <3>3. KeepTurn(u) = Onward(u, u.turn) BY <1>1 DEF KeepTurn, Onward, CarromTable
  <3>4. PassTurn(u) = Onward(u, NextTurn(u)) BY DEF PassTurn, Onward
  <3>5. CASE next = KeepTurn(u) BY <3>1, <3>3, <3>5
  <3>6. CASE next = PassTurn(u) /\ u.pending = Nobody BY <3>2, <3>4, <3>6
  <3> QED BY <3>5, <3>6
 <2>3. /\ next \in CarromTable /\ next.players = u.players /\ next.scores = u.scores
       /\ next.pieces = u.pieces /\ next.turn = n /\ next.winner = u.winner /\ next.game = u.game
       /\ next.pending = u.pending
   BY <1>1, <2>2 DEF CarromTable, Onward
 <2>4. /\ next.over <=> u.over
       /\ next.queenPocketed <=> u.queenPocketed
       /\ next.queenCovered <=> u.queenCovered
   BY <1>1, <2>2 DEF CarromTable, Onward
 <2>5. Total(next) = Total(u) BY <2>3, TotalSame
 <2>6. Total(next) <= Regular * (StartPieces - next.pieces) + (IF next.queenCovered THEN QueenBonus ELSE 0)
   BY <2>3, <2>4, <2>5 DEF MidCarrom
 <2>7. next.pending # Nobody => next.pending = CurrentActor(next) /\ next.pieces > 0
   BY <2>2, <2>3 DEF MidCarrom, CurrentActor
 <2>8. /\ next.queenPocketed <=> (next.queenCovered \/ next.pending # Nobody)
       /\ next.queenCovered => next.pending = Nobody
   BY <2>3, <2>4 DEF MidCarrom
 <2>9. next.turn \in 1..Len(u.players) BY <2>2, <2>3
 <2>10. MidCarrom(next) BY <1>1, <2>3, <2>4, <2>6, <2>7, <2>8, <2>9, CarromGoes
 <2>11. FairCarrom(next) /\ ~next.over BY <1>1, <1>6, <2>3, <2>4, <2>10, CarromMiddle
 <2>12. Fair(next) /\ Placed(m, next) BY <2>3, <2>11 DEF Fair, Placed
 <2> QED BY <2>1, <2>11, <2>12, Kept
<1> QED BY <1>5, <1>6

\* What a strike leaves: the queen is not gone twice, nor the last piece.
LEMMA CarromStruck ==
  ASSUME NEW t, MidCarrom(t), NEW a, a = CurrentActor(t), NEW roll,
         NEW o, o = Effective(t, CarromOutcome(roll)), FairCarrom(t), NEW u, u = Struck(t, a, o)
  PROVE  /\ MidCarrom(u) /\ u.players = t.players /\ u.game = t.game
         /\ o \in {"foul", "miss"} => u.pending = Nobody
<1>1. /\ o \in {"foul", "miss", "pocket", "queen"} /\ (o = "queen" => ~t.queenPocketed)
      /\ t.pieces # 0
 <2>1. CarromOutcome(roll) \in {"foul", "miss", "pocket", "queen"} BY DEF CarromOutcome
 <2>2. ~t.over /\ t.pieces # 0 BY CarromMiddle DEF MidCarrom
 <2> QED BY <2>1, <2>2 DEF Effective
<1>2. CASE o = "foul"
 <2>1. PICK v : v = Fined(t, a) OBVIOUS
 <2>2. u = RevertPendingQueen(v) BY <1>2, <2>1 DEF Struck, Fined
 <2>3. MidCarrom(v) /\ v.players = t.players /\ v.game = t.game BY <2>1, CarromFouled
 <2>4. MidCarrom(u) /\ u.pending = Nobody /\ u.players = v.players /\ u.game = v.game
   BY <2>2, <2>3, CarromReverts
 <2> QED BY <2>3, <2>4
<1>3. CASE o = "miss"
 <2>1. u = RevertPendingQueen(t) BY <1>3 DEF Struck
 <2> QED BY <2>1, CarromReverts
<1>4. CASE o = "pocket"
 <2>1. u = Gained(t, a) BY <1>4 DEF Struck, Gained
 <2> QED BY <1>1, <1>4, <2>1, CarromPocketed
<1>5. CASE o = "queen"
 <2>1. u = Uncovered(t, a) BY <1>5 DEF Struck, Uncovered
 <2>2. t.pieces # 0 /\ ~t.queenPocketed BY <1>1, <1>5
 <2>3. MidCarrom(u) /\ u.players = t.players /\ u.game = t.game BY <2>1, <2>2, CarromQueen
 <2> QED BY <1>5, <2>3
<1> QED BY <1>1, <1>2, <1>3, <1>4, <1>5

\* Carrom.
LEMMA CarromMoves ==
  ASSUME LobbyTyped, TablesFair, NEW h \in Handlers, NEW m \in MatchIds, CarromStep(h, m)
  PROVE  \E u : PlayMove(m, u)
<1>1. Served(m, "carrom")
 <2>1. CASE LookAtCarrom(h, m) BY <2>1 DEF LookAtCarrom
 <2>2. ASSUME NEW a \in Accounts, NEW roll \in Rolls, StrikeCarrom(h, m, a, roll)
       PROVE  Active(m, "carrom")
   BY <2>2 DEF StrikeCarrom
 <2> QED BY <2>1, <2>2, ActiveServed DEF CarromStep
<1>2. FairRow(matches[m]) /\ matches[m].state \notin {"none", "lobby"} /\ matches[m].game = "carrom"
  BY <1>1, RowServed DEF LobbyTyped
<1>3. PICK fresh : fresh = FreshCarrom(m) OBVIOUS
<1>4. ~fresh.over /\ Fair(fresh) /\ Placed(m, fresh)
 <2>1. FairCarrom(fresh) /\ ~fresh.over /\ fresh.game = "carrom" /\ fresh.players = matches[m].players
   BY <1>2, <1>3, CarromFresh
 <2>2. Fair(fresh) BY <2>1 DEF Fair
 <2> QED BY <1>2, <2>1, <2>2 DEF Placed
<1>5. PICK t : t = Table(m, fresh) OBVIOUS
<1>6. /\ Fair(t) /\ Placed(m, t) /\ t.game = "carrom" /\ (~t.over => ~tables[m].over)
      /\ tables[m] = NoTable => t = fresh /\ ~tables[m].over
  BY <1>1, <1>4, <1>5, TableFound
<1>7. FairCarrom(t) BY <1>6, FairKinds
<1>8. CASE LookAtCarrom(h, m)
 <2>1. IF ~t.over /\ TimeUp(t, Duration) THEN Forfeit(h, m, t) ELSE tables[m] = NoTable /\ Keep(m, t)
   BY <1>3, <1>5, <1>8 DEF LookAtCarrom
 <2>2. CASE ~t.over /\ TimeUp(t, Duration)
  <3>1. PICK u : u = RevertPendingQueen(t) OBVIOUS
  <3>2. Settle(h, m, u, PassTurn(u)) BY <2>1, <2>2, <3>1 DEF Forfeit
  <3>3. MidCarrom(t) BY <1>7, <2>2, CarromMiddle
  <3>4. MidCarrom(u) /\ u.pending = Nobody /\ u.players = t.players /\ u.game = t.game
    BY <3>1, <3>3, CarromReverts
  <3>5. Placed(m, u) /\ ~tables[m].over BY <1>6, <2>2, <3>4 DEF Placed
  <3> QED BY <3>2, <3>4, <3>5, CarromSettled
 <2>3. CASE ~(~t.over /\ TimeUp(t, Duration))
  <3>1. tables[m] = NoTable /\ Keep(m, t) BY <2>1, <2>3
  <3> QED BY <1>4, <1>6, <3>1, Kept
 <2> QED BY <2>2, <2>3
<1>9. ASSUME NEW a \in Accounts, NEW roll \in Rolls, StrikeCarrom(h, m, a, roll)
      PROVE  \E u : PlayMove(m, u)
 <2>1. PICK o : o = Effective(t, CarromOutcome(roll)) OBVIOUS
 <2>2. PICK u : u = Struck(t, a, o) OBVIOUS
 <2>3. PICK next : next = IF o \in {"foul", "miss"} THEN PassTurn(u) ELSE KeepTurn(u) OBVIOUS
 <2>4. ~t.over /\ a = CurrentActor(t) /\ Settle(h, m, u, next)
   BY <1>3, <1>5, <1>9, <2>1, <2>2, <2>3 DEF StrikeCarrom
 <2>5. MidCarrom(t) BY <1>7, <2>4, CarromMiddle
 <2>6. /\ MidCarrom(u) /\ u.players = t.players /\ u.game = t.game
       /\ o \in {"foul", "miss"} => u.pending = Nobody
   BY <1>7, <2>1, <2>2, <2>4, <2>5, CarromStruck
 <2>7. next = KeepTurn(u) \/ (next = PassTurn(u) /\ u.pending = Nobody) BY <2>3, <2>6
 <2>8. Placed(m, u) /\ ~tables[m].over BY <1>6, <2>4, <2>6 DEF Placed
 <2> QED BY <2>4, <2>6, <2>7, <2>8, CarromSettled
<1> QED BY <1>8, <1>9 DEF CarromStep
-----------------------------
\* Eight ball is played by two.
LEMMA TwoSeats ==
  ASSUME NEW t, t.players \in Seq(Accounts), NamedOnce(t.players), Len(t.players) = 2
  PROVE  \E x, y \in Accounts :
           /\ x # y /\ t.players[1] = x /\ t.players[2] = y /\ Seats(t) = {x, y}
           /\ OtherPlayer(t, x) = y /\ OtherPlayer(t, y) = x
<1>1. PICK s : s = t.players OBVIOUS
<1>2. \A i : i \in 1..Len(s) <=> i = 1 \/ i = 2
 <2>1. Len(s) = 2 BY <1>1
 <2> QED BY <2>1
<1>3. s[1] \in Accounts /\ s[2] \in Accounts BY <1>1
<1>4. s[1] # s[2] BY <1>1, <1>2 DEF NamedOnce
<1>5. Seats(t) = {s[1], s[2]} BY <1>1, <1>2 DEF Seats
<1> QED BY <1>1, <1>3, <1>4, <1>5 DEF OtherPlayer

\* The other player is the one of the two.
LEMMA OtherSeat ==
  ASSUME NEW t, t.players \in Seq(Accounts), NamedOnce(t.players), Len(t.players) = 2,
         NEW a, a \in Seats(t)
  PROVE  /\ a \in Accounts
         /\ \E b \in Accounts : /\ a # b /\ Seats(t) = {a, b}
                               /\ OtherPlayer(t, a) = b /\ OtherPlayer(t, b) = a
<1>1. PICK x, y \in Accounts :
         /\ x # y /\ Seats(t) = {x, y} /\ OtherPlayer(t, x) = y /\ OtherPlayer(t, y) = x
  BY TwoSeats
<1>2. CASE a = x BY <1>1, <1>2
<1>3. CASE a = y BY <1>1, <1>3
<1> QED BY <1>1, <1>2, <1>3

\* What two players x and y have at a table.
Scored(t, a) == t.scores[a] = IF t.groups[a] = NoGroup THEN 0 ELSE BallsPerGroup - t.remaining[t.groups[a]]
Divided(t, x, y) ==
  \/ /\ t.groups[x] = NoGroup /\ t.groups[y] = NoGroup
     /\ t.remaining["solids"] = BallsPerGroup /\ t.remaining["stripes"] = BallsPerGroup
  \/ t.groups[x] # NoGroup /\ t.groups[y] # NoGroup /\ t.groups[x] # t.groups[y]

\* What is fair between x and y.
LEMMA EightOfTwo ==
  ASSUME NEW t, NEW x, NEW y, x # y, Seats(t) = {x, y}
  PROVE  FairEight(t) <=>
           /\ t \in EightTable /\ Turns(t) /\ Len(t.players) = 2
           /\ Scored(t, x) /\ Scored(t, y) /\ Divided(t, x, y)
           /\ t.over => Cleared(t, t.winner) \/ ~Cleared(t, OtherPlayer(t, t.winner))
<1>1. (\A a \in Seats(t) : Scored(t, a)) <=> Scored(t, x) /\ Scored(t, y) OBVIOUS
<1>2. (\A g \in {"solids", "stripes"} : t.remaining[g] = BallsPerGroup) <=>
        t.remaining["solids"] = BallsPerGroup /\ t.remaining["stripes"] = BallsPerGroup
  OBVIOUS
<1>3. (\A a, b \in Seats(t) : a # b =>
          \/ /\ t.groups[a] = NoGroup /\ t.groups[b] = NoGroup
             /\ \A g \in {"solids", "stripes"} : t.remaining[g] = BallsPerGroup
          \/ t.groups[a] # NoGroup /\ t.groups[b] # NoGroup /\ t.groups[a] # t.groups[b])
        <=> Divided(t, x, y)
  BY <1>2 DEF Divided
<1>4. EightBallSound(t) <=> /\ \A a \in Seats(t) : Scored(t, a)
                            /\ t.over => Cleared(t, t.winner) \/ ~Cleared(t, OtherPlayer(t, t.winner))
  BY DEF EightBallSound, Scored
<1> QED BY <1>1, <1>3, <1>4 DEF FairEight

\* A new table of eight ball is fair.
LEMMA EightFresh ==
  ASSUME NEW m \in MatchIds, FairRow(matches[m]), Len(matches[m].players) = 2,
         NEW t, t = FreshEightBall(m)
  PROVE  FairEight(t) /\ ~t.over /\ t.game = "eight_ball" /\ t.players = matches[m].players
<1>1. /\ t.game = "eight_ball" /\ t.players = matches[m].players /\ t.turn = 1 /\ t.winner = Nobody
      /\ ~t.over /\ t.groups = [a \in Accounts |-> NoGroup] /\ t.scores = [a \in Accounts |-> 0]
      /\ t.remaining = [g \in {"solids", "stripes"} |-> BallsPerGroup]
  BY DEF FreshEightBall
<1>2. t \in EightTable BY BallsPositive DEF FreshEightBall, EightTable, FairRow, MatchRow, Winners
<1>3. Turns(t) BY <1>1, RowFirst DEF Turns, Seating, FairRow
<1>4. t.players \in Seq(Accounts) /\ NamedOnce(t.players) /\ Len(t.players) = 2
  BY <1>1 DEF FairRow, MatchRow
<1>5. PICK x, y \in Accounts : x # y /\ Seats(t) = {x, y} BY <1>4, TwoSeats
<1>6. Scored(t, x) /\ Scored(t, y) /\ Divided(t, x, y) BY <1>1 DEF Scored, Divided
<1> QED BY <1>1, <1>2, <1>3, <1>4, <1>5, <1>6, EightOfTwo

\* A table with another turn, groups, balls or scores, where the game goes on.
LEMMA EightGoes ==
  ASSUME NEW t, FairEight(t), ~t.over, NEW u, u \in EightTable, u.players = t.players, ~u.over,
         u.winner = t.winner, u.turn \in 1..Len(t.players),
         NEW x, NEW y, x # y, Seats(t) = {x, y}, Scored(u, x), Scored(u, y), Divided(u, x, y)
  PROVE  FairEight(u)
<1>1. Seating(t) /\ t.winner = Nobody /\ Len(t.players) = 2 BY DEF FairEight, Turns, Seating
<1>2. Seating(u) /\ Seats(u) = Seats(t)
 <2>1. u.winner \in Seats(t) \cup {Nobody} /\ u.winner = Nobody BY <1>1
 <2> QED BY <1>1, <2>1, SeatingGoes
<1>3. Turns(u) BY <1>2 DEF Turns
<1> QED BY <1>1, <1>2, <1>3, EightOfTwo

\* The turn passes to the other player.
LEMMA EightTurned ==
  ASSUME NEW t, FairEight(t), ~t.over, NEW u, u = NextShooter(t)
  PROVE  FairEight(u) /\ ~u.over /\ u.players = t.players /\ u.game = t.game
<1>1. t \in EightTable /\ Turns(t) /\ Len(t.players) = 2 /\ NamedOnce(t.players)
  BY DEF FairEight, Turns, Seating
<1>2. NextTurn(t) \in 1..Len(t.players) /\ NextTurn(t) \in Nat BY <1>1, NextInTurn DEF EightTable
<1>3. /\ u \in EightTable /\ u.players = t.players /\ u.turn = NextTurn(t) /\ u.winner = t.winner
      /\ u.groups = t.groups /\ u.remaining = t.remaining /\ u.scores = t.scores /\ u.game = t.game
  BY <1>1, <1>2 DEF NextShooter, EightTable
<1>4. ~u.over BY <1>1 DEF NextShooter, EightTable
<1>5. PICK x, y \in Accounts : x # y /\ Seats(t) = {x, y} BY <1>1, TwoSeats DEF EightTable
<1>6. Scored(t, x) /\ Scored(t, y) /\ Divided(t, x, y) BY <1>5, EightOfTwo
<1>7. Scored(u, x) /\ Scored(u, y) /\ Divided(u, x, y) BY <1>3, <1>6 DEF Scored, Divided
<1> QED BY <1>2, <1>3, <1>4, <1>5, <1>7, EightGoes

\* The first ball that is potted gives out the groups.
LEMMA EightAssigned ==
  ASSUME NEW t, FairEight(t), ~t.over, NEW a, a \in Seats(t), NEW u, u = AssignGroups(t, a)
  PROVE  /\ FairEight(u) /\ ~u.over /\ u.players = t.players /\ u.game = t.game
         /\ u.groups[a] \in {"solids", "stripes"}
<1>1. t \in EightTable /\ Turns(t) /\ Len(t.players) = 2 /\ NamedOnce(t.players)
  BY DEF FairEight, Turns, Seating
<1>2. Seats(t) \subseteq Accounts BY <1>1, SeatsAre DEF EightTable
<1>3. CASE t.groups[a] # NoGroup BY <1>1, <1>2, <1>3 DEF AssignGroups, EightTable
<1>4. CASE t.groups[a] = NoGroup
 <2>1. PICK b : b = OtherPlayer(t, a) OBVIOUS
 <2>2. a # b /\ Seats(t) = {a, b} /\ b \in Accounts /\ a \in Accounts
   BY <1>1, <2>1, OtherSeat, SMTT(60) DEF EightTable
 <2>3. PICK gr : gr = [t.groups EXCEPT ![a] = "solids", ![b] = "stripes"] OBVIOUS
 <2>4. /\ gr \in [Accounts -> {NoGroup, "solids", "stripes"}]
       /\ gr[a] = "solids" /\ gr[b] = "stripes"
   BY <1>1, <2>2, <2>3 DEF EightTable
 <2>5. u = [t EXCEPT !.groups = gr] BY <1>1, <1>4, <2>1, <2>3 DEF AssignGroups, EightTable
 <2>6. /\ u \in EightTable /\ u.players = t.players /\ u.turn = t.turn /\ u.winner = t.winner
       /\ u.groups = gr /\ u.remaining = t.remaining /\ u.scores = t.scores /\ u.game = t.game
   BY <1>1, <2>4, <2>5 DEF EightTable
 <2>7. ~u.over BY <1>1, <2>5 DEF EightTable
 <2>8. Scored(t, a) /\ Scored(t, b) /\ Divided(t, a, b) BY <2>2, EightOfTwo
 <2>9. /\ t.groups[b] = NoGroup /\ t.scores[a] = 0 /\ t.scores[b] = 0
       /\ t.remaining["solids"] = BallsPerGroup /\ t.remaining["stripes"] = BallsPerGroup
   BY <1>4, <2>8 DEF Scored, Divided
 <2>10. Scored(u, a) /\ Scored(u, b) /\ Divided(u, a, b)
   BY <2>4, <2>6, <2>9, BallsPositive DEF Scored, Divided, NoGroup
 <2>11. u.turn \in 1..Len(t.players) BY <1>1, <2>6 DEF Turns
 <2> QED BY <2>2, <2>4, <2>6, <2>7, <2>10, <2>11, EightGoes
<1> QED BY <1>3, <1>4

\* A ball of a group that is not cleared.
Potted(u, a, g, left, score) ==
  [u EXCEPT !.remaining[g] = left, !.scores[a] = score, !.elapsed = 0]

\* A ball of the group of a counts for a.
LEMMA EightPotted ==
  ASSUME NEW t, FairEight(t), ~t.over, NEW a, a \in Seats(t), NEW g, g = t.groups[a],
         g \in {"solids", "stripes"}, ~Cleared(t, a),
         NEW u, u = Potted(t, a, g, t.remaining[g] - 1, t.scores[a] + 1)
  PROVE  FairEight(u) /\ ~u.over /\ u.players = t.players /\ u.game = t.game
<1>1. t \in EightTable /\ Turns(t) /\ Len(t.players) = 2 /\ NamedOnce(t.players)
  BY DEF FairEight, Turns, Seating
<1>2. PICK b \in Accounts : a # b /\ Seats(t) = {a, b} /\ a \in Accounts BY <1>1, OtherSeat, SMTT(60) DEF EightTable
<1>3. PICK left, score : left = t.remaining[g] - 1 /\ score = t.scores[a] + 1 OBVIOUS
<1>4. /\ t.remaining[g] \in 1..BallsPerGroup /\ left \in 0..BallsPerGroup /\ left \in Nat
      /\ t.scores[a] \in Nat /\ score \in Nat
 <2>1. t.remaining[g] \in 0..BallsPerGroup /\ t.scores[a] \in Nat BY <1>1, <1>2 DEF EightTable
 <2>2. t.remaining[g] # 0 BY DEF Cleared, NoGroup
 <2> QED BY <1>3, <2>1, <2>2, BallsPositive
<1>5. PICK rem : rem = [t.remaining EXCEPT ![g] = left] OBVIOUS
<1>6. PICK sc : sc = [t.scores EXCEPT ![a] = score] OBVIOUS
<1>7. /\ rem \in [{"solids", "stripes"} -> 0..BallsPerGroup] /\ rem[g] = left
      /\ \A k \in {"solids", "stripes"} \ {g} : rem[k] = t.remaining[k]
  BY <1>1, <1>4, <1>5 DEF EightTable
<1>8. sc \in [Accounts -> Nat] /\ sc[a] = score /\ sc[b] = t.scores[b]
  BY <1>1, <1>2, <1>4, <1>6 DEF EightTable
<1>9. u = [t EXCEPT !.remaining = rem, !.scores = sc, !.elapsed = 0]
  BY <1>1, <1>3, <1>5, <1>6 DEF Potted, EightTable
<1>10. /\ u \in EightTable /\ u.players = t.players /\ u.turn = t.turn /\ u.winner = t.winner
       /\ u.groups = t.groups /\ u.remaining = rem /\ u.scores = sc /\ u.game = t.game
 <2>1. u \in EightTable
  <3>1. rem \in [{"solids", "stripes"} -> 0..BallsPerGroup] /\ sc \in [Accounts -> Nat] BY <1>7, <1>8
  <3>2. t \in EightTable BY <1>1
  <3>3. u = [game |-> t.game, players |-> t.players, turn |-> t.turn, elapsed |-> 0,
             groups |-> t.groups, remaining |-> rem, scores |-> sc, over |-> t.over,
             winner |-> t.winner]
    BY <1>9, <3>2 DEF EightTable
  <3> QED BY <3>1, <3>2, <3>3 DEF EightTable
 <2>2. u.players = t.players /\ u.turn = t.turn /\ u.winner = t.winner /\ u.game = t.game
   BY <1>1, <1>9 DEF EightTable
 <2>3. u.groups = t.groups /\ u.remaining = rem /\ u.scores = sc BY <1>1, <1>9 DEF EightTable
 <2> QED BY <2>1, <2>2, <2>3
<1>11. ~u.over BY <1>1, <1>9 DEF EightTable
<1>12. Scored(t, a) /\ Scored(t, b) /\ Divided(t, a, b) BY <1>2, EightOfTwo
<1>13. t.groups[b] \in {"solids", "stripes"} \ {g} BY <1>1, <1>2, <1>12 DEF Divided, NoGroup, EightTable
<1>14. Scored(u, b) /\ Divided(u, a, b)
 <2>1. g # NoGroup /\ u.groups[a] = g /\ u.groups[b] = t.groups[b] /\ t.groups[b] # NoGroup
   BY <1>10, <1>13 DEF NoGroup
 <2>2. rem[t.groups[b]] = t.remaining[t.groups[b]] BY <1>7, <1>13
 <2>3. Divided(u, a, b) BY <1>13, <2>1 DEF Divided
 <2>4. t.scores[b] = BallsPerGroup - t.remaining[t.groups[b]] BY <1>12, <2>1 DEF Scored
 <2>5. u.scores[b] = t.scores[b] /\ u.remaining[u.groups[b]] = t.remaining[t.groups[b]]
   BY <1>8, <1>10, <2>1, <2>2
 <2>6. u.groups[b] # NoGroup /\ u.scores[b] = BallsPerGroup - u.remaining[u.groups[b]] BY <2>1, <2>4, <2>5
 <2>7. Scored(u, b) BY <2>6 DEF Scored
 <2> QED BY <2>3, <2>7
<1>15. Scored(u, a)
 <2>1. g # NoGroup /\ u.groups[a] = g BY <1>10 DEF NoGroup
 <2>2. t.scores[a] = BallsPerGroup - t.remaining[g] BY <1>12, <2>1 DEF Scored
 <2>3. u.scores[a] = score /\ u.remaining[g] = left BY <1>7, <1>8, <1>10
 <2>4. score = BallsPerGroup - left BY <1>3, <1>4, <2>2, BallsPositive
 <2> QED BY <2>1, <2>3, <2>4 DEF Scored
<1>16. u.turn \in 1..Len(t.players) BY <1>1, <1>10 DEF Turns
<1>17. /\ FairEight(t) /\ ~t.over /\ u \in EightTable /\ u.players = t.players /\ ~u.over
       /\ u.winner = t.winner /\ u.turn \in 1..Len(t.players)
  BY <1>1, <1>10, <1>11, <1>16
<1>18. a # b /\ Seats(t) = {a, b} /\ Scored(u, a) /\ Scored(u, b) /\ Divided(u, a, b) BY <1>2, <1>14, <1>15
<1>19. FairEight(u) BY <1>17, <1>18, EightGoes
<1> QED BY <1>10, <1>11, <1>19

\* The eight ball wins for who cleared the group, and else for the other.
LEMMA EightEnded ==
  ASSUME NEW h \in Handlers, NEW m \in MatchIds, NEW t, FairEight(t), ~t.over, Placed(m, t),
         ~tables[m].over, NEW a, a \in Seats(t), PotEight(h, m, t, a)
  PROVE  \E u : PlayMove(m, u)
<1>1. t \in EightTable /\ Turns(t) /\ Len(t.players) = 2 /\ NamedOnce(t.players) /\ Seating(t)
  BY DEF FairEight, Turns, Seating
<1>2. PICK w : w = IF Cleared(t, a) THEN a ELSE OtherPlayer(t, a) OBVIOUS
<1>3. PICK b \in Accounts : a # b /\ Seats(t) = {a, b} /\ OtherPlayer(t, a) = b /\ OtherPlayer(t, b) = a
  BY <1>1, OtherSeat DEF EightTable
<1>4. w \in {a, b} /\ (Cleared(t, w) \/ ~Cleared(t, OtherPlayer(t, w))) /\ w \in Winners
  BY <1>1, <1>2, <1>3, SeatsAre DEF EightTable, Winners
<1>5. PICK u : u = [t EXCEPT !.over = TRUE, !.winner = w] OBVIOUS
<1>6. /\ u \in EightTable /\ u.players = t.players /\ u.turn = t.turn /\ u.winner = w
      /\ u.groups = t.groups /\ u.remaining = t.remaining /\ u.scores = t.scores /\ u.game = t.game
  BY <1>1, <1>4, <1>5 DEF EightTable
<1>7. u.over BY <1>1, <1>5 DEF EightTable
<1>8. Seating(u) /\ Seats(u) = Seats(t) BY <1>1, <1>3, <1>4, <1>6, <1>7, SeatingGoes
<1>9. Turns(u) BY <1>1, <1>6, <1>8 DEF Turns
<1>10. Scored(t, a) /\ Scored(t, b) /\ Divided(t, a, b) BY <1>3, EightOfTwo
<1>11. Scored(u, a) /\ Scored(u, b) /\ Divided(u, a, b) BY <1>6, <1>10 DEF Scored, Divided
<1>12. Cleared(u, w) \/ ~Cleared(u, OtherPlayer(u, w)) BY <1>4, <1>6 DEF Cleared, OtherPlayer
<1>13. FairEight(u) BY <1>1, <1>3, <1>6, <1>8, <1>9, <1>11, <1>12, EightOfTwo
<1>14. Fair(u) /\ Placed(m, u) BY <1>6, <1>13 DEF Fair, Placed
<1>15. EndGame(h, m, t, w) BY <1>2 DEF PotEight
<1> QED BY <1>5, <1>6, <1>7, <1>14, <1>15, Ended, Zenon

\* Eight ball.
LEMMA EightMoves ==
  ASSUME LobbyTyped, TablesFair, NEW h \in Handlers, NEW m \in MatchIds, EightBallStep(h, m)
  PROVE  \E u : PlayMove(m, u)
<1>1. Seated(m, "eight_ball")
 <2>1. CASE LookAtEightBall(m) BY <2>1 DEF LookAtEightBall
 <2>2. ASSUME NEW a \in Accounts, NEW roll \in Rolls, StrikeEightBall(h, m, a, roll)
       PROVE  Seated(m, "eight_ball")
   BY <2>2 DEF StrikeEightBall
 <2> QED BY <2>1, <2>2 DEF EightBallStep
<1>2. /\ FairRow(matches[m]) /\ matches[m].state \notin {"none", "lobby"}
      /\ matches[m].game = "eight_ball" /\ Len(matches[m].players) = 2 /\ Served(m, "eight_ball")
  BY <1>1, RowServed DEF LobbyTyped, Seated
<1>3. PICK fresh : fresh = FreshEightBall(m) OBVIOUS
<1>4. ~fresh.over /\ Fair(fresh) /\ Placed(m, fresh)
 <2>1. /\ FairEight(fresh) /\ ~fresh.over /\ fresh.game = "eight_ball"
       /\ fresh.players = matches[m].players
   BY <1>2, <1>3, EightFresh
 <2>2. Fair(fresh) BY <2>1 DEF Fair
 <2> QED BY <1>2, <2>1, <2>2 DEF Placed
<1>5. PICK t : t = Table(m, fresh) OBVIOUS
<1>6. /\ Fair(t) /\ Placed(m, t) /\ t.game = "eight_ball" /\ (~t.over => ~tables[m].over)
      /\ tables[m] = NoTable => t = fresh /\ ~tables[m].over
  BY <1>2, <1>4, <1>5, TableFound
<1>7. FairEight(t) BY <1>6, FairKinds
<1>8. ASSUME ~t.over, Keep(m, NextShooter(t))
      PROVE  \E u : PlayMove(m, u)
 <2>1. PICK u : u = NextShooter(t) OBVIOUS
 <2>2. FairEight(u) /\ ~u.over /\ u.players = t.players /\ u.game = t.game BY <1>7, <1>8, <2>1, EightTurned
 <2>3. Fair(u) /\ Placed(m, u) /\ ~tables[m].over /\ Keep(m, u) BY <1>6, <1>8, <2>1, <2>2 DEF Fair, Placed
 <2> QED BY <2>2, <2>3, Kept
<1>9. CASE LookAtEightBall(m)
 <2>1. \/ ~t.over /\ Keep(m, NextShooter(t))
       \/ tables[m] = NoTable /\ Keep(m, t)
   BY <1>3, <1>5, <1>9 DEF LookAtEightBall
 <2>2. CASE tables[m] = NoTable /\ Keep(m, t) BY <1>4, <1>6, <2>2, Kept
 <2> QED BY <1>8, <2>1, <2>2
<1>10. ASSUME NEW a \in Accounts, NEW roll \in Rolls, StrikeEightBall(h, m, a, roll)
       PROVE  \E u : PlayMove(m, u)
 <2>1. /\ ~t.over /\ a = CurrentActor(t)
       /\ Keep(m, NextShooter(t)) \/ Pot(h, m, t, a) \/ PotEight(h, m, t, a)
   BY <1>3, <1>5, <1>10 DEF StrikeEightBall
 <2>2. a \in Seats(t) /\ ~tables[m].over
   BY <1>6, <1>7, <2>1, SeatsAre DEF FairEight, EightTable, Turns, CurrentActor
 <2>3. CASE PotEight(h, m, t, a) BY <1>6, <1>7, <2>1, <2>2, <2>3, EightEnded
 <2>4. CASE Pot(h, m, t, a)
  <3>1. PICK v : v = AssignGroups(t, a) OBVIOUS
  <3>2. /\ FairEight(v) /\ ~v.over /\ v.players = t.players /\ v.game = t.game
        /\ v.groups[a] \in {"solids", "stripes"}
    BY <1>7, <2>1, <2>2, <3>1, EightAssigned
  <3>3. Placed(m, v) /\ a \in Seats(v) BY <1>6, <2>2, <3>2, SeatsSame DEF Placed
  <3>4. CASE Cleared(v, a)
   <4>1. PotEight(h, m, v, a) BY <2>4, <3>1, <3>4 DEF Pot
   <4> QED BY <2>2, <3>2, <3>3, <4>1, EightEnded
  <3>5. CASE ~Cleared(v, a)
   <4>1. PICK g : g = v.groups[a] OBVIOUS
   <4>2. PICK u : u = Potted(v, a, g, v.remaining[g] - 1, v.scores[a] + 1) OBVIOUS
   <4>3. Keep(m, u) BY <2>4, <3>1, <3>5, <4>1, <4>2 DEF Pot, Potted
   <4>4. FairEight(u) /\ ~u.over /\ u.players = v.players /\ u.game = v.game
     BY <3>2, <3>3, <3>5, <4>1, <4>2, EightPotted
   <4>5. Fair(u) /\ Placed(m, u) BY <3>3, <4>4 DEF Fair, Placed
   <4> QED BY <2>2, <4>3, <4>4, <4>5, Kept
  <3> QED BY <3>4, <3>5
 <2> QED BY <1>8, <2>1, <2>3, <2>4
<1> QED BY <1>9, <1>10 DEF EightBallStep
-----------------------------
\* The quiz.  What the answers of a player are worth.
Marks(t, a) == [q \in 1..Questions |-> IF t.answers[q][a] = NoAnswer THEN 0 ELSE t.answers[q][a]]
\* The score is their sum.
Marked(t, a) == t.scores[a] = SumFunctionOnSet(Marks(t, a), 1..Questions)
\* There are answers to what was asked, and to nothing else.
Timely(t, a) ==
  \A q \in 1..Questions :
     /\ q < t.open \/ t.over => t.answers[q][a] # NoAnswer
     /\ q > t.open => t.answers[q][a] = NoAnswer

\* A table in the middle of a step: the last answer may be in.
MidQuiz(t) ==
  /\ t \in QuizTable /\ Seating(t) /\ ~t.over
  /\ \A a \in Seats(t) : Timely(t, a) /\ Marked(t, a)

\* QuizSound, in these words.
LEMMA QuizSoundIs ==
  ASSUME NEW t
  PROVE  QuizSound(t) <=>
           /\ \A a \in Seats(t) : Timely(t, a) /\ Marked(t, a)
           /\ ~t.over => ~AllAnswered(t)
           /\ t.over => t.winner = TopOf(Seats(t), t.scores)
<1>1. OnlyTop(t, LAMBDA a : t.scores[a]) = TopOf(Seats(t), t.scores) BY TopWins
<1>2. ASSUME NEW a
      PROVE  (t.scores[a] = SumFunctionOnSet([q \in 1..Questions |->
                IF t.answers[q][a] = NoAnswer THEN 0 ELSE t.answers[q][a]], 1..Questions)) <=> Marked(t, a)
  BY Zenon DEF Marked, Marks
<1>3. ASSUME NEW a
      PROVE  (\A q \in 1..Questions : /\ q < t.open \/ t.over => t.answers[q][a] # NoAnswer
                                      /\ q > t.open => t.answers[q][a] = NoAnswer) <=> Timely(t, a)
  BY Zenon DEF Timely
<1> QED BY <1>1, <1>2, <1>3, Zenon DEF QuizSound

\* A quiz that goes on waits for somebody.
LEMMA QuizMiddle ==
  ASSUME NEW t, ~t.over
  PROVE  FairQuiz(t) <=> MidQuiz(t) /\ ~AllAnswered(t)
<1>1. QuizSound(t) <=>
           /\ \A a \in Seats(t) : Timely(t, a) /\ Marked(t, a)
           /\ ~t.over => ~AllAnswered(t)
           /\ t.over => t.winner = TopOf(Seats(t), t.scores)
  BY QuizSoundIs
<1> QED BY <1>1 DEF FairQuiz, MidQuiz

\* Marks are numbers.
LEMMA MarksAre ==
  ASSUME NEW t, t \in QuizTable, NEW a \in Accounts
  PROVE  /\ \A q \in 1..Questions : Marks(t, a)[q] \in Nat /\ Marks(t, a)[q] \in Int
         /\ IsFiniteSet(1..Questions)
<1>1. \A q \in 1..Questions : t.answers[q][a] \in {NoAnswer} \cup Nat BY DEF QuizTable
<1>2. IsFiniteSet(1..Questions) BY FS_Interval, QuestionsPositive
<1> QED BY <1>1, <1>2 DEF Marks

\* A new quiz is fair.
LEMMA QuizFresh ==
  ASSUME NEW m \in MatchIds, FairRow(matches[m]), NEW t, t = FreshQuiz(m)
  PROVE  FairQuiz(t) /\ ~t.over /\ t.game = "quiz" /\ t.players = matches[m].players
<1>1. /\ t.game = "quiz" /\ t.players = matches[m].players /\ t.open = 1 /\ t.winner = Nobody
      /\ ~t.over /\ t.scores = [a \in Accounts |-> 0]
      /\ t.answers = [q \in 1..Questions |-> [a \in Accounts |-> NoAnswer]]
  BY DEF FreshQuiz
<1>2. t \in QuizTable BY QuestionsPositive DEF FreshQuiz, QuizTable, FairRow, MatchRow, Winners
<1>3. Seating(t) BY <1>1 DEF Seating, FairRow
<1>4. Seats(t) \subseteq Accounts /\ Seats(t) # {} BY <1>2, <1>3, SeatsAre DEF QuizTable, Seating
<1>5. ASSUME NEW a \in Accounts PROVE Timely(t, a) /\ Marked(t, a)
 <2>1. \A q \in 1..Questions : t.answers[q][a] = NoAnswer /\ Marks(t, a)[q] = 0 BY <1>1 DEF Marks
 <2>2. SumFunctionOnSet(Marks(t, a), 1..Questions) = 0 BY <1>2, <2>1, MarksAre, SumNat
 <2>3. Marked(t, a) BY <1>1, <2>2 DEF Marked
 <2>4. Timely(t, a) BY <1>1, <2>1 DEF Timely
 <2> QED BY <2>3, <2>4
<1>6. MidQuiz(t) BY <1>1, <1>2, <1>3, <1>4, <1>5 DEF MidQuiz
<1>7. ~AllAnswered(t)
 <2>1. PICK a \in Seats(t) : a \in Accounts BY <1>4
 <2>2. t.answers[t.open][a] = NoAnswer BY <1>1, <2>1, QuestionsPositive
 <2> QED BY <2>1, <2>2 DEF AllAnswered, Contestants, Seats
<1> QED BY <1>1, <1>6, <1>7, QuizMiddle

\* A score is a natural number.
LEMMA QuotientNat ==
  ASSUME NEW n \in Nat, NEW d \in Nat \ {0}
  PROVE  n \div d \in Nat
OBVIOUS

\* An answer in time is worth a number.
LEMMA ScoreCounts ==
  ASSUME NEW right, NEW e \in Nat, e < Duration
  PROVE  ScoreFor(right, e) \in Nat /\ ScoreFor(right, e) # NoAnswer
<1>1. PICK d, n : d = 2 * Duration /\ n = 2 * SpeedBonusMax * (Duration - e) + Duration OBVIOUS
<1>2. d \in Nat \ {0} /\ n \in Nat
 <2>1. Duration - e \in Nat /\ Duration \in Nat \ {0} BY DurationPositive
 <2> QED BY <1>1, <2>1 DEF SpeedBonusMax
<1>3. n \div d \in Nat BY <1>2, QuotientNat
<1>4. ScoreFor(right, e) = IF ~right THEN 0 ELSE CorrectBaseScore + (n \div d) BY <1>1 DEF ScoreFor
<1> QED BY <1>3, <1>4 DEF CorrectBaseScore, NoAnswer

\* One more answer, to the open question.
Answered(t, a, score) == [t EXCEPT !.answers[t.open][a] = score, !.scores[a] = @ + score]

\* One answer more: its score is added.
LEMMA QuizAnswered ==
  ASSUME NEW t, MidQuiz(t), NEW a, a \in Seats(t), t.answers[t.open][a] = NoAnswer,
         NEW score \in Nat, NEW u, u = Answered(t, a, score)
  PROVE  MidQuiz(u) /\ u.players = t.players /\ u.game = t.game
<1>1. t \in QuizTable /\ Seating(t) /\ ~t.over /\ a \in Accounts /\ Seats(t) \subseteq Accounts
  BY SeatsAre DEF MidQuiz, QuizTable
<1>2. PICK o : o = t.open /\ o \in 1..Questions BY <1>1 DEF QuizTable
<1>3. PICK row : row = [t.answers[o] EXCEPT ![a] = score] OBVIOUS
<1>4. PICK ans : ans = [t.answers EXCEPT ![o] = row] OBVIOUS
<1>5. PICK sc : sc = [t.scores EXCEPT ![a] = t.scores[a] + score] OBVIOUS
<1>6. row \in [Accounts -> {NoAnswer} \cup Nat] /\ row[a] = score BY <1>1, <1>2, <1>3 DEF QuizTable
<1>7. \A b \in Accounts \ {a} : row[b] = t.answers[o][b] BY <1>1, <1>2, <1>3 DEF QuizTable
<1>8. ans \in [1..Questions -> [Accounts -> {NoAnswer} \cup Nat]] /\ ans[o] = row
  BY <1>1, <1>2, <1>4, <1>6 DEF QuizTable
<1>9. \A q \in (1..Questions) \ {o} : ans[q] = t.answers[q] BY <1>1, <1>2, <1>4 DEF QuizTable
<1>10. sc \in [Accounts -> Nat] /\ sc[a] = t.scores[a] + score /\ t.scores[a] \in Nat
  BY <1>1, <1>5 DEF QuizTable
<1>11. \A b \in Accounts \ {a} : sc[b] = t.scores[b] BY <1>1, <1>5 DEF QuizTable
<1>12. u = [t EXCEPT !.answers = ans, !.scores = sc] BY <1>1, <1>2, <1>3, <1>4, <1>5 DEF Answered, QuizTable
<1>13. u \in QuizTable BY <1>1, <1>8, <1>10, <1>12 DEF QuizTable
<1>14. /\ u.players = t.players /\ u.open = o /\ u.winner = t.winner
       /\ u.answers = ans /\ u.scores = sc /\ u.game = t.game
  BY <1>1, <1>2, <1>12 DEF QuizTable
<1>15. ~u.over BY <1>1, <1>12 DEF QuizTable
<1>16. Seating(u) /\ Seats(u) = Seats(t)
 <2>1. t.winner = Nobody BY <1>1 DEF Seating
 <2>2. u.winner \in Seats(t) \cup {Nobody} /\ u.winner = Nobody BY <1>14, <2>1
 <2> QED BY <1>1, <1>14, <2>2, SeatingGoes
<1>17. ASSUME NEW b, b \in Seats(t), b # a PROVE Timely(u, b) /\ Marked(u, b)
 <2>1. b \in Accounts /\ Timely(t, b) /\ Marked(t, b) BY <1>1, <1>17 DEF MidQuiz
 <2>2. \A q \in 1..Questions : u.answers[q][b] = t.answers[q][b]
   BY <1>2, <1>7, <1>8, <1>9, <1>14, <1>17, <2>1
 <2>3. Marks(u, b) = Marks(t, b) BY <2>2 DEF Marks
 <2>4. u.scores[b] = t.scores[b] BY <1>11, <1>14, <1>17, <2>1
 <2>5. Marked(u, b) BY <2>1, <2>3, <2>4 DEF Marked
 <2>6. Timely(u, b) BY <1>1, <1>2, <1>14, <1>15, <2>1, <2>2 DEF Timely
 <2> QED BY <2>5, <2>6
<1>18. Timely(u, a) /\ Marked(u, a)
 <2>1. Timely(t, a) /\ Marked(t, a) BY DEF MidQuiz
 <2>2. \A q \in (1..Questions) \ {o} : u.answers[q][a] = t.answers[q][a] BY <1>9, <1>14
 <2>3. u.answers[o][a] = score BY <1>6, <1>8, <1>14
 <2>4. Timely(u, a) BY <1>1, <1>2, <1>14, <1>15, <2>1, <2>2 DEF Timely
 <2>5. PICK f, g : f = Marks(t, a) /\ g = Marks(u, a) OBVIOUS
 <2>6. \A q \in (1..Questions) \ {o} : g[q] = f[q] BY <2>2, <2>5 DEF Marks
 <2>7. f[o] = 0 /\ g[o] = score BY <1>2, <2>3, <2>5 DEF Marks, NoAnswer
 <2>8. \A q \in 1..Questions : f[q] \in Int /\ g[q] \in Int /\ f[q] \in Nat BY <1>1, <1>13, <2>5, MarksAre
 <2>9. IsFiniteSet(1..Questions) BY <1>1, MarksAre
 <2>10. SumFunctionOnSet(g, 1..Questions) = SumFunctionOnSet(f, 1..Questions) - f[o] + g[o]
  <3>1. PICK S : S = 1..Questions OBVIOUS
  <3>2. /\ \A q \in S : f[q] \in Int /\ g[q] \in Int
        /\ \A q \in S \ {o} : g[q] = f[q]
        /\ IsFiniteSet(S) /\ o \in S
    BY <1>2, <2>6, <2>8, <2>9, <3>1
  <3>3. SumFunctionOnSet(g, S) = SumFunctionOnSet(f, S) - f[o] + g[o] BY <3>2, SumExcept
  <3> QED BY <3>1, <3>3
 <2>11. SumFunctionOnSet(f, 1..Questions) = t.scores[a] BY <2>1, <2>5 DEF Marked
 <2>12. SumFunctionOnSet(g, 1..Questions) = u.scores[a] BY <1>10, <1>14, <2>7, <2>10, <2>11
 <2>13. Marked(u, a) BY <2>5, <2>12 DEF Marked
 <2> QED BY <2>4, <2>13
<1>19. \A b \in Seats(u) : Timely(u, b) /\ Marked(u, b) BY <1>16, <1>17, <1>18
<1> QED BY <1>13, <1>14, <1>15, <1>16, <1>19 DEF MidQuiz

\* A question that closes leaves the scores as they are.
LEMMA QuizClosed ==
  ASSUME NEW t, MidQuiz(t), NEW u, u = Closed(t)
  PROVE  /\ MidQuiz(u) /\ u.players = t.players /\ u.game = t.game /\ u.scores = t.scores
         /\ u.open = t.open /\ u.winner = t.winner
         /\ \A a \in Seats(t) : u.answers[t.open][a] # NoAnswer
<1>1. t \in QuizTable /\ Seating(t) /\ ~t.over /\ Seats(t) \subseteq Accounts
  BY SeatsAre DEF MidQuiz, QuizTable
<1>2. PICK o : o = t.open /\ o \in 1..Questions BY <1>1 DEF QuizTable
<1>3. PICK row : row = [p \in Accounts |-> IF p \in Contestants(t) /\ t.answers[o][p] = NoAnswer
                                            THEN 0 ELSE t.answers[o][p]]
  OBVIOUS
<1>4. PICK ans : ans = [t.answers EXCEPT ![o] = row] OBVIOUS
<1>5. Contestants(t) = Seats(t) BY DEF Contestants, Seats
<1>6. row \in [Accounts -> {NoAnswer} \cup Nat]
 <2>1. \A p \in Accounts : t.answers[o][p] \in {NoAnswer} \cup Nat BY <1>1, <1>2 DEF QuizTable
 <2> QED BY <1>3, <2>1
<1>7. ans \in [1..Questions -> [Accounts -> {NoAnswer} \cup Nat]] /\ ans[o] = row
  BY <1>1, <1>2, <1>4, <1>6 DEF QuizTable
<1>8. \A q \in (1..Questions) \ {o} : ans[q] = t.answers[q] BY <1>1, <1>2, <1>4 DEF QuizTable
<1>9. u = [t EXCEPT !.answers = ans] BY <1>1, <1>2, <1>3, <1>4 DEF Closed, QuizTable
<1>10. u \in QuizTable BY <1>1, <1>7, <1>9 DEF QuizTable
<1>11. /\ u.players = t.players /\ u.open = o /\ u.winner = t.winner
       /\ u.answers = ans /\ u.scores = t.scores /\ u.game = t.game
  BY <1>1, <1>2, <1>9 DEF QuizTable
<1>12. ~u.over BY <1>1, <1>9 DEF QuizTable
<1>13. Seating(u) /\ Seats(u) = Seats(t)
 <2>1. t.winner = Nobody BY <1>1 DEF Seating
 <2>2. u.winner \in Seats(t) \cup {Nobody} /\ u.winner = Nobody BY <1>11, <2>1
 <2> QED BY <1>1, <1>11, <2>2, SeatingGoes
<1>14. ASSUME NEW b, b \in Seats(t)
       PROVE  Timely(u, b) /\ Marked(u, b) /\ u.answers[o][b] # NoAnswer
 <2>1. b \in Accounts /\ Timely(t, b) /\ Marked(t, b) BY <1>1, <1>14 DEF MidQuiz
 <2>2. \A q \in (1..Questions) \ {o} : u.answers[q][b] = t.answers[q][b] BY <1>8, <1>11
 <2>3. u.answers[o][b] = IF t.answers[o][b] = NoAnswer THEN 0 ELSE t.answers[o][b]
   BY <1>3, <1>5, <1>7, <1>11, <1>14, <2>1
 <2>4. u.answers[o][b] # NoAnswer BY <2>3 DEF NoAnswer
 <2>5. ASSUME NEW q \in 1..Questions PROVE Marks(u, b)[q] = Marks(t, b)[q]
  <3>1. CASE q = o BY <2>3, <3>1 DEF Marks, NoAnswer
  <3>2. CASE q # o BY <2>2, <3>2 DEF Marks
  <3> QED BY <3>1, <3>2
 <2>6. Marks(u, b) = Marks(t, b) BY <2>5 DEF Marks
 <2>7. Marked(u, b) BY <1>11, <2>1, <2>6 DEF Marked
 <2>8. Timely(u, b) BY <1>1, <1>2, <1>11, <1>12, <2>1, <2>2 DEF Timely
 <2> QED BY <2>4, <2>7, <2>8
<1>15. \A b \in Seats(u) : Timely(u, b) /\ Marked(u, b) BY <1>13, <1>14
<1>16. MidQuiz(u) BY <1>10, <1>12, <1>13, <1>15 DEF MidQuiz
<1>17. \A a \in Seats(t) : u.answers[t.open][a] # NoAnswer BY <1>2, <1>14
<1> QED BY <1>2, <1>11, <1>16, <1>17

\* The question that closes is followed by the next, or the best player wins.
LEMMA QuizAdvances ==
  ASSUME NEW h \in Handlers, NEW m \in MatchIds, NEW t, MidQuiz(t), Placed(m, t), ~tables[m].over,
         FinalizeAndAdvance(h, m, t)
  PROVE  \E u : PlayMove(m, u)
<1>1. PICK c : c = Closed(t) OBVIOUS
<1>2. /\ MidQuiz(c) /\ c.players = t.players /\ c.game = t.game /\ c.scores = t.scores
      /\ c.open = t.open /\ c.winner = t.winner
      /\ \A a \in Seats(t) : c.answers[t.open][a] # NoAnswer
  BY <1>1, QuizClosed
<1>3. /\ c \in QuizTable /\ Seating(c) /\ ~c.over /\ Seats(c) = Seats(t) /\ c.open \in 1..Questions
      /\ c.winner = Nobody
  BY <1>2, SeatsSame DEF MidQuiz, Seating, QuizTable
<1>4. Seats(c) \subseteq Accounts /\ IsFiniteSet(Seats(c)) /\ Seats(c) # {}
  BY <1>3, SeatsAre DEF QuizTable, Seating
<1>5. CASE t.open = Questions
 <2>1. PICK w : w = QuizWinner(t) OBVIOUS
 <2>2. w = TopOf(Seats(c), c.scores) /\ w \in Seats(c) \cup {Nobody}
  <3>1. w = TopOf(Seats(t), t.scores) BY <2>1, TopWins
  <3>2. w = TopOf(Seats(c), c.scores) BY <1>2, <1>3, <3>1
  <3> QED BY <1>4, <3>2, TopIsOne
 <2>3. PICK v : v = [c EXCEPT !.over = TRUE, !.winner = w] OBVIOUS
 <2>4. v \in QuizTable BY <1>3, <1>4, <2>2, <2>3 DEF QuizTable, Winners
 <2>5. /\ v.players = c.players /\ v.open = c.open /\ v.winner = w /\ v.game = c.game
       /\ v.answers = c.answers /\ v.scores = c.scores
   BY <1>3, <2>3 DEF QuizTable
 <2>6. v.over BY <1>3, <2>3 DEF QuizTable
 <2>7. Seating(v) /\ Seats(v) = Seats(c) BY <1>3, <2>2, <2>5, <2>6, SeatingGoes
 <2>8. ASSUME NEW a, a \in Seats(v) PROVE Timely(v, a) /\ Marked(v, a)
  <3>1. Timely(c, a) /\ Marked(c, a) /\ c.answers[Questions][a] # NoAnswer
    BY <1>2, <1>3, <1>5, <2>7, <2>8 DEF MidQuiz
  <3>2. Marked(v, a) BY <2>5, <3>1 DEF Marked, Marks
  <3>3. Timely(v, a) BY <1>2, <1>3, <1>5, <2>5, <2>6, <3>1, QuestionsPositive DEF Timely
  <3> QED BY <3>2, <3>3
 <2>9. QuizSound(v)
  <3>1. v.winner = TopOf(Seats(v), v.scores) BY <2>2, <2>5, <2>7
  <3> QED BY <2>6, <2>8, <3>1, QuizSoundIs
 <2>10. Fair(v) /\ Placed(m, v) BY <1>2, <2>4, <2>5, <2>7, <2>9 DEF Fair, FairQuiz, Placed
 <2>11. EndGame(h, m, c, w) BY <1>1, <1>5, <2>1 DEF FinalizeAndAdvance
 <2> QED BY <2>3, <2>5, <2>6, <2>10, <2>11, Ended, Zenon
<1>6. CASE t.open # Questions
 <2>1. PICK n : n = c.open + 1 /\ n \in 1..Questions BY <1>2, <1>3, <1>6, QuestionsPositive
 <2>2. PICK v : v = [c EXCEPT !.open = n, !.elapsed = 0] OBVIOUS
 <2>3. Keep(m, v)
  <3>1. v = [c EXCEPT !.open = @ + 1, !.elapsed = 0] BY <1>3, <2>1, <2>2 DEF QuizTable
  <3> QED BY <1>1, <1>6, <3>1 DEF FinalizeAndAdvance
 <2>4. v \in QuizTable BY <1>3, <2>1, <2>2 DEF QuizTable
 <2>5. /\ v.players = c.players /\ v.open = n /\ v.winner = c.winner /\ v.game = c.game
       /\ v.answers = c.answers /\ v.scores = c.scores
   BY <1>3, <2>2 DEF QuizTable
 <2>6. ~v.over BY <1>3, <2>2 DEF QuizTable
 <2>7. Seating(v) /\ Seats(v) = Seats(c)
  <3>1. v.winner \in Seats(c) \cup {Nobody} /\ v.winner = Nobody BY <1>3, <2>5
  <3> QED BY <1>3, <2>5, <3>1, SeatingGoes
 <2>8. ASSUME NEW a, a \in Seats(v)
       PROVE  Timely(v, a) /\ Marked(v, a) /\ v.answers[v.open][a] = NoAnswer
  <3>1. Timely(c, a) /\ Marked(c, a) /\ c.answers[c.open][a] # NoAnswer
    BY <1>2, <1>3, <2>7, <2>8 DEF MidQuiz
  <3>2. Marked(v, a) BY <2>5, <3>1 DEF Marked, Marks
  <3>3. ~c.over /\ ~v.over /\ n = c.open + 1 /\ c.open \in Nat BY <1>3, <2>1, <2>6
  <3>4. Timely(v, a) BY <2>5, <3>1, <3>3 DEF Timely
  <3>5. c.answers[n][a] = NoAnswer BY <2>1, <3>1, <3>3 DEF Timely
  <3> QED BY <2>5, <3>2, <3>4, <3>5
 <2>9. MidQuiz(v) BY <2>4, <2>6, <2>7, <2>8 DEF MidQuiz
 <2>10. ~AllAnswered(v)
  <3>1. PICK a : a \in Seats(v) BY <1>4, <2>7
  <3> QED BY <2>8, <3>1 DEF AllAnswered, Contestants, Seats
 <2>11. FairQuiz(v) BY <2>6, <2>9, <2>10, QuizMiddle
 <2>12. Fair(v) /\ Placed(m, v) BY <1>2, <2>5, <2>11 DEF Fair, Placed
 <2> QED BY <2>3, <2>6, <2>12, Kept
<1> QED BY <1>5, <1>6

\* The quiz.
LEMMA QuizMoves ==
  ASSUME LobbyTyped, TablesFair, NEW h \in Handlers, NEW m \in MatchIds, QuizStep(h, m)
  PROVE  \E u : PlayMove(m, u)
<1>1. Served(m, "quiz")
 <2>1. CASE LookAtQuiz(h, m) BY <2>1 DEF LookAtQuiz
 <2>2. ASSUME NEW a \in Accounts, NEW right \in BOOLEAN, SubmitAnswer(h, m, a, right)
       PROVE  Active(m, "quiz")
   BY <2>2 DEF SubmitAnswer
 <2> QED BY <2>1, <2>2, ActiveServed DEF QuizStep
<1>2. FairRow(matches[m]) /\ matches[m].state \notin {"none", "lobby"} /\ matches[m].game = "quiz"
  BY <1>1, RowServed DEF LobbyTyped
<1>3. PICK fresh : fresh = FreshQuiz(m) OBVIOUS
<1>4. ~fresh.over /\ Fair(fresh) /\ Placed(m, fresh)
 <2>1. FairQuiz(fresh) /\ ~fresh.over /\ fresh.game = "quiz" /\ fresh.players = matches[m].players
   BY <1>2, <1>3, QuizFresh
 <2>2. Fair(fresh) BY <2>1 DEF Fair
 <2> QED BY <1>2, <2>1, <2>2 DEF Placed
<1>5. PICK t : t = Table(m, fresh) OBVIOUS
<1>6. /\ Fair(t) /\ Placed(m, t) /\ t.game = "quiz" /\ (~t.over => ~tables[m].over)
      /\ tables[m] = NoTable => t = fresh /\ ~tables[m].over
  BY <1>1, <1>4, <1>5, TableFound
<1>7. FairQuiz(t) BY <1>6, FairKinds
<1>8. CASE LookAtQuiz(h, m)
 <2>1. IF ~t.over /\ TimeUp(t, Duration) THEN FinalizeAndAdvance(h, m, t)
       ELSE tables[m] = NoTable /\ Keep(m, t)
   BY <1>3, <1>5, <1>8 DEF LookAtQuiz
 <2>2. CASE ~t.over /\ TimeUp(t, Duration)
  <3>1. MidQuiz(t) /\ ~tables[m].over /\ FinalizeAndAdvance(h, m, t) BY <1>6, <1>7, <2>1, <2>2, QuizMiddle
  <3> QED BY <1>6, <3>1, QuizAdvances
 <2>3. CASE ~(~t.over /\ TimeUp(t, Duration))
  <3>1. tables[m] = NoTable /\ Keep(m, t) BY <2>1, <2>3
  <3> QED BY <1>4, <1>6, <3>1, Kept
 <2> QED BY <2>2, <2>3
<1>9. ASSUME NEW a \in Accounts, NEW right \in BOOLEAN, SubmitAnswer(h, m, a, right)
      PROVE  \E u : PlayMove(m, u)
 <2>1. PICK score : score = ScoreFor(right, t.elapsed) OBVIOUS
 <2>2. PICK u : u = Answered(t, a, score) OBVIOUS
 <2>3. /\ ~t.over /\ ~TimeUp(t, Duration) /\ a \in Seats(t) /\ t.answers[t.open][a] = NoAnswer
       /\ IF Closes(u) THEN FinalizeAndAdvance(h, m, u) ELSE Keep(m, u)
   BY <1>3, <1>5, <1>9, <2>1, <2>2 DEF SubmitAnswer, Answered, FirstAnswer, Contestants, Seats
 <2>4. MidQuiz(t) /\ ~tables[m].over BY <1>6, <1>7, <2>3, QuizMiddle
 <2>5. score \in Nat
  <3>1. t.elapsed \in Nat /\ t.elapsed < Duration
    BY <2>3, <2>4, DurationPositive DEF MidQuiz, QuizTable, TimeUp
  <3> QED BY <2>1, <3>1, ScoreCounts
 <2>6. MidQuiz(u) /\ u.players = t.players /\ u.game = t.game BY <2>2, <2>3, <2>4, <2>5, QuizAnswered
 <2>7. Placed(m, u) BY <1>6, <2>6 DEF Placed
 <2>8. CASE Closes(u) BY <2>3, <2>4, <2>6, <2>7, <2>8, QuizAdvances
 <2>9. CASE ~Closes(u)
  <3>1. Keep(m, u) /\ ~AllAnswered(u) /\ ~u.over BY <2>3, <2>6, <2>9 DEF Closes, MidQuiz
  <3>2. Fair(u) BY <2>6, <3>1, QuizMiddle DEF Fair
  <3> QED BY <2>4, <2>7, <3>1, <3>2, Kept
 <2> QED BY <2>8, <2>9
<1> QED BY <1>8, <1>9 DEF QuizStep
-----------------------------
\* Chess.  A move starts where its piece stands, and a pawn becomes a piece.
Goes(mv, from) == mv.from = from /\ mv.promotion \in {"none", "q", "r", "b", "n"}

\* Moves start where the piece stands.
LEMMA MovesGo ==
  ASSUME NEW from, NEW to, NEW kind
  PROVE  /\ Goes(Move(from, to, kind, "none"), from)
         /\ DOMAIN Move(from, to, kind, "none") = {"from", "to", "kind", "promotion"}
BY DEF Move, Goes

\* Among them the ones onto a set of squares.
LEMMA OntoGoes ==
  ASSUME NEW board, NEW from, NEW targets, NEW mv \in Onto(board, from, targets)
  PROVE  Goes(mv, from)
BY DEF Onto, Move, Goes

\* So do promotions.
LEMMA PromotingGoes ==
  ASSUME NEW from, NEW color, NEW moves,
         \A mv \in moves : \E to, kind : mv = Move(from, to, kind, "none"),
         NEW mv \in Promoting(moves, color)
  PROVE  Goes(mv, from)
<1>1. PICK old \in moves : mv \in IF Rank(old.to) = (IF color = "w" THEN 7 ELSE 0)
         THEN {[old EXCEPT !.promotion = p] : p \in {"q", "r", "b", "n"}} ELSE {old}
  BY DEF Promoting
<1>2. PICK to, kind : old = Move(from, to, kind, "none") OBVIOUS
<1>3. mv = old \/ \E p \in {"q", "r", "b", "n"} : mv = [old EXCEPT !.promotion = p] BY <1>1
<1> QED BY <1>2, <1>3 DEF Move, Goes

\* And the moves of a pawn.
LEMMA PawnGoes ==
  ASSUME NEW pos, NEW from, NEW mv \in PawnMoves(pos, from)
  PROVE  Goes(mv, from)
<1> DEFINE board == pos.board
           color == board[from].color
           one == Leaps(from, {<<0, Forward(color)>>}) \ DOMAIN board
           beside == Leaps(from, {-1, 1} \X {Forward(color)})
           steps == {Move(from, s, "quiet", "none") : s \in one}
           takes == {x \in Onto(board, from, beside) : x.kind = "capture"}
<1>1. \/ mv \in Promoting(steps, color)
      \/ \E s, kind : mv = Move(from, s, kind, "none")
      \/ mv \in Promoting(takes, color)
  BY DEF PawnMoves
<1>2. \A x \in steps : \E to, kind : x = Move(from, to, kind, "none") OBVIOUS
<1>3. \A x \in takes : \E to, kind : x = Move(from, to, kind, "none") BY DEF Onto
<1> HIDE DEF steps, takes, color
<1>4. mv \in Promoting(steps, color) => Goes(mv, from) BY <1>2, PromotingGoes
<1>5. mv \in Promoting(takes, color) => Goes(mv, from) BY <1>3, PromotingGoes
<1> QED BY <1>1, <1>4, <1>5, MovesGo

\* And those of any piece.
LEMMA PseudoGoes ==
  ASSUME NEW pos, NEW from, pos.board[from] \in Chessmen, NEW mv \in PseudoMoves(pos, from)
  PROVE  Goes(mv, from)
<1>1. pos.board[from].type \in {"p", "n", "b", "r", "q", "k"} BY DEF Chessmen
<1>2. \/ mv \in PawnMoves(pos, from)
      \/ \E targets : mv \in Onto(pos.board, from, targets)
      \/ mv \in CastleMoves(pos, from)
  BY <1>1 DEF PseudoMoves
<1>3. mv \in CastleMoves(pos, from) => \E to, kind : mv = Move(from, to, kind, "none") BY DEF CastleMoves
<1> QED BY <1>2, <1>3, PawnGoes, OntoGoes, MovesGo

\* A move leaves chessmen on the board and the other side to move.
LEMMA AppliedPlayable ==
  ASSUME NEW pos, Playable(pos), NEW mv, mv \in AllLegalMoves(pos, pos.turn),
         NEW next, next = Applied(pos, mv)
  PROVE  Playable(next) /\ next.turn = Opponent(pos.turn)
<1>1. PICK from \in DOMAIN pos.board : pos.board[from].color = pos.turn /\ mv \in PseudoMoves(pos, from)
  BY DEF AllLegalMoves, LegalMovesFrom
<1>2. PICK piece : piece = pos.board[from] /\ piece \in Chessmen /\ piece.color = pos.turn
  BY <1>1 DEF Playable
<1>3. mv.from = from /\ mv.promotion \in {"none", "q", "r", "b", "n"} BY <1>1, <1>2, PseudoGoes DEF Goes
<1>4. next.turn = Opponent(pos.turn) BY <1>2, <1>3 DEF Applied
<1>5. next.turn \in {"w", "b"} BY <1>4 DEF Opponent
<1>6. ASSUME NEW s \in DOMAIN next.board PROVE next.board[s] \in Chessmen
 <2>1. Piece("r", piece.color) \in Chessmen BY <1>2 DEF Piece, Chessmen
 <2>2. (IF mv.promotion = "none" THEN piece ELSE Piece(mv.promotion, piece.color)) \in Chessmen
   BY <1>2, <1>3 DEF Piece, Chessmen
 <2> DEFINE castle == {c \in Castling(piece.color) : c.kind = mv.kind}
            left == {mv.from} \cup {c.rook : c \in castle}
                      \cup (IF mv.kind = "enPassant" THEN {mv.to - 8 * Forward(piece.color)} ELSE {})
            taken == {mv.to} \cup {c.rookTo : c \in castle}
            placed == IF mv.promotion = "none" THEN piece ELSE Piece(mv.promotion, piece.color)
 <2>3. next.board = [x \in (DOMAIN pos.board \ left) \cup taken |->
                  IF x = mv.to THEN placed
                  ELSE IF \E c \in castle : x = c.rookTo THEN Piece("r", piece.color)
                  ELSE pos.board[x]]
   BY <1>2, <1>3 DEF Applied
 <2>4. (\E c \in castle : s = c.rookTo) \/ s = mv.to \/ s \in DOMAIN pos.board BY <1>6, <2>3
 <2>5. next.board[s] \in {placed, Piece("r", piece.color)} \/
         (s \in DOMAIN pos.board /\ next.board[s] = pos.board[s])
   BY <1>6, <2>3, <2>4
 <2> QED BY <2>1, <2>2, <2>5 DEF Playable
<1> QED BY <1>4, <1>5, <1>6 DEF Playable

\* A table of chess where the players of t go on, and one where they are done.
ChessOn(t, pos, n, clocks, e, offer) ==
  [game |-> "chess", players |-> t.players, pos |-> pos, moves |-> n, clocks |-> clocks,
   elapsed |-> e, offer |-> offer, over |-> FALSE, winner |-> Nobody, result |-> "none"]
\* A game of chess that is over.
ChessOver(t, pos, n, clocks, e, offer, w, result) ==
  [game |-> "chess", players |-> t.players, pos |-> pos, moves |-> n, clocks |-> clocks,
   elapsed |-> e, offer |-> offer, over |-> TRUE, winner |-> w, result |-> result]

\* The game goes on in a position where it can.
LEMMA ChessGoesOn ==
  ASSUME NEW players \in Seq(Accounts), players # <<>>, NamedOnce(players), Len(players) = 2,
         NEW t, t.players = players,
         NEW pos, Playable(pos), CanGoOn(pos), NEW n, NEW clocks, HasClocks(clocks),
         NEW e, NEW offer,
         NEW u, u = ChessOn(t, pos, n, clocks, e, offer)
  PROVE  FairChess(u) /\ ~u.over /\ u.players = players /\ u.game = "chess"
<1>0. ChessFields(u) BY DEF ChessOn, ChessOver, ChessFields
<1>1. /\ u.players = players /\ u.pos = pos /\ u.clocks = clocks /\ u.winner = Nobody
      /\ u.result = "none" /\ u.game = "chess"
  BY DEF ChessOn, ChessOver
<1>2. u.over = FALSE BY DEF ChessOn, ChessOver
<1>3. Seating(u) BY <1>1, <1>2 DEF Seating
<1>4. ResultRight(u)
 <2>1. ~(IsStuck(u.pos, u.pos.turn) \/ IsInsufficientMaterial(u.pos.board)) BY <1>1 DEF CanGoOn
 <2> QED BY <1>1, <1>2, <2>1 DEF ResultRight
<1>5. Playable(u.pos) /\ CanGoOn(u.pos) BY <1>1
<1> QED BY <1>0, <1>1, <1>2, <1>3, <1>4, <1>5 DEF FairChess, Winners

\* The game is over, with the right result.
LEMMA ChessEnds ==
  ASSUME NEW t, FairChess(t),
         NEW pos, Playable(pos), NEW n, NEW clocks, HasClocks(clocks),
         NEW e, NEW offer, NEW w, w \in Seats(t) \cup {Nobody}, NEW result,
         NEW u, u = ChessOver(t, pos, n, clocks, e, offer, w, result), ResultRight(u)
  PROVE  FairChess(u) /\ u.over /\ u.winner = w /\ u.players = t.players /\ u.game = "chess"
<1>0. ChessFields(u) BY DEF ChessOn, ChessOver, ChessFields
<1>1. /\ u.players = t.players /\ u.pos = pos /\ u.clocks = clocks /\ u.winner = w
      /\ u.game = "chess"
  BY DEF ChessOn, ChessOver
<1>2. u.over = TRUE BY DEF ChessOn, ChessOver
<1>3. t.players \in Seq(Accounts) /\ Len(t.players) = 2 /\ Seating(t) BY DEF FairChess
<1>4. Seating(u)
 <2>1. w \in Seats(t) \cup {Nobody} OBVIOUS
 <2> QED BY <1>1, <1>2, <1>3, <2>1, SeatingGoes
<1>5. w \in Winners BY <1>3, SeatsAre DEF Winners
<1>6. Playable(u.pos) BY <1>1
<1> QED BY <1>0, <1>1, <1>2, <1>3, <1>4, <1>5, <1>6 DEF FairChess

\* Who sits where.
LEMMA ChessSeats ==
  ASSUME NEW t, FairChess(t)
  PROVE  /\ OnClock(t) \in Seats(t) /\ Seats(t) \subseteq Accounts
         /\ \A a : Rival(t, a) \in Seats(t)
         /\ \A c : PlayerOf(t, c) \in Seats(t)
<1>1. t.players \in Seq(Accounts) /\ Len(t.players) = 2 BY DEF FairChess
<1>2. t.players[1] \in Seats(t) /\ t.players[2] \in Seats(t) /\ Seats(t) \subseteq Accounts
 <2>1. 1 \in 1..Len(t.players) /\ 2 \in 1..Len(t.players) BY <1>1
 <2> QED BY <1>1, <2>1, SeatsAre
<1> QED BY <1>2 DEF OnClock, Rival, PlayerOf

\* A game that ends by a move, by its players or by the clock.
LEMMA ChessEnded ==
  ASSUME NEW h \in Handlers, NEW m \in MatchIds, NEW t, FairChess(t), Placed(m, t), ~tables[m].over,
         NEW pos, Playable(pos), NEW n, NEW clocks, HasClocks(clocks),
         NEW e, NEW offer, NEW w, w \in Seats(t) \cup {Nobody}, NEW result,
         NEW v, v = ChessOn(t, pos, n, clocks, e, offer),
         NEW u, u = ChessOver(t, pos, n, clocks, e, offer, w, result), ResultRight(u),
         EndChess(h, m, v, w, result)
  PROVE  \E x : PlayMove(m, x)
<1>1. FairChess(u) /\ u.over /\ u.winner = w /\ u.players = t.players /\ u.game = "chess" BY ChessEnds
<1>2. PICK r : r = [v EXCEPT !.result = result] OBVIOUS
<1>3. u = [r EXCEPT !.over = TRUE, !.winner = w]
 <2>1. r = [game |-> "chess", players |-> t.players, pos |-> pos, moves |-> n, clocks |-> clocks,
            elapsed |-> e, offer |-> offer, over |-> FALSE, winner |-> Nobody, result |-> result]
   BY <1>2 DEF ChessOn
 <2>2. PICK x : x = [r EXCEPT !.over = TRUE, !.winner = w] OBVIOUS
 <2>3. x = [game |-> "chess", players |-> t.players, pos |-> pos, moves |-> n, clocks |-> clocks,
            elapsed |-> e, offer |-> offer, over |-> TRUE, winner |-> w, result |-> result]
   BY <2>1, <2>2
 <2> QED BY <2>2, <2>3 DEF ChessOver
<1>4. EndGame(h, m, r, w) BY <1>2 DEF EndChess
<1>5. Fair(u) BY <1>1 DEF Fair
<1>6. Placed(m, u)
 <2>1. t.game = "chess" BY DEF FairChess, ChessFields
 <2> QED BY <1>1, <2>1 DEF Placed
<1> QED BY <1>1, <1>3, <1>4, <1>5, <1>6, Ended, Zenon

\* The same where it goes on.
LEMMA ChessKept ==
  ASSUME NEW m \in MatchIds, NEW t, FairChess(t), Placed(m, t), ~tables[m].over,
         NEW pos, Playable(pos), CanGoOn(pos), NEW n, NEW clocks, HasClocks(clocks),
         NEW e, NEW offer,
         NEW v, v = ChessOn(t, pos, n, clocks, e, offer), Keep(m, v)
  PROVE  \E x : PlayMove(m, x)
<1>1. t.players \in Seq(Accounts) /\ Len(t.players) = 2 /\ Seating(t) /\ t.game = "chess"
  BY DEF FairChess, ChessFields
<1>2. t.players # <<>> /\ NamedOnce(t.players) BY <1>1 DEF Seating
<1>3. FairChess(v) /\ ~v.over /\ v.players = t.players /\ v.game = "chess" BY <1>1, <1>2, ChessGoesOn
<1>4. Fair(v) BY <1>3 DEF Fair
<1>5. Placed(m, v) BY <1>1, <1>3 DEF Placed
<1> QED BY <1>3, <1>4, <1>5, Kept

\* Where a game that goes on stands.
LEMMA ChessStands ==
  ASSUME NEW t, FairChess(t), ~t.over
  PROVE  /\ t = ChessOn(t, t.pos, t.moves, t.clocks, t.elapsed, t.offer)
         /\ Playable(t.pos) /\ CanGoOn(t.pos) /\ HasClocks(t.clocks)
<1>1. t.over = FALSE /\ t.winner = Nobody /\ t.result = "none" BY DEF FairChess, Seating
<1>2. t = ChessOn(t, t.pos, t.moves, t.clocks, t.elapsed, t.offer)
  BY <1>1 DEF FairChess, ChessFields, ChessOn, ChessOver
<1> QED BY <1>1, <1>2 DEF FairChess

\* The table a request finds or builds.
LEMMA ChessTableFound ==
  ASSUME LobbyTyped, TablesFair, NEW m \in MatchIds, NEW t, t \in ChessTables(m)
  PROVE  /\ FairChess(t) /\ Placed(m, t) /\ (~t.over => ~tables[m].over)
         /\ tables[m] = NoTable => ~t.over /\ ~tables[m].over
<1>1. Served(m, "chess") /\ Len(matches[m].players) = 2 BY DEF ChessTables
<1>2. FairRow(matches[m]) /\ matches[m].state \notin {"none", "lobby"} /\ matches[m].game = "chess"
  BY <1>1, RowServed DEF LobbyTyped
<1>3. CASE tables[m] = NoTable
 <2>1. PICK pos \in Openings : t = FreshChess(m, pos) BY <1>1, <1>3 DEF ChessTables
 <2>2. Playable(pos) /\ CanGoOn(pos) BY OpeningsPlayable DEF Playable, CanGoOn, Chessmen
 <2>3. PICK clocks : clocks = [a \in Accounts |-> Duration] OBVIOUS
 <2>4. HasClocks(clocks) BY <2>3 DEF HasClocks
 <2>5. t.players = matches[m].players BY <2>1 DEF FreshChess
 <2>6. t = ChessOn(t, pos, 0, clocks, 0, Nobody) BY <2>1, <2>3, <2>5 DEF FreshChess, ChessOn, ChessOver
 <2>7. t.players \in Seq(Accounts) /\ t.players # <<>> /\ NamedOnce(t.players) /\ Len(t.players) = 2
   BY <1>1, <1>2, <2>5 DEF FairRow, MatchRow
 <2>8. FairChess(t) /\ ~t.over /\ t.game = "chess" BY <2>2, <2>4, <2>6, <2>7, ChessGoesOn
 <2>9. Placed(m, t) BY <1>2, <2>5, <2>8 DEF Placed
 <2>10. ~tables[m].over BY <1>3 DEF NoTable
 <2> QED BY <2>8, <2>9, <2>10
<1>4. CASE tables[m] # NoTable
 <2>1. t = tables[m] BY <1>1, <1>4 DEF ChessTables
 <2>2. Placed(m, t) /\ Fair(t) BY <1>4, <2>1 DEF TablesFair
 <2>3. t.game = "chess" BY <1>2, <2>2 DEF Placed
 <2> QED BY <1>4, <2>1, <2>2, <2>3, FairKinds
<1> QED BY <1>3, <1>4

\* What the position after a move says is the right result.
LEMMA ChessVerdict ==
  ASSUME NEW t, FairChess(t), NEW from, from \in {"w", "b"}, NEW pos, Playable(pos),
         pos.turn = Opponent(from), NEW n, NEW clocks, NEW e, NEW offer,
         NEW result, result = Verdict(pos), result # "none",
         NEW w, w = IF result = "checkmate" THEN PlayerOf(t, from) ELSE Nobody,
         NEW u, u = ChessOver(t, pos, n, clocks, e, offer, w, result)
  PROVE  ResultRight(u)
<1>1. u.pos = pos /\ u.winner = w /\ u.result = result /\ u.players = t.players BY DEF ChessOver
<1>2. u.over BY DEF ChessOver
<1>3. result \in {"checkmate", "stalemate", "insufficient_material"} BY DEF Verdict
<1>4. Opponent(pos.turn) = from BY DEF Opponent
<1>5. result = "checkmate" =>
        IsStuck(pos, pos.turn) /\ InCheck(pos.board, pos.turn) /\ w = PlayerOf(u, from)
  BY <1>1 DEF Verdict, IsCheckmate, PlayerOf
<1>6. result = "stalemate" => IsStuck(pos, pos.turn) /\ ~InCheck(pos.board, pos.turn)
  BY DEF Verdict, IsStalemate
<1>7. u.winner = Nobody /\ u.over => result \in {"stalemate", "insufficient_material", "draw_agreement"}
 <2>1. PlayerOf(t, from) \in Accounts BY ChessSeats
 <2> QED BY <1>1, <1>3, <2>1, NobodyPlays
<1> QED BY <1>1, <1>2, <1>3, <1>4, <1>5, <1>6, <1>7 DEF ResultRight

\* A result that no position has to show.
LEMMA ChessDecided ==
  ASSUME NEW t, FairChess(t), NEW pos, NEW n, NEW clocks, NEW e, NEW offer, NEW w, NEW result,
         \/ result = "resignation" /\ w \in Seats(t)
         \/ result = "draw_agreement"
         \/ result = "timeout" /\ w \in Seats(t) /\ clocks[PlayerOf(t, pos.turn)] = 0,
         NEW u, u = ChessOver(t, pos, n, clocks, e, offer, w, result)
  PROVE  ResultRight(u)
<1>1. u.pos = pos /\ u.winner = w /\ u.result = result /\ u.players = t.players /\ u.clocks = clocks
  BY DEF ChessOver
<1>2. u.over BY DEF ChessOver
<1>3. w \in Seats(t) => w # Nobody BY ChessSeats, NobodyPlays
<1>4. result = "timeout" => u.clocks[OnClock(u)] = 0 BY <1>1 DEF OnClock, PlayerOf
<1>5. result \notin {"checkmate", "stalemate"} OBVIOUS
<1>6. u.winner = Nobody => result = "draw_agreement" BY <1>1, <1>3
<1> QED BY <1>1, <1>2, <1>4, <1>5, <1>6 DEF ResultRight

\* A clock that is set.
LEMMA ClocksSet ==
  ASSUME NEW clocks, HasClocks(clocks), NEW a, NEW x, NEW new, new = [clocks EXCEPT ![a] = x]
  PROVE  HasClocks(new) /\ (a \in Accounts => new[a] = x)
<1>1. DOMAIN clocks = Accounts BY DEF HasClocks
<1>2. new = [b \in Accounts |-> IF b = a THEN x ELSE clocks[b]] BY <1>1
<1> QED BY <1>2 DEF HasClocks

\* A table whose fields are set is one with those fields.
ChessSet(t, pos, n, clocks, e, offer) ==
  [t EXCEPT !.pos = pos, !.moves = n, !.clocks = clocks, !.elapsed = e, !.offer = offer]

\* A game that goes on, changed and going on.
LEMMA ChessChanged ==
  ASSUME NEW t, t = ChessOn(t, t.pos, t.moves, t.clocks, t.elapsed, t.offer),
         NEW pos, NEW n, NEW clocks, NEW e, NEW offer, NEW u,
         u = ChessSet(t, pos, n, clocks, e, offer)
  PROVE  u = ChessOn(t, pos, n, clocks, e, offer)
<1>1. PICK p, q, k, c, x, o :
        /\ p = t.players /\ q = t.pos /\ k = t.moves /\ c = t.clocks /\ x = t.elapsed /\ o = t.offer
  OBVIOUS
<1>2. t = [game |-> "chess", players |-> p, pos |-> q, moves |-> k, clocks |-> c,
           elapsed |-> x, offer |-> o, over |-> FALSE, winner |-> Nobody, result |-> "none"]
  BY <1>1 DEF ChessOn
<1>3. u = [game |-> "chess", players |-> p, pos |-> pos, moves |-> n, clocks |-> clocks,
           elapsed |-> e, offer |-> offer,
           over |-> FALSE, winner |-> Nobody, result |-> "none"]
  BY <1>2 DEF ChessSet
<1> QED BY <1>1, <1>3 DEF ChessOn

\* The same for the offer of a draw alone.
LEMMA ChessOffered ==
  ASSUME NEW t, t = ChessOn(t, t.pos, t.moves, t.clocks, t.elapsed, t.offer),
         NEW offer, NEW u,
         u = [t EXCEPT !.offer = offer]
  PROVE  u = ChessOn(t, t.pos, t.moves, t.clocks, t.elapsed, offer)
<1>1. PICK p, q, k, c, x, o :
        /\ p = t.players /\ q = t.pos /\ k = t.moves /\ c = t.clocks /\ x = t.elapsed /\ o = t.offer
  OBVIOUS
<1>2. t = [game |-> "chess", players |-> p, pos |-> q, moves |-> k, clocks |-> c,
           elapsed |-> x, offer |-> o, over |-> FALSE, winner |-> Nobody, result |-> "none"]
  BY <1>1 DEF ChessOn
<1>3. u = [game |-> "chess", players |-> p, pos |-> q, moves |-> k, clocks |-> c,
           elapsed |-> x, offer |-> offer,
           over |-> FALSE, winner |-> Nobody, result |-> "none"]
  BY <1>2
<1> QED BY <1>1, <1>3 DEF ChessOn

\* And for the clocks.
LEMMA ChessClocked ==
  ASSUME NEW t, t = ChessOn(t, t.pos, t.moves, t.clocks, t.elapsed, t.offer),
         NEW clocks, NEW u,
         u = [t EXCEPT !.clocks = clocks]
  PROVE  u = ChessOn(t, t.pos, t.moves, clocks, t.elapsed, t.offer)
<1>1. PICK p, q, k, c, x, o :
        /\ p = t.players /\ q = t.pos /\ k = t.moves /\ c = t.clocks /\ x = t.elapsed /\ o = t.offer
  OBVIOUS
<1>2. t = [game |-> "chess", players |-> p, pos |-> q, moves |-> k, clocks |-> c,
           elapsed |-> x, offer |-> o, over |-> FALSE, winner |-> Nobody, result |-> "none"]
  BY <1>1 DEF ChessOn
<1>3. u = [game |-> "chess", players |-> p, pos |-> q, moves |-> k, clocks |-> clocks,
           elapsed |-> x, offer |-> o,
           over |-> FALSE, winner |-> Nobody, result |-> "none"]
  BY <1>2
<1> QED BY <1>1, <1>3 DEF ChessOn

\* What a move of a comes to.
Follows(h, m, t, a, mv) ==
  LET pos == Applied(t.pos, mv)
      verdict == Verdict(pos)
      u == [t EXCEPT !.pos = pos, !.moves = @ + 1, !.clocks[a] = @ - t.elapsed,
                     !.elapsed = 0, !.offer = Nobody]
  IN /\ ~t.over /\ OnClock(t) = a
     /\ IF verdict = "none" THEN Keep(m, u)
        ELSE EndChess(h, m, u, IF verdict = "checkmate" THEN a ELSE Nobody, verdict)

\* Chess.
LEMMA ChessMoves ==
  ASSUME LobbyTyped, TablesFair, NEW h \in Handlers, NEW m \in MatchIds, ChessStep(h, m)
  PROVE  \E u : PlayMove(m, u)
<1>1. ASSUME NEW t, t \in ChessTables(m), ~t.over
      PROVE  /\ FairChess(t) /\ Placed(m, t) /\ ~tables[m].over
             /\ t = ChessOn(t, t.pos, t.moves, t.clocks, t.elapsed, t.offer)
             /\ Playable(t.pos) /\ CanGoOn(t.pos) /\ HasClocks(t.clocks)
             /\ OnClock(t) \in Seats(t) /\ OnClock(t) \in Accounts
             /\ \A a : Rival(t, a) \in Seats(t)
  BY <1>1, ChessTableFound, ChessStands, ChessSeats
<1>2. ASSUME NEW a \in Accounts, MoveChess(h, m, a) PROVE \E u : PlayMove(m, u)
 <2>1. PICK t \in ChessTables(m) : \E mv \in AllLegalMoves(t.pos, t.pos.turn) :
         Follows(h, m, t, a, mv)
   BY <1>2, Zenon DEF MoveChess, Underway, Follows
 <2>10. PICK mv \in AllLegalMoves(t.pos, t.pos.turn) : Follows(h, m, t, a, mv) BY <2>1
 <2>11. PICK pos, result, clocks, n :
          /\ pos = Applied(t.pos, mv) /\ result = Verdict(pos) /\ n = t.moves + 1
          /\ clocks = [t.clocks EXCEPT ![a] = t.clocks[a] - t.elapsed]
   OBVIOUS
 <2>12. PICK v : v = [t EXCEPT !.pos = pos, !.moves = @ + 1, !.clocks[a] = @ - t.elapsed,
                               !.elapsed = 0, !.offer = Nobody]
   OBVIOUS
 <2>13. v = [t EXCEPT !.pos = pos, !.moves = n, !.clocks = clocks, !.elapsed = 0, !.offer = Nobody]
   BY <2>11, <2>12
 <2>2. /\ ~t.over /\ OnClock(t) = a
       /\ IF result = "none" THEN Keep(m, v)
          ELSE EndChess(h, m, v, IF result = "checkmate" THEN a ELSE Nobody, result)
   BY <2>10, <2>11, <2>12, Zenon DEF Follows
 <2>3. /\ FairChess(t) /\ Placed(m, t) /\ ~tables[m].over
       /\ t = ChessOn(t, t.pos, t.moves, t.clocks, t.elapsed, t.offer)
       /\ Playable(t.pos) /\ HasClocks(t.clocks)
   BY <1>1, <2>2
 <2>5. v = ChessOn(t, pos, n, clocks, 0, Nobody)
  <3>1. t = ChessOn(t, t.pos, t.moves, t.clocks, t.elapsed, t.offer) BY <2>3
  <3>2. v = ChessSet(t, pos, n, clocks, 0, Nobody) BY <2>13 DEF ChessSet
  <3> QED BY <3>1, <3>2, ChessChanged
 <2>6. Playable(pos) /\ pos.turn = Opponent(t.pos.turn) /\ t.pos.turn \in {"w", "b"}
   BY <2>3, <2>10, <2>11, AppliedPlayable DEF Playable
 <2>7. HasClocks(clocks) BY <2>3, <2>11, ClocksSet
 <2>8. CASE result = "none"
  <3>1. Keep(m, v) BY <2>2, <2>8
  <3>2. CanGoOn(pos) BY <2>8, <2>11 DEF Verdict, IsCheckmate, IsStalemate, CanGoOn
  <3> QED BY <2>3, <2>5, <2>6, <2>7, <3>1, <3>2, ChessKept
 <2>9. CASE result # "none"
  <3>1. PICK w : w = IF result = "checkmate" THEN a ELSE Nobody OBVIOUS
  <3>2. EndChess(h, m, v, w, result) BY <2>2, <2>9, <3>1
  <3>3. PICK u : u = ChessOver(t, pos, n, clocks, 0, Nobody, w, result) OBVIOUS
  <3>4. PICK from : from = t.pos.turn OBVIOUS
  <3>5. from \in {"w", "b"} /\ pos.turn = Opponent(from) /\ a = PlayerOf(t, from)
    BY <2>2, <2>6, <3>4 DEF OnClock
  <3>6. w = IF result = "checkmate" THEN PlayerOf(t, from) ELSE Nobody BY <3>1, <3>5
  <3>7. result = Verdict(pos) BY <2>11
  <3>8. ResultRight(u) BY <2>3, <2>6, <2>9, <3>3, <3>5, <3>6, <3>7, ChessVerdict
  <3>9. w \in Seats(t) \cup {Nobody} BY <1>1, <2>2, <3>1
  <3> QED BY <2>3, <2>5, <2>6, <2>7, <3>2, <3>3, <3>8, <3>9, ChessEnded
 <2> QED BY <2>8, <2>9
<1>3. ASSUME NEW a \in Accounts, Resign(h, m, a) PROVE \E u : PlayMove(m, u)
 <2>1. PICK t \in ChessTables(m) : ~t.over /\ EndChess(h, m, t, Rival(t, a), "resignation")
   BY <1>3 DEF Resign, Underway
 <2>2. PICK w, u :
         /\ w = Rival(t, a)
         /\ u = ChessOver(t, t.pos, t.moves, t.clocks, t.elapsed, t.offer, w, "resignation")
   OBVIOUS
 <2>3. /\ FairChess(t) /\ Placed(m, t) /\ ~tables[m].over
       /\ t = ChessOn(t, t.pos, t.moves, t.clocks, t.elapsed, t.offer)
       /\ Playable(t.pos) /\ HasClocks(t.clocks) /\ w \in Seats(t)
   BY <1>1, <2>1, <2>2
 <2>4. ResultRight(u) BY <2>2, <2>3, ChessDecided
 <2> QED BY <2>1, <2>2, <2>3, <2>4, ChessEnded
<1>4. ASSUME NEW t \in ChessTables(m), NEW offer, ~t.over, Keep(m, [t EXCEPT !.offer = offer])
      PROVE  \E u : PlayMove(m, u)
 <2>1. /\ FairChess(t) /\ Placed(m, t) /\ ~tables[m].over
       /\ t = ChessOn(t, t.pos, t.moves, t.clocks, t.elapsed, t.offer)
       /\ Playable(t.pos) /\ HasClocks(t.clocks) /\ CanGoOn(t.pos)
   BY <1>1, <1>4
 <2>2. PICK v : v = ChessOn(t, t.pos, t.moves, t.clocks, t.elapsed, offer) OBVIOUS
 <2>3. v = [t EXCEPT !.offer = offer]
  <3>1. PICK x : x = [t EXCEPT !.offer = offer] OBVIOUS
  <3>2. x = v BY <2>1, <2>2, <3>1, ChessOffered
  <3> QED BY <3>1, <3>2
 <2>4. Keep(m, v) BY <1>4, <2>3
 <2> QED BY <2>1, <2>2, <2>4, ChessKept
<1>5. ASSUME NEW a \in Accounts, NEW accept \in BOOLEAN, RespondDraw(h, m, a, accept)
      PROVE  \E u : PlayMove(m, u)
 <2>1. PICK t \in ChessTables(m) :
         /\ ~t.over
         /\ EndChess(h, m, t, Nobody, "draw_agreement") \/ Keep(m, [t EXCEPT !.offer = Nobody])
   BY <1>5 DEF RespondDraw, Underway
 <2>2. CASE EndChess(h, m, t, Nobody, "draw_agreement")
  <3>1. PICK u : u = ChessOver(t, t.pos, t.moves, t.clocks, t.elapsed, t.offer, Nobody, "draw_agreement")
    OBVIOUS
  <3>2. /\ FairChess(t) /\ Placed(m, t) /\ ~tables[m].over
        /\ t = ChessOn(t, t.pos, t.moves, t.clocks, t.elapsed, t.offer)
        /\ Playable(t.pos) /\ HasClocks(t.clocks)
    BY <1>1, <2>1
  <3>3. ResultRight(u) BY <3>1, <3>2, ChessDecided
  <3>4. Nobody \in Seats(t) \cup {Nobody} OBVIOUS
  <3> QED BY <2>2, <3>1, <3>2, <3>3, <3>4, ChessEnded
 <2> QED BY <1>4, <2>1, <2>2
<1>6. CASE LookAtChess(h, m)
 <2>1. PICK t \in ChessTables(m) :
    \/ /\ ~t.over
       /\ EndChess(h, m, [t EXCEPT !.clocks[OnClock(t)] = 0], Rival(t, OnClock(t)), "timeout")
    \/ tables[m] = NoTable /\ Keep(m, t)
   BY <1>6 DEF LookAtChess
 <2>2. CASE tables[m] = NoTable /\ Keep(m, t)
  <3>1. FairChess(t) /\ Placed(m, t) /\ ~t.over /\ ~tables[m].over BY <2>2, ChessTableFound
  <3>2. Fair(t) BY <3>1 DEF Fair
  <3> QED BY <2>2, <3>1, <3>2, Kept
 <2>3. CASE ~t.over /\ EndChess(h, m, [t EXCEPT !.clocks[OnClock(t)] = 0], Rival(t, OnClock(t)), "timeout")
  <3>1. PICK a, w : a = OnClock(t) /\ w = Rival(t, a) OBVIOUS
  <3>2. /\ FairChess(t) /\ Placed(m, t) /\ ~tables[m].over
        /\ t = ChessOn(t, t.pos, t.moves, t.clocks, t.elapsed, t.offer)
        /\ Playable(t.pos) /\ HasClocks(t.clocks) /\ w \in Seats(t) /\ a \in Accounts
    BY <1>1, <2>3, <3>1
  <3>3. PICK clocks : clocks = [t.clocks EXCEPT ![a] = 0] OBVIOUS
  <3>4. HasClocks(clocks) /\ clocks[a] = 0 BY <3>2, <3>3, ClocksSet, SMTT(60)
  <3>5. PICK v, u : /\ v = ChessOn(t, t.pos, t.moves, clocks, t.elapsed, t.offer)
                    /\ u = ChessOver(t, t.pos, t.moves, clocks, t.elapsed, t.offer, w, "timeout")
    OBVIOUS
  <3>6. v = [t EXCEPT !.clocks = clocks]
   <4>1. PICK x : x = [t EXCEPT !.clocks = clocks] OBVIOUS
   <4>2. x = v BY <3>2, <3>5, <4>1, ChessClocked
   <4> QED BY <4>1, <4>2
  <3>7. EndChess(h, m, v, w, "timeout") BY <2>3, <3>1, <3>3, <3>6
  <3>8. clocks[PlayerOf(t, t.pos.turn)] = 0 BY <3>1, <3>4 DEF OnClock
  <3>9. ResultRight(u) BY <3>2, <3>5, <3>8, ChessDecided
  <3> QED BY <3>2, <3>4, <3>5, <3>7, <3>9, ChessEnded
 <2> QED BY <2>1, <2>2, <2>3
<1>7. ASSUME NEW a \in Accounts, OfferDraw(m, a) PROVE \E u : PlayMove(m, u)
 <2>1. PICK t \in ChessTables(m) : ~t.over /\ Keep(m, [t EXCEPT !.offer = a])
   BY <1>7 DEF OfferDraw, Underway
 <2> QED BY <1>4, <2>1
<1> QED BY <1>2, <1>3, <1>5, <1>6, <1>7 DEF ChessStep
-----------------------------
\* Dominoes.  Every tile is somewhere, once.
Tiled(t) ==
  /\ (UNION {t.hands[a] : a \in Seats(t)}) \cup t.boneyard \cup t.played = TileSet
  /\ \A a, b \in Accounts : a # b => t.hands[a] \cap t.hands[b] = {}
  /\ \A a \in Accounts : t.hands[a] \cap (t.boneyard \cup t.played) = {}
  /\ t.boneyard \cap t.played = {}
  /\ \A a \in Accounts \ Seats(t) : t.hands[a] = {}

\* The tiles on the table match.
Matched(t) == \A pip \in 0..MaxPip : (Halves(t, pip) + EndsAt(t, pip)) % 2 = 0

\* The one of S with the fewest pips.
LowOf(S, hands) ==
  LET best == {p \in S : \A q \in S : ~(HandPipTotal(hands[q]) < HandPipTotal(hands[p]))}
  IN IF Cardinality(best) = 1 THEN CHOOSE p \in best : TRUE ELSE Nobody

\* Somebody is out of tiles, or all have passed.
DominoDone(t) == (\E a \in Seats(t) : t.hands[a] = {}) \/ t.passes = Len(t.players)
\* Who won emptied the hand, or nobody can move and who has the fewest pips won.
DominoWon(t) ==
  \/ t.winner # Nobody /\ t.hands[t.winner] = {}
  \/ /\ \A a \in Seats(t) : ~HasAnyLegalMove(t.hands[a], t.chain)
     /\ t.boneyard = {} /\ t.winner = LowOf(Seats(t), t.hands)

\* FairDomino, in these words.
LEMMA DominoIs ==
  ASSUME NEW t
  PROVE  FairDomino(t) <=>
           /\ t \in DominoTable /\ Turns(t) /\ Tiled(t) /\ Matched(t)
           /\ t.played = {} <=> t.chain = NoChain
           /\ t.over <=> DominoDone(t)
           /\ t.over => DominoWon(t)
           /\ ~t.over => t.passes < Len(t.players) /\ PassedStuck(t)
<1>1. OnlyBest(Seats(t), LAMBDA p, q : HandPipTotal(t.hands[p]) < HandPipTotal(t.hands[q]))
        = LowOf(Seats(t), t.hands)
  BY DEF OnlyBest, LowOf
<1>2. DominoSound(t) <=>
        /\ (UNION {t.hands[a] : a \in Seats(t)}) \cup t.boneyard \cup t.played = TileSet
        /\ \A a, b \in Accounts : a # b => t.hands[a] \cap t.hands[b] = {}
        /\ \A a \in Accounts : t.hands[a] \cap (t.boneyard \cup t.played) = {}
        /\ t.boneyard \cap t.played = {}
        /\ Matched(t)
        /\ t.over <=> DominoDone(t)
        /\ t.over => DominoWon(t)
  BY <1>1, Zenon DEF DominoSound, Matched, DominoDone, DominoWon
<1>3. Tiled(t) <=>
        /\ (UNION {t.hands[a] : a \in Seats(t)}) \cup t.boneyard \cup t.played = TileSet
        /\ \A a, b \in Accounts : a # b => t.hands[a] \cap t.hands[b] = {}
        /\ \A a \in Accounts : t.hands[a] \cap (t.boneyard \cup t.played) = {}
        /\ t.boneyard \cap t.played = {}
        /\ \A a \in Accounts \ Seats(t) : t.hands[a] = {}
  BY Zenon DEF Tiled
<1> HIDE DEF DominoSound
<1> QED BY <1>2, <1>3, Zenon DEF FairDomino

\* There are finitely many tiles.
LEMMA TilesFinite ==
  /\ IsFiniteSet(TileSet)
  /\ \A tile \in TileSet : tile[1] \in 0..MaxPip /\ tile[2] \in 0..MaxPip
<1>1. IsFiniteSet(0..MaxPip) BY FS_Interval, TilesDealt
<1>2. IsFiniteSet((0..MaxPip) \X (0..MaxPip)) BY <1>1, FS_Product
<1>3. TileSet \subseteq (0..MaxPip) \X (0..MaxPip) BY DEF TileSet
<1>4. IsFiniteSet(TileSet) BY <1>2, <1>3, FS_Subset
<1> QED BY <1>3, <1>4

\* One half with that many pips.
One(x, pip) == IF x = pip THEN 1 ELSE 0

\* How many open ends show pip.
LEMMA EndsCount ==
  ASSUME NEW t, t \in DominoTable, NEW pip
  PROVE  EndsAt(t, pip) = IF t.chain = NoChain THEN 0 ELSE One(t.chain[1], pip) + One(t.chain[2], pip)
<1>1. PICK E : E = {e \in Ends : t.chain # NoChain /\ t.chain[e] = pip} OBVIOUS
<1>2. EndsAt(t, pip) = Cardinality(E) BY <1>1 DEF EndsAt
<1>3. CASE t.chain = NoChain
 <2>1. E = {} BY <1>1, <1>3
 <2> QED BY <1>2, <1>3, <2>1, FS_EmptySet
<1>4. CASE t.chain # NoChain
 <2>1. Cardinality({1}) = 1 /\ Cardinality({2}) = 1 /\ Cardinality({}) = 0 BY FS_Singleton, FS_EmptySet
 <2>2. Cardinality({1, 2}) = 2
  <3>1. PICK S : S = {1} OBVIOUS
  <3>2. IsFiniteSet(S) /\ Cardinality(S) = 1 BY <2>1, <3>1, FS_Singleton
  <3>3. 2 \notin S /\ S \cup {2} = {1, 2} BY <3>1
  <3>4. Cardinality(S \cup {2}) = Cardinality(S) + 1 BY <3>2, <3>3, FS_AddElement
  <3> QED BY <3>2, <3>3, <3>4
 <2>3. CASE t.chain[1] = pip /\ t.chain[2] = pip
  <3>1. E = {1, 2} BY <1>1, <1>4, <2>3 DEF Ends
  <3> QED BY <1>2, <1>4, <2>2, <2>3, <3>1 DEF One
 <2>4. CASE t.chain[1] = pip /\ t.chain[2] # pip
  <3>1. E = {1} BY <1>1, <1>4, <2>4 DEF Ends
  <3> QED BY <1>2, <1>4, <2>1, <2>4, <3>1 DEF One
 <2>5. CASE t.chain[1] # pip /\ t.chain[2] = pip
  <3>1. E = {2} BY <1>1, <1>4, <2>5 DEF Ends
  <3> QED BY <1>2, <1>4, <2>1, <2>5, <3>1 DEF One
 <2>6. CASE t.chain[1] # pip /\ t.chain[2] # pip
  <3>1. E = {} BY <1>1, <1>4, <2>6 DEF Ends
  <3> QED BY <1>2, <1>4, <2>1, <2>6, <3>1 DEF One
 <2> QED BY <2>3, <2>4, <2>5, <2>6
<1> QED BY <1>3, <1>4

\* A tile that is laid adds its halves.
LEMMA HalvesAre ==
  ASSUME NEW t, t.played \subseteq TileSet, NEW pip
  PROVE  /\ Halves(t, pip) \in Nat
         /\ t.played = {} => Halves(t, pip) = 0
         /\ \A u, tile : tile \in TileSet \ t.played /\ u.played = t.played \cup {tile} =>
              Halves(u, pip) = Halves(t, pip) + One(tile[1], pip) + One(tile[2], pip)
<1> DEFINE F(P) == [tile \in P |-> (IF tile[1] = pip THEN 1 ELSE 0) + (IF tile[2] = pip THEN 1 ELSE 0)]
<1>1. PICK P : P = t.played /\ IsFiniteSet(P) BY TilesFinite, FS_Subset
<1>2. \A S, x : x \in S => F(S)[x] = One(x[1], pip) + One(x[2], pip) /\ F(S)[x] \in Nat /\ F(S)[x] \in Int
  BY DEF One
<1>3. Halves(t, pip) = SumFunctionOnSet(F(P), P) BY <1>1 DEF Halves
<1>4. Halves(t, pip) \in Nat
 <2> HIDE DEF F
 <2> QED BY <1>1, <1>2, <1>3, SumNat
<1>5. t.played = {} => Halves(t, pip) = 0
 <2> HIDE DEF F
 <2> QED BY <1>1, <1>3, SumOfNone
<1>6. ASSUME NEW u, NEW tile, tile \in TileSet, tile \notin t.played, u.played = t.played \cup {tile}
      PROVE  Halves(u, pip) = Halves(t, pip) + One(tile[1], pip) + One(tile[2], pip)
 <2>1. PICK Q : Q = P \cup {tile} /\ IsFiniteSet(Q) BY <1>1, FS_AddElement
 <2>2. Halves(u, pip) = SumFunctionOnSet(F(Q), Q) BY <1>1, <1>6, <2>1 DEF Halves
 <2>3. tile \in Q /\ Q \ {tile} = P /\ P \subseteq Q BY <1>1, <1>6, <2>1
 <2> HIDE DEF F
 <2>4. SumFunctionOnSet(F(Q), Q) = F(Q)[tile] + SumFunctionOnSet(F(Q), P)
  <3>1. PICK f : f = F(Q) OBVIOUS
  <3>2. \A y \in Q : f[y] \in Int BY <1>2, <3>1
  <3>3. SumFunctionOnSet(f, Q) = f[tile] + SumFunctionOnSet(f, Q \ {tile}) BY <2>1, <2>3, <3>2, SumSplit
  <3> QED BY <2>3, <3>1, <3>3
 <2>5. SumFunctionOnSet(F(Q), P) = SumFunctionOnSet(F(P), P)
  <3>1. \A x \in P : F(Q)[x] = F(P)[x] BY <1>2, <2>3
  <3> QED BY <1>1, <3>1, SumSame
 <2>6. F(Q)[tile] = One(tile[1], pip) + One(tile[2], pip) BY <1>2, <2>3
 <2>7. One(tile[1], pip) \in Nat /\ One(tile[2], pip) \in Nat BY DEF One
 <2> QED BY <1>3, <1>4, <2>2, <2>4, <2>5, <2>6, <2>7
<1> QED BY <1>4, <1>5, <1>6

\* Two more of the same do not change what is even.
LEMMA StillEven ==
  ASSUME NEW x \in Nat, NEW y \in Nat, NEW k \in Nat, y = x + 2 * k, x % 2 = 0
  PROVE  y % 2 = 0
<1>1. PICK n \in Nat : x = 2 * n
 <2>1. x = 2 * (x \div 2) + (x % 2) /\ x \div 2 \in Nat OBVIOUS
 <2> QED BY <2>1
<1>2. y = 2 * (n + k) BY <1>1
<1> QED BY <1>2

\* That is a number.
LEMMA OneNat == ASSUME NEW x, NEW pip PROVE One(x, pip) \in Nat
BY DEF One

\* The halves that a tile adds come in pairs.
Paired(new, tile, chain, pip) ==
  \E k \in Nat : One(new[1], pip) + One(new[2], pip) + One(tile[1], pip) + One(tile[2], pip)
                   = One(chain[1], pip) + One(chain[2], pip) + 2 * k

\* The open ends after a tile of the chain's end was laid there.
LEMMA AttachMatches ==
  ASSUME NEW chain, chain \in (0..MaxPip) \X (0..MaxPip), NEW tile, tile \in TileSet,
         NEW e \in LegalEnds(tile, chain), NEW new, new = Attach(tile, e, chain), NEW pip,
         chain # NoChain
  PROVE  /\ new \in (0..MaxPip) \X (0..MaxPip) /\ new # NoChain
         /\ Paired(new, tile, chain, pip)
<1>1. PICK l, r, a, b : /\ l = chain[1] /\ r = chain[2] /\ chain = <<l, r>> /\ a = tile[1] /\ b = tile[2]
                        /\ l \in 0..MaxPip /\ r \in 0..MaxPip /\ a \in 0..MaxPip /\ b \in 0..MaxPip
  BY TilesFinite
<1>2. e \in {1, 2} /\ chain[e] \in {a, b} BY <1>1 DEF LegalEnds, Ends
<1>3. new = [chain EXCEPT ![e] = IF a = chain[e] THEN b ELSE a] BY <1>1 DEF Attach
<1>4. CASE e = 1
 <2>1. PICK x : x = IF a = l THEN b ELSE a OBVIOUS
 <2>2. new = <<x, r>> /\ x \in 0..MaxPip BY <1>1, <1>3, <1>4, <2>1
 <2>3. One(a, pip) + One(b, pip) = One(l, pip) + One(x, pip)
  <3>1. (a = l /\ b = x) \/ (b = l /\ a = x) BY <1>1, <1>2, <1>4, <2>1
  <3> QED BY <3>1 DEF One
 <2>4. /\ new[1] = x /\ new[2] = r
       /\ new \in (0..MaxPip) \X (0..MaxPip)
       /\ new # NoChain
  <3>1. new[1] = x /\ new[2] = r BY <2>2
  <3>2. new \in (0..MaxPip) \X (0..MaxPip) BY <1>1, <2>2
  <3>3. new # NoChain BY <2>2 DEF NoChain
  <3> QED BY <3>1, <3>2, <3>3
 <2>5. One(new[1], pip) + One(new[2], pip) + One(a, pip) + One(b, pip)
         = One(l, pip) + One(r, pip) + 2 * One(x, pip)
   BY <2>3, <2>4, OneNat
 <2>6. One(x, pip) \in Nat BY OneNat
 <2>7. Paired(new, tile, chain, pip) BY <1>1, <2>5, <2>6 DEF Paired
 <2> QED BY <2>4, <2>7
<1>5. CASE e = 2
 <2>1. PICK x : x = IF a = r THEN b ELSE a OBVIOUS
 <2>2. new = <<l, x>> /\ x \in 0..MaxPip BY <1>1, <1>3, <1>5, <2>1
 <2>3. One(a, pip) + One(b, pip) = One(r, pip) + One(x, pip)
  <3>1. (a = r /\ b = x) \/ (b = r /\ a = x) BY <1>1, <1>2, <1>5, <2>1
  <3> QED BY <3>1 DEF One
 <2>4. /\ new[1] = l /\ new[2] = x
       /\ new \in (0..MaxPip) \X (0..MaxPip)
       /\ new # NoChain
  <3>1. new[1] = l /\ new[2] = x BY <2>2
  <3>2. new \in (0..MaxPip) \X (0..MaxPip) BY <1>1, <2>2
  <3>3. new # NoChain BY <2>2 DEF NoChain
  <3> QED BY <3>1, <3>2, <3>3
 <2>5. One(new[1], pip) + One(new[2], pip) + One(a, pip) + One(b, pip)
         = One(l, pip) + One(r, pip) + 2 * One(x, pip)
   BY <2>3, <2>4, OneNat
 <2>6. One(x, pip) \in Nat BY OneNat
 <2>7. Paired(new, tile, chain, pip) BY <1>1, <2>5, <2>6 DEF Paired
 <2> QED BY <2>4, <2>7
<1> QED BY <1>2, <1>4, <1>5

\* A tile that is laid keeps the chain matched.
LEMMA LaidMatches ==
  ASSUME NEW t, t \in DominoTable, Matched(t), t.played = {} <=> t.chain = NoChain,
         NEW tile, tile \in TileSet \ t.played, NEW e \in LegalEnds(tile, t.chain),
         NEW u, u \in DominoTable, u.chain = Attach(tile, e, t.chain), u.played = t.played \cup {tile}
  PROVE  Matched(u) /\ u.chain # NoChain
<1>1. t.played \subseteq TileSet /\ t.chain \in {NoChain} \cup ((0..MaxPip) \X (0..MaxPip))
  BY DEF DominoTable
<1>2. tile \in (0..MaxPip) \X (0..MaxPip) /\ tile # NoChain BY DEF TileSet, NoChain
<1>3. u.chain # NoChain
 <2>1. CASE t.chain = NoChain BY <1>2, <2>1 DEF Attach
 <2>2. CASE t.chain # NoChain
  <3>1. PICK c : c = t.chain /\ c \in (0..MaxPip) \X (0..MaxPip) /\ c # NoChain BY <1>1, <2>2
  <3>2. PICK new : new = Attach(tile, e, c) OBVIOUS
  <3>3. tile \in TileSet /\ e \in LegalEnds(tile, c) BY <3>1
  <3>4. new # NoChain BY <3>1, <3>2, <3>3, AttachMatches
  <3> QED BY <3>1, <3>2, <3>4
 <2> QED BY <2>1, <2>2
<1>4. ASSUME NEW pip \in 0..MaxPip PROVE (Halves(u, pip) + EndsAt(u, pip)) % 2 = 0
 <2>1. PICK old, ends, now, after, a, b :
         /\ old = Halves(t, pip) /\ ends = EndsAt(t, pip) /\ now = Halves(u, pip) /\ after = EndsAt(u, pip)
         /\ a = One(tile[1], pip) /\ b = One(tile[2], pip)
   OBVIOUS
 <2>2. old \in Nat /\ a \in Nat /\ b \in Nat /\ now = old + a + b /\ (t.played = {} => old = 0)
   BY <1>1, <2>1, HalvesAre, OneNat
 <2>3. after = One(u.chain[1], pip) + One(u.chain[2], pip) BY <1>3, <2>1, EndsCount
 <2>4. ends = IF t.chain = NoChain THEN 0 ELSE One(t.chain[1], pip) + One(t.chain[2], pip)
   BY <2>1, EndsCount
 <2>5. ends \in Nat /\ after \in Nat BY <2>3, <2>4, OneNat
 <2>6. \E k \in Nat : now + after = old + ends + 2 * k
  <3>1. CASE t.chain = NoChain
   <4>1. u.chain = tile /\ old = 0 /\ ends = 0 BY <2>2, <2>4, <3>1 DEF Attach
   <4>2. after = a + b BY <2>1, <2>3, <4>1
   <4>3. PICK k \in Nat : k = a + b BY <2>2
   <4>4. now + after = old + ends + 2 * k BY <2>2, <4>1, <4>2, <4>3
   <4> QED BY <4>4
  <3>2. CASE t.chain # NoChain
   <4>1. PICK c : c = t.chain /\ c \in (0..MaxPip) \X (0..MaxPip) /\ c # NoChain BY <1>1, <3>2
   <4>2. PICK new : new = Attach(tile, e, c) /\ new = u.chain BY <4>1
   <4>3. tile \in TileSet /\ e \in LegalEnds(tile, c) BY <4>1
   <4>8. new = Attach(tile, e, c) BY <4>2
   <4>9. Paired(new, tile, c, pip) BY <4>1, <4>3, <4>8, AttachMatches
   <4>4. PICK k \in Nat : One(new[1], pip) + One(new[2], pip) + One(tile[1], pip) + One(tile[2], pip)
                          = One(c[1], pip) + One(c[2], pip) + 2 * k
     BY <4>9 DEF Paired
   <4>5. after + a + b = ends + 2 * k BY <2>1, <2>3, <2>4, <4>1, <4>2, <4>4
   <4>6. now + after = old + ends + 2 * k BY <2>2, <2>5, <4>5
   <4> QED BY <4>6
  <3> QED BY <3>1, <3>2
 <2>7. (old + ends) % 2 = 0 BY <2>1 DEF Matched
 <2>8. (now + after) % 2 = 0 BY <2>2, <2>5, <2>6, <2>7, StillEven
 <2> QED BY <2>1, <2>8
<1> QED BY <1>3, <1>4 DEF Matched
-----------------------------
\* A game that goes on: nobody is out of tiles.
LEMMA DominoGoing ==
  ASSUME NEW t, FairDomino(t), ~t.over
  PROVE  /\ t \in DominoTable /\ Turns(t) /\ Tiled(t) /\ Matched(t)
         /\ t.played = {} <=> t.chain = NoChain
         /\ t.passes < Len(t.players) /\ PassedStuck(t)
         /\ Seats(t) \subseteq Accounts /\ CurrentActor(t) \in Seats(t) /\ t.winner = Nobody
         /\ \A b \in Seats(t) : t.hands[b] # {}
<1>1. /\ t \in DominoTable /\ Turns(t) /\ Tiled(t) /\ Matched(t)
      /\ t.played = {} <=> t.chain = NoChain
      /\ t.passes < Len(t.players) /\ PassedStuck(t) /\ ~DominoDone(t)
  BY DominoIs, Zenon
<1>2. t.players \in Seq(Accounts) BY <1>1 DEF DominoTable
<1>3. Seats(t) \subseteq Accounts /\ CurrentActor(t) \in Seats(t)
  BY <1>1, <1>2, SeatsAre DEF Turns, CurrentActor
<1>4. t.winner = Nobody BY <1>1 DEF Turns, Seating
<1>5. \A b \in Seats(t) : t.hands[b] # {} BY <1>1 DEF DominoDone
<1> QED BY <1>1, <1>3, <1>4, <1>5

\* The same, tile by tile.
Somewhere(t) ==
  /\ \A x : x \in TileSet <=> x \in t.boneyard \/ x \in t.played \/ \E b \in Accounts : x \in t.hands[b]
  /\ \A x : \A b, c \in Accounts : x \in t.hands[b] /\ x \in t.hands[c] => b = c
  /\ \A x : \A b \in Accounts :
       x \in t.hands[b] => x \notin t.boneyard /\ x \notin t.played /\ b \in Seats(t)
  /\ \A x : x \notin t.boneyard \/ x \notin t.played

\* What is in a union of hands, or in one of two more sets.
LEMMA InUnion ==
  ASSUME NEW f, NEW S, NEW B, NEW P, NEW x
  PROVE  x \in (UNION {f[b] : b \in S}) \cup B \cup P <=> (x \in B \/ x \in P \/ \E b \in S : x \in f[b])
<1>1. PICK U : U = UNION {f[b] : b \in S} OBVIOUS
<1>2. x \in U <=> \E b \in S : x \in f[b] BY <1>1
<1>3. x \in U \cup B \cup P <=> (x \in B \/ x \in P \/ \E b \in S : x \in f[b]) BY <1>2
<1> QED BY <1>1, <1>3, Zenon

\* Both say the same.
LEMMA TiledIs ==
  ASSUME NEW t, Seats(t) \subseteq Accounts
  PROVE  Tiled(t) <=> Somewhere(t)
<1>1. ASSUME Tiled(t) PROVE Somewhere(t)
 <2>1. ASSUME NEW x
       PROVE  x \in TileSet <=> x \in t.boneyard \/ x \in t.played \/ \E b \in Accounts : x \in t.hands[b]
  <3>1. x \in TileSet <=> x \in t.boneyard \/ x \in t.played \/ \E b \in Seats(t) : x \in t.hands[b]
   <4>1. (UNION {t.hands[b] : b \in Seats(t)}) \cup t.boneyard \cup t.played = TileSet
     BY <1>1, Zenon DEF Tiled
   <4>2. PICK f : f = t.hands OBVIOUS
   <4>3. x \in (UNION {f[b] : b \in Seats(t)}) \cup t.boneyard \cup t.played
           <=> (x \in t.boneyard \/ x \in t.played \/ \E b \in Seats(t) : x \in f[b])
     BY InUnion, Zenon
   <4> QED BY <4>1, <4>2, <4>3
  <3>2. \A b \in Accounts : x \in t.hands[b] => b \in Seats(t) BY <1>1, Zenon DEF Tiled
  <3> QED BY <3>1, <3>2, Zenon
 <2>2. \A x : \A b, c \in Accounts : x \in t.hands[b] /\ x \in t.hands[c] => b = c BY <1>1, Zenon DEF Tiled
 <2>3. \A x : \A b \in Accounts :
         x \in t.hands[b] => x \notin t.boneyard /\ x \notin t.played /\ b \in Seats(t)
   BY <1>1, Zenon DEF Tiled
 <2>4. \A x : x \notin t.boneyard \/ x \notin t.played BY <1>1, Zenon DEF Tiled
 <2> QED BY <2>1, <2>2, <2>3, <2>4, Zenon DEF Somewhere
<1>2. ASSUME Somewhere(t) PROVE Tiled(t)
 <2>1. (UNION {t.hands[a] : a \in Seats(t)}) \cup t.boneyard \cup t.played = TileSet
  <3>1. ASSUME NEW x
        PROVE  x \in (UNION {t.hands[a] : a \in Seats(t)}) \cup t.boneyard \cup t.played <=> x \in TileSet
   <4>2. (\E b \in Seats(t) : x \in t.hands[b]) <=> \E b \in Accounts : x \in t.hands[b]
     BY <1>2, Zenon DEF Somewhere
   <4>3. x \in TileSet <=> x \in t.boneyard \/ x \in t.played \/ \E b \in Accounts : x \in t.hands[b]
     BY <1>2, Zenon DEF Somewhere
   <4>4. PICK f : f = t.hands OBVIOUS
   <4>5. x \in (UNION {f[b] : b \in Seats(t)}) \cup t.boneyard \cup t.played
           <=> (x \in t.boneyard \/ x \in t.played \/ \E b \in Seats(t) : x \in f[b])
     BY InUnion, Zenon
   <4> QED BY <4>2, <4>3, <4>4, <4>5
  <3> QED BY <3>1, Zenon
 <2>2. \A a, b \in Accounts : a # b => t.hands[a] \cap t.hands[b] = {} BY <1>2, Zenon DEF Somewhere
 <2>3. \A a \in Accounts : t.hands[a] \cap (t.boneyard \cup t.played) = {} BY <1>2, Zenon DEF Somewhere
 <2>4. t.boneyard \cap t.played = {} BY <1>2, Zenon DEF Somewhere
 <2>5. \A a \in Accounts \ Seats(t) : t.hands[a] = {} BY <1>2, Zenon DEF Somewhere
 <2> QED BY <2>1, <2>2, <2>3, <2>4, <2>5, Zenon DEF Tiled
<1> QED BY <1>1, <1>2

\* A tile that leaves a hand for the table is still somewhere, once.
LEMMA TileLaid ==
  ASSUME NEW t, Somewhere(t), NEW u, Seats(u) = Seats(t), NEW a \in Accounts, a \in Seats(t),
         NEW tile, tile \in t.hands[a], u.hands[a] = t.hands[a] \ {tile}, SameBut(t.hands, u.hands, a),
         u.boneyard = t.boneyard, u.played = t.played \cup {tile}
  PROVE  Somewhere(u)
<1>1. \A x : \A b \in Accounts : x \in u.hands[b] <=> (x \in t.hands[b] /\ ~(b = a /\ x = tile))
  BY Zenon DEF SameBut
<1>2. \A x : x \in u.played <=> (x \in t.played \/ x = tile) BY Zenon
<1>3. \A x : x \in u.boneyard <=> x \in t.boneyard BY Zenon
<1>4. \A x : x \in TileSet <=> x \in u.boneyard \/ x \in u.played \/ \E b \in Accounts : x \in u.hands[b]
 <2>1. ASSUME NEW x, x # tile
       PROVE  x \in TileSet <=> x \in u.boneyard \/ x \in u.played \/ \E b \in Accounts : x \in u.hands[b]
  <3>1. x \in TileSet <=> x \in t.boneyard \/ x \in t.played \/ \E b \in Accounts : x \in t.hands[b]
    BY Zenon DEF Somewhere
  <3>2. \A b \in Accounts : x \in u.hands[b] <=> x \in t.hands[b] BY <1>1, <2>1, Zenon
  <3> QED BY <1>2, <1>3, <2>1, <3>1, <3>2, Zenon
 <2>2. tile \in TileSet BY Zenon DEF Somewhere
 <2>3. tile \in u.played BY <1>1, <1>2, Zenon
 <2> QED BY <2>1, <2>2, <2>3, Zenon
<1>5. \A x : \A b, c \in Accounts : x \in u.hands[b] /\ x \in u.hands[c] => b = c
  BY <1>1, Zenon DEF Somewhere
<1>6. \A x : \A b \in Accounts :
        x \in u.hands[b] => x \notin u.boneyard /\ x \notin u.played /\ b \in Seats(u)
 <2>1. ASSUME NEW x, NEW b \in Accounts, x \in u.hands[b]
       PROVE  x \notin u.boneyard /\ x \notin u.played /\ b \in Seats(u)
  <3>1. x \in t.hands[b] /\ ~(b = a /\ x = tile) BY <1>1, <2>1, Zenon
  <3>2. x \notin t.boneyard /\ x \notin t.played /\ b \in Seats(t) BY <3>1, Zenon DEF Somewhere
  <3>3. x # tile
   <4>1. x \in t.hands[a] => b = a BY <3>1, Zenon DEF Somewhere
   <4> QED BY <3>1, <4>1, Zenon
  <3> QED BY <1>2, <1>3, <3>2, <3>3, Zenon
 <2> QED BY <2>1, Zenon
<1>7. \A x : x \notin u.boneyard \/ x \notin u.played
 <2>1. tile \notin t.boneyard BY Zenon DEF Somewhere
 <2>2. \A x : x \notin t.boneyard \/ x \notin t.played BY Zenon DEF Somewhere
 <2> QED BY <1>2, <1>3, <2>1, <2>2, Zenon
<1> QED BY <1>4, <1>5, <1>6, <1>7, Zenon DEF Somewhere

\* So is one that is drawn.
LEMMA TileDrawn ==
  ASSUME NEW t, Somewhere(t), NEW u, Seats(u) = Seats(t), NEW a \in Accounts, a \in Seats(t),
         NEW tile, tile \in t.boneyard, u.hands[a] = t.hands[a] \cup {tile}, SameBut(t.hands, u.hands, a),
         u.boneyard = t.boneyard \ {tile}, u.played = t.played
  PROVE  Somewhere(u)
<1>1. \A x : \A b \in Accounts : x \in u.hands[b] <=> (x \in t.hands[b] \/ (b = a /\ x = tile))
  BY Zenon DEF SameBut
<1>2. \A x : x \in u.played <=> x \in t.played BY Zenon
<1>3. \A x : x \in u.boneyard <=> (x \in t.boneyard /\ x # tile) BY Zenon
<1>4. \A x : x \in TileSet <=> x \in u.boneyard \/ x \in u.played \/ \E b \in Accounts : x \in u.hands[b]
 <2>1. ASSUME NEW x, x # tile
       PROVE  x \in TileSet <=> x \in u.boneyard \/ x \in u.played \/ \E b \in Accounts : x \in u.hands[b]
  <3>1. x \in TileSet <=> x \in t.boneyard \/ x \in t.played \/ \E b \in Accounts : x \in t.hands[b]
    BY Zenon DEF Somewhere
  <3>2. \A b \in Accounts : x \in u.hands[b] <=> x \in t.hands[b] BY <1>1, <2>1, Zenon
  <3> QED BY <1>2, <1>3, <2>1, <3>1, <3>2, Zenon
 <2>2. tile \in TileSet BY Zenon DEF Somewhere
 <2>3. tile \in u.hands[a] BY <1>1, <1>2, Zenon
 <2> QED BY <2>1, <2>2, <2>3, Zenon
<1>5. \A x : \A b, c \in Accounts : x \in u.hands[b] /\ x \in u.hands[c] => b = c
 <2>1. ASSUME NEW x, NEW b \in Accounts, NEW c \in Accounts, x \in u.hands[b], x \in u.hands[c]
       PROVE  b = c
  <3>1. CASE x = tile
   <4>1. x \notin t.hands[b] /\ x \notin t.hands[c] BY <3>1, Zenon DEF Somewhere
   <4> QED BY <1>1, <2>1, <4>1, Zenon
  <3>2. CASE x # tile
   <4>1. x \in t.hands[b] /\ x \in t.hands[c] BY <1>1, <2>1, <3>2, Zenon
   <4> QED BY <4>1, Zenon DEF Somewhere
  <3> QED BY <3>1, <3>2
 <2> QED BY <2>1, Zenon
<1>6. \A x : \A b \in Accounts :
        x \in u.hands[b] => x \notin u.boneyard /\ x \notin u.played /\ b \in Seats(u)
  BY <1>1, <1>2, <1>3, ZenonT(60) DEF Somewhere
<1>7. \A x : x \notin u.boneyard \/ x \notin u.played BY <1>2, <1>3, Zenon DEF Somewhere
<1> QED BY <1>4, <1>5, <1>6, <1>7, Zenon DEF Somewhere
-----------------------------
\* A game that goes on with the next player, or with the same one.
LEMMA DominoGoes ==
  ASSUME NEW u, u \in DominoTable, Turns(u), Somewhere(u), Matched(u), ~u.over,
         u.played = {} <=> u.chain = NoChain, \A b \in Seats(u) : u.hands[b] # {},
         u.passes < Len(u.players), PassedStuck(u)
  PROVE  FairDomino(u)
<1>1. Seats(u) \subseteq Accounts /\ Len(u.players) \in Nat /\ u.passes \in Nat BY SeatsAre DEF DominoTable
<1>2. Tiled(u) BY <1>1, TiledIs
<1>3. ~DominoDone(u) BY <1>1 DEF DominoDone
<1> QED BY <1>2, <1>3, DominoIs, Zenon

\* A game that is over.
LEMMA DominoEnds ==
  ASSUME NEW u, u \in DominoTable, Turns(u), Somewhere(u), Matched(u), u.over,
         u.played = {} <=> u.chain = NoChain, DominoDone(u), DominoWon(u)
  PROVE  FairDomino(u)
<1>1. Seats(u) \subseteq Accounts BY SeatsAre DEF DominoTable
<1>2. Tiled(u) BY <1>1, TiledIs
<1> QED BY <1>2, DominoIs, Zenon

\* With no passes there is nothing to say about who passed.
LEMMA NobodyPassed ==
  ASSUME NEW u, u.players \in Seq(Accounts), Turns(u), u.passes = 0
  PROVE  PassedStuck(u) /\ u.passes < Len(u.players)
<1>1. PICK n, k : n = Len(u.players) /\ k = u.turn /\ n \in Nat /\ k \in 1..n BY DEF Turns
<1>2. \A i \in 1..n : ~Before(i, k, 0, n) BY <1>1 DEF Before
<1>3. \A i \in 1..Len(u.players) : ~Before(i, u.turn, u.passes, Len(u.players)) BY <1>1, <1>2
<1> QED BY <1>1, <1>3 DEF PassedStuck

\* The table after a tile was laid, by a, and n is next.
Laid(t, a, tile, e) ==
  [t EXCEPT !.chain = Attach(tile, e, @), !.hands[a] = @ \ {tile}, !.played = @ \cup {tile}, !.passes = 0]

\* What changes when a tile is laid.
LEMMA LaidIs ==
  ASSUME NEW t, t \in DominoTable, NEW a \in Accounts, NEW tile, NEW e, NEW u, u = Laid(t, a, tile, e)
  PROVE  /\ u = [game |-> t.game, players |-> t.players, turn |-> t.turn, hands |-> u.hands,
                 boneyard |-> t.boneyard, chain |-> Attach(tile, e, t.chain),
                 played |-> t.played \cup {tile}, passes |-> 0, over |-> t.over, winner |-> t.winner]
         /\ u.hands = [t.hands EXCEPT ![a] = @ \ {tile}]
<1>1. t = [game |-> t.game, players |-> t.players, turn |-> t.turn, hands |-> t.hands,
           boneyard |-> t.boneyard, chain |-> t.chain,
           played |-> t.played, passes |-> t.passes, over |-> t.over, winner |-> t.winner]
  BY DEF DominoTable
<1>2. u.hands = [t.hands EXCEPT ![a] = @ \ {tile}] BY <1>1 DEF Laid
<1> QED BY <1>1, <1>2 DEF Laid

\* Whose hand is empty wins.
Outcome(H, a, v, w) == (H[a] = {} /\ v.over /\ w = a) \/ (H[a] # {} /\ ~v.over /\ w = Nobody)

\* A tile is laid: the game goes on, or the hand was the last tile.
LEMMA DominoPlayed ==
  ASSUME NEW t, FairDomino(t), ~t.over, NEW a, a = CurrentActor(t), NEW tile, tile \in t.hands[a],
         NEW e \in LegalEnds(tile, t.chain), NEW H, H = [t.hands EXCEPT ![a] = @ \ {tile}],
         NEW n \in 1..Len(t.players), NEW o \in BOOLEAN, NEW w,
         NEW v, v = [game |-> "domino", players |-> t.players, turn |-> n, hands |-> H,
                     boneyard |-> t.boneyard, chain |-> Attach(tile, e, t.chain),
                     played |-> t.played \cup {tile}, passes |-> 0, over |-> o, winner |-> w],
         Outcome(H, a, v, w)
  PROVE  FairDomino(v)
<1>0. (H[a] = {} /\ v.over /\ w = a) \/ (H[a] # {} /\ ~v.over /\ w = Nobody) BY DEF Outcome
<1>1. /\ t \in DominoTable /\ Turns(t) /\ Tiled(t) /\ Matched(t)
      /\ t.played = {} <=> t.chain = NoChain
      /\ Seats(t) \subseteq Accounts /\ a \in Seats(t) /\ t.winner = Nobody
      /\ \A b \in Seats(t) : t.hands[b] # {}
  BY DominoGoing, Zenon
<1>2. Somewhere(t) /\ a \in Accounts /\ Seats(v) = Seats(t) BY <1>1, TiledIs, SeatsSame
<1>3. /\ t.players \in Seq(Accounts) /\ t.hands \in [Accounts -> SUBSET TileSet]
      /\ t.boneyard \subseteq TileSet /\ t.played \subseteq TileSet /\ tile \in TileSet
      /\ t.chain \in {NoChain} \cup ((0..MaxPip) \X (0..MaxPip))
  BY <1>1, <1>2 DEF DominoTable
<1>4. H \in [Accounts -> SUBSET TileSet] /\ H[a] = t.hands[a] \ {tile} /\ SameBut(t.hands, H, a)
 <2>1. H \in [Accounts -> SUBSET TileSet] /\ H[a] = t.hands[a] \ {tile} BY <1>2, <1>3
 <2>2. SameBut(t.hands, H, a) BY <1>2, <1>3 DEF SameBut
 <2> QED BY <2>1, <2>2
<1>5. v.hands = H /\ v.boneyard = t.boneyard /\ v.played = t.played \cup {tile} /\ v.passes = 0
      /\ v.chain = Attach(tile, e, t.chain) /\ v.players = t.players /\ v.turn = n /\ v.winner = w
  OBVIOUS
<1>6. Somewhere(v) BY <1>1, <1>2, <1>4, <1>5, TileLaid, Zenon
<1>7. tile \notin t.played BY <1>2, Zenon DEF Somewhere
<1>8. Attach(tile, e, t.chain) \in (0..MaxPip) \X (0..MaxPip)
 <2>1. CASE t.chain = NoChain BY <1>3, <2>1 DEF Attach, TileSet
 <2>2. CASE t.chain # NoChain
  <3>1. PICK c : c = t.chain /\ c \in (0..MaxPip) \X (0..MaxPip) /\ c # NoChain BY <1>3, <2>2
  <3>2. PICK new : new = Attach(tile, e, c) OBVIOUS
  <3>3. e \in LegalEnds(tile, c) BY <3>1
  <3>4. new \in (0..MaxPip) \X (0..MaxPip) BY <1>3, <3>1, <3>2, <3>3, AttachMatches
  <3> QED BY <3>1, <3>2, <3>4
 <2> QED BY <2>1, <2>2
<1>9. v \in DominoTable
 <2>1. w \in Winners /\ n \in Nat BY <1>0, <1>2, <1>3 DEF Winners
 <2> QED BY <1>3, <1>4, <1>8, <2>1 DEF DominoTable
<1>10. Matched(v) /\ v.chain # NoChain
 <2>1. tile \in TileSet \ t.played BY <1>3, <1>7
 <2>2. v.chain = Attach(tile, e, t.chain) /\ v.played = t.played \cup {tile} BY <1>5
 <2> HIDE DEF Matched
 <2>3. /\ t \in DominoTable /\ Matched(t)
       /\ t.played = {} <=> t.chain = NoChain
   BY <1>1
 <2> QED BY <1>9, <2>1, <2>2, <2>3, LaidMatches, Zenon
<1>11. v.played # {} BY <1>5
<1>12. Turns(v)
 <2>1. w \in Seats(t) \cup {Nobody} /\ (~v.over => w = Nobody) BY <1>0, <1>1
 <2>2. Seating(v) BY <1>1, <1>5, <2>1, SeatingGoes DEF Turns
 <2> QED BY <1>5, <2>2 DEF Turns
<1>13. CASE H[a] = {} /\ v.over /\ w = a
 <2>1. DominoDone(v) BY <1>1, <1>2, <1>5, <1>13 DEF DominoDone
 <2>2. DominoWon(v) BY <1>2, <1>5, <1>13, NobodyPlays DEF DominoWon
 <2> QED BY <1>6, <1>9, <1>10, <1>11, <1>12, <1>13, <2>1, <2>2, DominoEnds
<1>14. CASE H[a] # {} /\ ~v.over /\ w = Nobody
 <2>1. \A b \in Seats(v) : v.hands[b] # {}
  <3>1. \A b \in Seats(t) : b # a => H[b] = t.hands[b] BY <1>1, <1>4, Zenon DEF SameBut
  <3> QED BY <1>1, <1>2, <1>5, <1>14, <3>1, Zenon
 <2>2. PassedStuck(v) /\ v.passes < Len(v.players) BY <1>3, <1>5, <1>12, NobodyPassed
 <2> QED BY <1>6, <1>9, <1>10, <1>11, <1>12, <1>14, <2>1, <2>2, DominoGoes
<1> QED BY <1>0, <1>13, <1>14

\* A tile is drawn: nobody had passed.
LEMMA DominoDrawn ==
  ASSUME NEW t, FairDomino(t), ~t.over, NEW a, a = CurrentActor(t), NEW tile, tile \in t.boneyard,
         NEW H, H = [t.hands EXCEPT ![a] = @ \cup {tile}],
         NEW v, v = [game |-> "domino", players |-> t.players, turn |-> t.turn, hands |-> H,
                     boneyard |-> t.boneyard \ {tile}, chain |-> t.chain,
                     played |-> t.played, passes |-> t.passes, over |-> t.over, winner |-> t.winner]
  PROVE  FairDomino(v) /\ ~v.over
<1>1. /\ t \in DominoTable /\ Turns(t) /\ Tiled(t) /\ Matched(t)
      /\ t.played = {} <=> t.chain = NoChain
      /\ PassedStuck(t)
      /\ Seats(t) \subseteq Accounts /\ a \in Seats(t) /\ t.winner = Nobody
      /\ \A b \in Seats(t) : t.hands[b] # {}
  BY DominoGoing, Zenon
<1>2. Somewhere(t) /\ a \in Accounts /\ Seats(v) = Seats(t) BY <1>1, TiledIs, SeatsSame
<1>3. /\ t.players \in Seq(Accounts) /\ t.hands \in [Accounts -> SUBSET TileSet]
      /\ t.boneyard \subseteq TileSet /\ t.played \subseteq TileSet /\ tile \in TileSet
      /\ t.passes \in Nat /\ t.turn \in Nat
      /\ t.chain \in {NoChain} \cup ((0..MaxPip) \X (0..MaxPip))
  BY <1>1 DEF DominoTable
<1>4. H \in [Accounts -> SUBSET TileSet] /\ H[a] = t.hands[a] \cup {tile} /\ SameBut(t.hands, H, a)
 <2>1. H \in [Accounts -> SUBSET TileSet] /\ H[a] = t.hands[a] \cup {tile} BY <1>2, <1>3
 <2>2. SameBut(t.hands, H, a) BY <1>2, <1>3 DEF SameBut
 <2> QED BY <2>1, <2>2
<1>5. /\ v.hands = H /\ v.boneyard = t.boneyard \ {tile} /\ v.played = t.played /\ v.passes = t.passes
      /\ v.chain = t.chain /\ v.players = t.players /\ v.turn = t.turn /\ v.winner = t.winner
      /\ v.over = t.over
  OBVIOUS
<1>6. Somewhere(v) BY <1>1, <1>2, <1>4, <1>5, TileDrawn, Zenon
<1>7. v.passes = 0 BY <1>1, <1>3, <1>5 DEF PassedStuck
<1>8. v \in DominoTable
 <2>1. t.winner \in Winners /\ t.over \in BOOLEAN BY <1>1 DEF DominoTable
 <2> QED BY <1>3, <1>4, <2>1 DEF DominoTable
<1>9. Matched(v) BY <1>1, <1>5 DEF Matched, Halves, EndsAt
<1>10. Turns(v) /\ ~v.over
 <2>1. Seating(v) BY <1>1, <1>5, SeatingGoes DEF Turns
 <2>2. ~v.over BY <1>5
 <2>3. v.turn \in 1..Len(v.players) BY <1>1, <1>5 DEF Turns
 <2> QED BY <2>1, <2>2, <2>3 DEF Turns
<1>11. PassedStuck(v) /\ v.passes < Len(v.players) BY <1>3, <1>5, <1>7, <1>10, NobodyPassed
<1>12. \A b \in Seats(v) : v.hands[b] # {}
 <2>1. \A b \in Seats(t) : b # a => H[b] = t.hands[b] BY <1>1, <1>4, Zenon DEF SameBut
 <2>2. H[a] # {} BY <1>4
 <2> QED BY <1>1, <1>2, <1>5, <2>1, <2>2, Zenon
<1>13. v.played = {} <=> v.chain = NoChain BY <1>1, <1>5
<1> QED BY <1>6, <1>8, <1>9, <1>10, <1>11, <1>12, <1>13, DominoGoes

\* Who passed before the next one: the one who passes now, and those before.
LEMMA PassBack ==
  ASSUME NEW n \in Nat, NEW turn \in 1..n, NEW i \in 1..n, NEW k \in Nat, NEW next,
         next = (turn % n) + 1, Before(i, next, k + 1, n)
  PROVE  i = turn \/ Before(i, turn, k, n)
<1>1. next = IF turn = n THEN 1 ELSE turn + 1
 <2>1. turn % n = IF turn = n THEN 0 ELSE turn BY Around
 <2> QED BY <2>1
<1>2. CASE turn = n BY <1>1, <1>2 DEF Before
<1>3. CASE turn # n BY <1>1, <1>3 DEF Before
<1> QED BY <1>2, <1>3

\* When all but one have passed, they are all before that one.
LEMMA PassRound ==
  ASSUME NEW n \in Nat, NEW turn \in 1..n, NEW i \in 1..n, NEW k \in Nat, k + 1 >= n
  PROVE  i = turn \/ Before(i, turn, k, n)
BY DEF Before

\* The last pass of a round ends the game, any other one passes the turn.
Rounded(t, v, w, n) ==
  \/ t.passes + 1 >= Len(t.players) /\ v.over /\ w = LowOf(Seats(t), t.hands) /\ n = t.turn
  \/ ~(t.passes + 1 >= Len(t.players)) /\ ~v.over /\ w = Nobody /\ n = NextTurn(t)

\* Somebody passes: the game goes on, or that was the last one.
LEMMA DominoPassed ==
  ASSUME NEW t, FairDomino(t), ~t.over, NEW a, a = CurrentActor(t), t.boneyard = {},
         ~HasAnyLegalMove(t.hands[a], t.chain),
         NEW n, NEW o \in BOOLEAN, NEW w,
         NEW v, v = [game |-> "domino", players |-> t.players, turn |-> n, hands |-> t.hands,
                     boneyard |-> t.boneyard, chain |-> t.chain,
                     played |-> t.played, passes |-> t.passes + 1, over |-> o, winner |-> w],
         Rounded(t, v, w, n)
  PROVE  FairDomino(v)
<1>0. \/ t.passes + 1 >= Len(t.players) /\ v.over /\ w = LowOf(Seats(t), t.hands) /\ n = t.turn
      \/ ~(t.passes + 1 >= Len(t.players)) /\ ~v.over /\ w = Nobody /\ n = NextTurn(t)
  BY DEF Rounded
<1>1. /\ t \in DominoTable /\ Turns(t) /\ Tiled(t) /\ Matched(t)
      /\ t.played = {} <=> t.chain = NoChain
      /\ t.passes < Len(t.players) /\ PassedStuck(t)
      /\ Seats(t) \subseteq Accounts /\ a \in Seats(t) /\ t.winner = Nobody
      /\ \A b \in Seats(t) : t.hands[b] # {}
  BY DominoGoing, Zenon
<1>2. Somewhere(t) /\ Seats(v) = Seats(t) BY <1>1, TiledIs, SeatsSame
<1>3. /\ t.players \in Seq(Accounts) /\ t.hands \in [Accounts -> SUBSET TileSet]
      /\ t.boneyard \subseteq TileSet /\ t.played \subseteq TileSet
      /\ t.passes \in Nat /\ t.turn \in Nat /\ t.turn \in 1..Len(t.players)
      /\ t.chain \in {NoChain} \cup ((0..MaxPip) \X (0..MaxPip))
  BY <1>1 DEF DominoTable, Turns
<1>4. n \in 1..Len(t.players) /\ n \in Nat BY <1>0, <1>1, <1>3, NextInTurn
<1>5. /\ v.hands = t.hands /\ v.boneyard = t.boneyard /\ v.played = t.played /\ v.passes = t.passes + 1
      /\ v.chain = t.chain /\ v.players = t.players /\ v.turn = n /\ v.winner = w
  OBVIOUS
<1>6. Somewhere(v) BY <1>2, <1>5, Zenon DEF Somewhere
<1>7. Matched(v) BY <1>1, <1>5 DEF Matched, Halves, EndsAt
<1>8. w \in Seats(t) \cup {Nobody}
 <2>1. LowOf(Seats(t), t.hands) \in Seats(t) \cup {Nobody}
  <3>1. PICK S, hands : S = Seats(t) /\ hands = t.hands /\ IsFiniteSet(S) BY <1>3, SeatsAre
  <3>2. PICK B : B = {p \in S : \A q \in S : ~(HandPipTotal(hands[q]) < HandPipTotal(hands[p]))} OBVIOUS
  <3>3. LowOf(S, hands) = IF Cardinality(B) = 1 THEN CHOOSE p \in B : TRUE ELSE Nobody BY <3>2 DEF LowOf
  <3>4. B \subseteq S BY <3>2
  <3> QED BY <3>1, <3>3, <3>4, ChosenIsOne
 <2> QED BY <1>0, <2>1
<1>9. v \in DominoTable
 <2>1. w \in Winners BY <1>1, <1>8 DEF Winners
 <2> QED BY <1>3, <1>4, <2>1 DEF DominoTable
<1>10. Turns(v)
 <2>1. ~v.over => w = Nobody BY <1>0
 <2>2. Seating(v) BY <1>1, <1>5, <1>8, <2>1, SeatingGoes DEF Turns
 <2> QED BY <1>4, <1>5, <2>2 DEF Turns
<1>11. v.played = {} <=> v.chain = NoChain BY <1>1, <1>5
<1>12. ASSUME NEW i \in 1..Len(t.players), i = t.turn \/ Before(i, t.turn, t.passes, Len(t.players))
       PROVE  ~HasAnyLegalMove(t.hands[t.players[i]], t.chain)
 <2>1. CASE i = t.turn BY <2>1 DEF CurrentActor
 <2>2. CASE Before(i, t.turn, t.passes, Len(t.players)) BY <1>1, <2>2 DEF PassedStuck
 <2> QED BY <1>12, <2>1, <2>2
<1>13. CASE t.passes + 1 >= Len(t.players) /\ v.over /\ w = LowOf(Seats(t), t.hands) /\ n = t.turn
 <2>1. v.passes = Len(v.players) BY <1>1, <1>3, <1>5, <1>13
 <2>2. DominoDone(v) BY <2>1 DEF DominoDone
 <2>3. \A i \in 1..Len(t.players) : ~HasAnyLegalMove(t.hands[t.players[i]], t.chain)
  <3>1. ASSUME NEW i \in 1..Len(t.players) PROVE i = t.turn \/ Before(i, t.turn, t.passes, Len(t.players))
   <4>1. PICK l : l = Len(t.players) /\ l \in Nat /\ t.turn \in 1..l /\ i \in 1..l /\ t.passes + 1 >= l
     BY <1>3, <1>13
   <4> QED BY <1>3, <4>1, PassRound
  <3> QED BY <1>12, <3>1
 <2>4. \A b \in Seats(v) : ~HasAnyLegalMove(v.hands[b], v.chain) BY <1>2, <1>5, <2>3 DEF Seats
 <2>5. DominoWon(v) BY <1>2, <1>5, <1>13, <2>4 DEF DominoWon
 <2> QED BY <1>6, <1>7, <1>9, <1>10, <1>11, <1>13, <2>2, <2>5, DominoEnds
<1>14. CASE ~(t.passes + 1 >= Len(t.players)) /\ ~v.over /\ w = Nobody /\ n = NextTurn(t)
 <2>1. v.passes < Len(v.players) BY <1>3, <1>5, <1>14
 <2>2. ASSUME NEW i \in 1..Len(v.players), Before(i, v.turn, v.passes, Len(v.players))
       PROVE  ~HasAnyLegalMove(v.hands[v.players[i]], v.chain)
  <3>1. PICK l : l = Len(t.players) /\ l \in Nat /\ t.turn \in 1..l /\ i \in 1..l BY <1>3, <1>5
  <3>2. n = (t.turn % l) + 1 /\ Before(i, n, t.passes + 1, l) BY <1>5, <1>14, <2>2, <3>1 DEF NextTurn
  <3>3. i = t.turn \/ Before(i, t.turn, t.passes, l) BY <1>3, <3>1, <3>2, PassBack
  <3> QED BY <1>5, <1>12, <3>1, <3>3
 <2>3. PassedStuck(v) BY <1>5, <2>2 DEF PassedStuck
 <2>4. \A b \in Seats(v) : v.hands[b] # {} BY <1>1, <1>2, <1>5
 <2> QED BY <1>6, <1>7, <1>9, <1>10, <1>11, <1>14, <2>1, <2>3, <2>4, DominoGoes
<1> QED BY <1>0, <1>13, <1>14
-----------------------------
\* The largest and the least are members.
LEMMA MaxMin ==
  ASSUME NEW S, IsFiniteSet(S), S \subseteq Int, S # {}
  PROVE  Max(S) \in S /\ Min(S) \in S
<1>1. \E x \in S : \A y \in S : x >= y
 <2>1. PICK x \in S : \A y \in S : y <= x BY LargestLeast
 <2>2. \A y \in S : x >= y BY <2>1
 <2> QED BY <2>2
<1>2. \E x \in S : \A y \in S : x <= y BY LargestLeast
<1>3. Max(S) \in S BY <1>1 DEF Max
<1>4. Min(S) \in S BY <1>2 DEF Min
<1> QED BY <1>3, <1>4

\* The heaviest tile of a hand weighs something.
LEMMA HeaviestIs ==
  ASSUME NEW hand, hand \subseteq TileSet, hand # {}
  PROVE  Max({Weight(tile) : tile \in hand}) \in Int
<1> DEFINE f == [tile \in TileSet |-> Weight(tile)]
<1>1. \A tile \in TileSet : Weight(tile) \in Int /\ f[tile] = Weight(tile)
  BY TilesFinite, TilesDealt DEF Weight, PipSum
<1> HIDE DEF f
<1>2. PICK W : W = {Weight(tile) : tile \in hand} OBVIOUS
<1>3. W = {f[tile] : tile \in hand} BY <1>1, <1>2
<1>4. IsFiniteSet(hand) BY TilesFinite, FS_Subset
<1>5. IsFiniteSet(W) BY <1>3, <1>4, FiniteImage
<1>6. W \subseteq Int /\ W # {} BY <1>1, <1>2
<1>7. Max(W) \in W BY <1>5, <1>6, MaxMin
<1> QED BY <1>2, <1>6, <1>7

\* Somebody opens.
LEMMA StarterPlays ==
  ASSUME NEW players, players \in Seq(Accounts), players # <<>>, NEW hands,
         \A i \in 1..Len(players) : hands[players[i]] \subseteq TileSet /\ hands[players[i]] # {}
  PROVE  Starter(players, hands) \in 1..Len(players)
<1> DEFINE n == Len(players)
           best(i) == Max({Weight(tile) : tile \in hands[players[i]]})
           f == [i \in 1..n |-> best(i)]
<1>1. n \in Nat /\ n > 0 OBVIOUS
<1>2. \A i \in 1..n : best(i) \in Int BY HeaviestIs
<1>3. IsFiniteSet(1..n) /\ 1..n \subseteq Int BY <1>1, FS_Interval
<1>4. Starter(players, hands) = Min({i \in 1..n : \A k \in 1..n : best(k) <= best(i)}) BY DEF Starter
<1>5. \A i \in 1..n : f[i] = best(i) OBVIOUS
<1> HIDE DEF n, f, best
<1>6. PICK W : W = {f[i] : i \in 1..n} OBVIOUS
<1>7. IsFiniteSet(W) BY <1>3, <1>6, FiniteImage
<1>8. W \subseteq Int /\ W # {}
 <2>1. 1 \in 1..n BY <1>1
 <2> QED BY <1>2, <1>5, <1>6, <2>1
<1>9. PICK x \in W : \A y \in W : y <= x BY <1>7, <1>8, LargestLeast
<1>10. PICK i \in 1..n : x = best(i) BY <1>5, <1>6, <1>9
<1>11. \A k \in 1..n : best(k) <= best(i) BY <1>5, <1>6, <1>9, <1>10
<1>12. PICK I : I = {j \in 1..n : \A k \in 1..n : best(k) <= best(j)} OBVIOUS
<1>13. I \subseteq 1..n /\ I # {} BY <1>11, <1>12
<1>14. IsFiniteSet(I) /\ I \subseteq Int BY <1>3, <1>13, FS_Subset
<1>15. Min(I) \in I BY <1>13, <1>14, MaxMin
<1> QED BY <1>4, <1>12, <1>13, <1>15 DEF n

\* A table that is dealt is fair.
LEMMA DominoFresh ==
  ASSUME NEW m \in MatchIds, FairRow(matches[m]), NEW t \in FreshDominoes(m)
  PROVE  FairDomino(t) /\ ~t.over /\ t.players = matches[m].players /\ t.game = "domino"
<1> DEFINE players == matches[m].players
<1>1. PICK hands \in Deals(players, TileSet, HandSize[Len(players)]) :
         t = [game |-> "domino", players |-> players, turn |-> Starter(players, hands),
              hands |-> hands, boneyard |-> TileSet \ UNION {hands[a] : a \in Accounts},
              chain |-> NoChain, played |-> {}, passes |-> 0, over |-> FALSE, winner |-> Nobody]
  BY DEF FreshDominoes
<1>2. players \in Seq(Accounts) /\ players # <<>> /\ NamedOnce(players) BY DEF FairRow, MatchRow
<1>3. /\ hands \in [Accounts -> SUBSET TileSet]
      /\ \A a \in Accounts : hands[a] = {} <=> ~\E i \in 1..Len(players) : players[i] = a
      /\ \A a, b \in Accounts : a # b => hands[a] \cap hands[b] = {}
  BY <1>1 DEF Deals
<1>4. /\ t.players = players /\ t.hands = hands /\ t.boneyard = TileSet \ UNION {hands[a] : a \in Accounts}
      /\ t.chain = NoChain /\ t.played = {} /\ t.passes = 0 /\ ~t.over /\ t.winner = Nobody
      /\ t.turn = Starter(players, hands) /\ t.game = "domino"
  BY <1>1
<1> HIDE DEF players
<1>5. Seats(t) \subseteq Accounts /\ \A i \in 1..Len(players) : players[i] \in Accounts
  BY <1>2, <1>4, SeatsAre
<1>6. \A b \in Accounts : hands[b] = {} <=> b \notin Seats(t) BY <1>3, <1>4 DEF Seats
<1>7. t.turn \in 1..Len(players)
 <2>1. \A i \in 1..Len(players) : hands[players[i]] \subseteq TileSet /\ hands[players[i]] # {}
   BY <1>3, <1>5
 <2>2. PICK s : s = players OBVIOUS
 <2>3. Starter(s, hands) \in 1..Len(s) BY <1>2, <2>1, <2>2, StarterPlays
 <2> QED BY <1>4, <2>2, <2>3
<1>8. t \in DominoTable
 <2>1. t.turn \in Nat /\ t.boneyard \in SUBSET TileSet /\ Nobody \in Winners BY <1>4, <1>7 DEF Winners
 <2> QED BY <1>1, <1>2, <1>3, <1>4, <2>1 DEF DominoTable, players
<1>9. Somewhere(t)
 <2>1. \A x : x \in t.boneyard <=> x \in TileSet /\ ~\E b \in Accounts : x \in hands[b] BY <1>4
 <2>2. \A b \in Accounts : hands[b] \subseteq TileSet BY <1>3
 <2>3. \A x : x \in TileSet <=> x \in t.boneyard \/ x \in t.played \/ \E b \in Accounts : x \in t.hands[b]
   BY <1>4, <2>1, <2>2, Zenon
 <2>4. \A x : \A b, c \in Accounts : x \in t.hands[b] /\ x \in t.hands[c] => b = c BY <1>3, <1>4, Zenon
 <2>5. \A x : \A b \in Accounts :
         x \in t.hands[b] => x \notin t.boneyard /\ x \notin t.played /\ b \in Seats(t)
   BY <1>4, <1>6, <2>1, Zenon
 <2>6. \A x : x \notin t.boneyard \/ x \notin t.played BY <1>4, Zenon
 <2> QED BY <2>3, <2>4, <2>5, <2>6, Zenon DEF Somewhere
<1>10. Matched(t)
 <2>1. ASSUME NEW pip \in 0..MaxPip PROVE (Halves(t, pip) + EndsAt(t, pip)) % 2 = 0
  <3>1. Halves(t, pip) = 0 BY <1>4, HalvesAre
  <3>2. EndsAt(t, pip) = 0 BY <1>4, <1>8, EndsCount
  <3> QED BY <3>1, <3>2
 <2> QED BY <2>1 DEF Matched
<1>11. Turns(t) BY <1>2, <1>4, <1>7 DEF Turns, Seating
<1>12. PassedStuck(t) /\ t.passes < Len(t.players) BY <1>2, <1>4, <1>11, NobodyPassed
<1>13. \A b \in Seats(t) : t.hands[b] # {}
 <2>1. ASSUME NEW b \in Seats(t) PROVE hands[b] # {} BY <1>5, <1>6, <2>1
 <2> QED BY <1>4, <2>1
<1>14. FairDomino(t) BY <1>4, <1>8, <1>9, <1>10, <1>11, <1>12, <1>13, DominoGoes
<1> QED BY <1>4, <1>14 DEF players

\* The table a request finds.
LEMMA DominoFound ==
  ASSUME LobbyTyped, TablesFair, NEW m \in MatchIds, NEW t \in DominoTables(m), ~t.over
  PROVE  FairDomino(t) /\ Placed(m, t) /\ ~tables[m].over
<1>1. Active(m, "domino") /\ Served(m, "domino") BY ActiveServed DEF DominoTables
<1>2. FairRow(matches[m]) /\ matches[m].state \notin {"none", "lobby"} /\ matches[m].game = "domino"
  BY <1>1, RowServed DEF LobbyTyped
<1>3. CASE tables[m] = NoTable
 <2>1. t \in FreshDominoes(m) BY <1>1, <1>3 DEF DominoTables
 <2>2. FairDomino(t) /\ t.players = matches[m].players /\ t.game = "domino" BY <1>2, <2>1, DominoFresh
 <2>3. ~tables[m].over BY <1>3 DEF NoTable
 <2> QED BY <1>2, <2>2, <2>3 DEF Placed
<1>4. CASE tables[m] # NoTable
 <2>1. t = tables[m] BY <1>1, <1>4 DEF DominoTables
 <2>2. Placed(m, t) /\ Fair(t) BY <1>4, <2>1 DEF TablesFair
 <2>3. t.game = "domino" BY <1>2, <2>2 DEF Placed
 <2>4. FairDomino(t) BY <2>2, <2>3, FairKinds
 <2> QED BY <2>1, <2>2, <2>4
<1> QED BY <1>3, <1>4

\* A domino table is placed where the one before was.
LEMMA DominoPlaced ==
  ASSUME NEW m, NEW t, FairDomino(t), Placed(m, t), NEW u, FairDomino(u), u.players = t.players
  PROVE  Fair(u) /\ Placed(m, u)
<1>1. t.game = "domino" /\ u.game = "domino" BY DEF FairDomino, DominoTable
<1> QED BY <1>1 DEF Fair, Placed

\* A tile that is played.
LEMMA TilePlayed ==
  ASSUME LobbyTyped, TablesFair, NEW h \in Handlers, NEW m \in MatchIds, NEW a \in Accounts,
         PlayTile(h, m, a)
  PROVE  \E u : PlayMove(m, u)
<1>1. PICK t \in DominoTables(m) : \E tile \in t.hands[a] : \E e \in LegalEnds(tile, t.chain) :
        /\ DominoTurn(t, a)
        /\ IF Laid(t, a, tile, e).hands[a] = {} THEN EndGame(h, m, Laid(t, a, tile, e), a)
           ELSE Keep(m, [Laid(t, a, tile, e) EXCEPT !.turn = NextTurn(t)])
  BY Zenon DEF PlayTile, Laid
<1>2. PICK tile \in t.hands[a] : \E e \in LegalEnds(tile, t.chain) :
        /\ DominoTurn(t, a)
        /\ IF Laid(t, a, tile, e).hands[a] = {} THEN EndGame(h, m, Laid(t, a, tile, e), a)
           ELSE Keep(m, [Laid(t, a, tile, e) EXCEPT !.turn = NextTurn(t)])
  BY <1>1
<1>3. PICK e \in LegalEnds(tile, t.chain) :
        /\ DominoTurn(t, a)
        /\ IF Laid(t, a, tile, e).hands[a] = {} THEN EndGame(h, m, Laid(t, a, tile, e), a)
           ELSE Keep(m, [Laid(t, a, tile, e) EXCEPT !.turn = NextTurn(t)])
  BY <1>2
<1>4. PICK laid : laid = Laid(t, a, tile, e) OBVIOUS
<1>5. /\ ~t.over /\ a = CurrentActor(t)
      /\ laid.hands[a] = {} => EndGame(h, m, laid, a)
      /\ laid.hands[a] # {} => Keep(m, [laid EXCEPT !.turn = NextTurn(t)])
  BY <1>3, <1>4 DEF DominoTurn
<1>6. FairDomino(t) /\ Placed(m, t) /\ ~tables[m].over BY <1>5, DominoFound
<1>7. t \in DominoTable /\ Turns(t) /\ t.winner = Nobody BY <1>5, <1>6, DominoGoing, Zenon
<1>8. t.players \in Seq(Accounts) /\ t.game = "domino" /\ NextTurn(t) \in 1..Len(t.players)
      /\ t.turn \in 1..Len(t.players)
  BY <1>7, NextInTurn DEF DominoTable, Turns
<1>9. PICK H : H = [t.hands EXCEPT ![a] = @ \ {tile}] OBVIOUS
<1>10. laid = [game |-> "domino", players |-> t.players, turn |-> t.turn, hands |-> H,
               boneyard |-> t.boneyard, chain |-> Attach(tile, e, t.chain),
               played |-> t.played \cup {tile}, passes |-> 0, over |-> t.over, winner |-> t.winner]
 <2>1. /\ laid = [game |-> t.game, players |-> t.players, turn |-> t.turn, hands |-> laid.hands,
                  boneyard |-> t.boneyard, chain |-> Attach(tile, e, t.chain),
                  played |-> t.played \cup {tile}, passes |-> 0, over |-> t.over, winner |-> t.winner]
       /\ laid.hands = H
   BY <1>4, <1>7, <1>9, LaidIs
 <2> QED BY <1>8, <2>1
<1>11. laid.hands = H BY <1>10
<1>12. CASE H[a] = {}
 <2>1. PICK u : u = [laid EXCEPT !.over = TRUE, !.winner = a] OBVIOUS
 <2>2. PICK n, o, w : n = t.turn /\ o = TRUE /\ w = a OBVIOUS
 <2>3. u = [game |-> "domino", players |-> t.players, turn |-> n, hands |-> H,
            boneyard |-> t.boneyard, chain |-> Attach(tile, e, t.chain),
            played |-> t.played \cup {tile}, passes |-> 0, over |-> o, winner |-> w]
   BY <1>10, <2>1, <2>2
 <2>4. /\ u.over /\ u.winner = a /\ u.players = t.players
       /\ o \in BOOLEAN /\ n \in 1..Len(t.players)
   BY <1>8, <2>2, <2>3
 <2>5. FairDomino(u)
  <3>1. H[a] = {} /\ u.over /\ w = a BY <1>12, <2>2, <2>4
  <3>2. FairDomino(t) /\ ~t.over /\ a = CurrentActor(t) BY <1>5, <1>6
  <3>3. Outcome(H, a, u, w) BY <3>1 DEF Outcome
  <3>4. o \in BOOLEAN /\ n \in 1..Len(t.players) BY <2>4
  <3> QED BY <1>9, <2>3, <3>2, <3>3, <3>4, DominoPlayed
 <2>6. Fair(u) /\ Placed(m, u) BY <1>6, <2>4, <2>5, DominoPlaced
 <2>7. EndGame(h, m, laid, a) BY <1>5, <1>11, <1>12
 <2> QED BY <1>6, <2>1, <2>4, <2>6, <2>7, Ended, Zenon
<1>13. CASE H[a] # {}
 <2>1. PICK u : u = [laid EXCEPT !.turn = NextTurn(t)] OBVIOUS
 <2>2. PICK n, o : n = NextTurn(t) /\ o = t.over OBVIOUS
 <2>3. u = [game |-> "domino", players |-> t.players, turn |-> n, hands |-> H,
            boneyard |-> t.boneyard, chain |-> Attach(tile, e, t.chain),
            played |-> t.played \cup {tile}, passes |-> 0, over |-> o, winner |-> t.winner]
   BY <1>10, <2>1, <2>2
 <2>4. ~u.over /\ u.players = t.players /\ o \in BOOLEAN /\ n \in 1..Len(t.players)
   BY <1>5, <1>7, <1>8, <2>2, <2>3 DEF DominoTable
 <2>5. FairDomino(u)
  <3>1. Outcome(H, a, u, t.winner) BY <1>7, <1>13, <2>4 DEF Outcome
  <3> QED BY <1>5, <1>6, <1>9, <2>3, <2>4, <3>1, DominoPlayed
 <2>6. Fair(u) /\ Placed(m, u) BY <1>6, <2>4, <2>5, DominoPlaced
 <2>7. Keep(m, u) BY <1>5, <1>11, <1>13, <2>1
 <2> QED BY <1>6, <2>4, <2>6, <2>7, Kept, Zenon
<1> QED BY <1>12, <1>13

\* The table after a tile was drawn.
Drawn(t, a, tile) == [t EXCEPT !.boneyard = @ \ {tile}, !.hands[a] = @ \cup {tile}]

\* What changes when a tile is drawn.
LEMMA DrawnIs ==
  ASSUME NEW t, t \in DominoTable, NEW a, NEW tile, NEW u, u = Drawn(t, a, tile)
  PROVE  /\ u = [game |-> "domino", players |-> t.players, turn |-> t.turn, hands |-> u.hands,
                 boneyard |-> t.boneyard \ {tile}, chain |-> t.chain,
                 played |-> t.played, passes |-> t.passes, over |-> t.over, winner |-> t.winner]
         /\ u.hands = [t.hands EXCEPT ![a] = @ \cup {tile}]
<1>1. t = [game |-> "domino", players |-> t.players, turn |-> t.turn, hands |-> t.hands,
           boneyard |-> t.boneyard, chain |-> t.chain,
           played |-> t.played, passes |-> t.passes, over |-> t.over, winner |-> t.winner]
  BY DEF DominoTable
<1>2. u.hands = [t.hands EXCEPT ![a] = @ \cup {tile}] BY <1>1 DEF Drawn
<1>3. PICK B, G : B = t.boneyard \ {tile} /\ G = [t.hands EXCEPT ![a] = @ \cup {tile}] OBVIOUS
<1>4. u = [t EXCEPT !.boneyard = B, !.hands = G] BY <1>1, <1>3 DEF Drawn
<1>5. u = [game |-> "domino", players |-> t.players, turn |-> t.turn, hands |-> G,
           boneyard |-> B, chain |-> t.chain,
           played |-> t.played, passes |-> t.passes, over |-> t.over, winner |-> t.winner]
 <2>1. t.game = "domino" BY DEF DominoTable
 <2> QED BY <1>1, <1>4, <2>1
<1> QED BY <1>2, <1>3, <1>5

\* A tile that is drawn.
LEMMA TileTaken ==
  ASSUME LobbyTyped, TablesFair, NEW m \in MatchIds, NEW a \in Accounts, DrawTile(m, a)
  PROVE  \E u : PlayMove(m, u)
<1>1. PICK t \in DominoTables(m) :
        /\ DominoTurn(t, a)
        /\ \E tile \in t.boneyard : Keep(m, [t EXCEPT !.boneyard = @ \ {tile}, !.hands[a] = @ \cup {tile}])
  BY Zenon DEF DrawTile
<1>2. PICK tile \in t.boneyard : Keep(m, [t EXCEPT !.boneyard = @ \ {tile}, !.hands[a] = @ \cup {tile}])
  BY <1>1, Zenon
<1>3. ~t.over /\ a = CurrentActor(t) BY <1>1 DEF DominoTurn
<1>4. FairDomino(t) /\ Placed(m, t) /\ ~tables[m].over BY <1>3, DominoFound
<1>5. PICK u : u = [t EXCEPT !.boneyard = @ \ {tile}, !.hands[a] = @ \cup {tile}] OBVIOUS
<1>6. PICK H : H = [t.hands EXCEPT ![a] = @ \cup {tile}] OBVIOUS
<1>7. u = [game |-> "domino", players |-> t.players, turn |-> t.turn, hands |-> H,
           boneyard |-> t.boneyard \ {tile}, chain |-> t.chain,
           played |-> t.played, passes |-> t.passes, over |-> t.over, winner |-> t.winner]
 <2>1. t \in DominoTable BY <1>4 DEF FairDomino
 <2>2. u = Drawn(t, a, tile) BY <1>5 DEF Drawn
 <2>3. /\ u = [game |-> "domino", players |-> t.players, turn |-> t.turn, hands |-> u.hands,
               boneyard |-> t.boneyard \ {tile}, chain |-> t.chain,
               played |-> t.played, passes |-> t.passes, over |-> t.over, winner |-> t.winner]
       /\ u.hands = H
   BY <1>6, <2>1, <2>2, DrawnIs, SMTT(60)
 <2> QED BY <2>3
<1>8. FairDomino(u) /\ ~u.over BY <1>3, <1>4, <1>6, <1>7, DominoDrawn
<1>9. u.players = t.players BY <1>7
<1>10. Fair(u) /\ Placed(m, u) BY <1>4, <1>8, <1>9, DominoPlaced
<1>11. Keep(m, u) BY <1>2, <1>5
<1> QED BY <1>4, <1>8, <1>10, <1>11, Kept

\* One more pass.
Passed(t) == [t EXCEPT !.passes = @ + 1]

\* Somebody who passes.
LEMMA TurnPassed ==
  ASSUME LobbyTyped, TablesFair, NEW h \in Handlers, NEW m \in MatchIds, NEW a \in Accounts,
         PassDomino(h, m, a)
  PROVE  \E u : PlayMove(m, u)
<1>1. PICK t \in DominoTables(m) :
        /\ DominoTurn(t, a)
        /\ ~HasAnyLegalMove(t.hands[a], t.chain)
        /\ t.boneyard = {}
        /\ IF Passed(t).passes >= Len(t.players)
             THEN EndGame(h, m, Passed(t), LowOf(Seats(t), t.hands))
           ELSE Keep(m, [Passed(t) EXCEPT !.turn = NextTurn(t)])
  BY Zenon DEF PassDomino, Passed, LowOf, OnlyBest, Seats
<1>2. ~t.over /\ a = CurrentActor(t) BY <1>1 DEF DominoTurn
<1>3. FairDomino(t) /\ Placed(m, t) /\ ~tables[m].over BY <1>2, DominoFound
<1>4. PICK passed : passed = Passed(t) OBVIOUS
<1>5. /\ passed = [game |-> "domino", players |-> t.players, turn |-> t.turn, hands |-> t.hands,
                   boneyard |-> t.boneyard, chain |-> t.chain,
                   played |-> t.played, passes |-> t.passes + 1, over |-> t.over, winner |-> t.winner]
      /\ t.winner = Nobody
 <2>1. t \in DominoTable BY <1>3 DEF FairDomino
 <2>2. t = [game |-> "domino", players |-> t.players, turn |-> t.turn, hands |-> t.hands,
            boneyard |-> t.boneyard, chain |-> t.chain,
            played |-> t.played, passes |-> t.passes, over |-> t.over, winner |-> t.winner]
   BY <2>1 DEF DominoTable
 <2>3. t.winner = Nobody BY <1>2, <1>3, DominoGoing, Zenon
 <2> QED BY <1>4, <2>2, <2>3 DEF Passed
<1>6. passed.passes = t.passes + 1 BY <1>5
<1>7. CASE t.passes + 1 >= Len(t.players)
 <2>1. PICK w : w = LowOf(Seats(t), t.hands) OBVIOUS
 <2>2. EndGame(h, m, passed, w) BY <1>1, <1>4, <1>6, <1>7, <2>1
 <2>3. PICK u : u = [passed EXCEPT !.over = TRUE, !.winner = w] OBVIOUS
 <2>4. PICK n, o : n = t.turn /\ o = TRUE OBVIOUS
 <2>5. u = [game |-> "domino", players |-> t.players, turn |-> n, hands |-> t.hands,
            boneyard |-> t.boneyard, chain |-> t.chain,
            played |-> t.played, passes |-> t.passes + 1, over |-> o, winner |-> w]
   BY <1>5, <2>3, <2>4
 <2>6. u.over /\ u.winner = w /\ u.players = t.players BY <2>4, <2>5
 <2>7. FairDomino(u)
  <3>1. Rounded(t, u, w, n) BY <1>7, <2>1, <2>4, <2>6 DEF Rounded
  <3>2. o \in BOOLEAN BY <2>4
  <3>3. t.boneyard = {} /\ ~HasAnyLegalMove(t.hands[a], t.chain) BY <1>1
  <3> QED BY <1>2, <1>3, <2>5, <3>1, <3>2, <3>3, DominoPassed
 <2>8. Fair(u) /\ Placed(m, u) BY <1>3, <2>6, <2>7, DominoPlaced
 <2> QED BY <1>3, <2>2, <2>3, <2>6, <2>8, Ended, Zenon
<1>8. CASE ~(t.passes + 1 >= Len(t.players))
 <2>1. PICK u : u = [passed EXCEPT !.turn = NextTurn(t)] OBVIOUS
 <2>2. Keep(m, u) BY <1>1, <1>4, <1>6, <1>8, <2>1
 <2>3. PICK n, o, w : n = NextTurn(t) /\ o = t.over /\ w = t.winner OBVIOUS
 <2>4. u = [game |-> "domino", players |-> t.players, turn |-> n, hands |-> t.hands,
            boneyard |-> t.boneyard, chain |-> t.chain,
            played |-> t.played, passes |-> t.passes + 1, over |-> o, winner |-> w]
   BY <1>5, <2>1, <2>3
 <2>5. ~u.over /\ u.players = t.players BY <1>2, <2>3, <2>4
 <2>6. FairDomino(u)
  <3>1. Rounded(t, u, w, n) BY <1>5, <1>8, <2>3, <2>5 DEF Rounded
  <3>2. o \in BOOLEAN BY <1>3, <2>3 DEF FairDomino, DominoTable
  <3>3. t.boneyard = {} /\ ~HasAnyLegalMove(t.hands[a], t.chain) BY <1>1
  <3> QED BY <1>2, <1>3, <2>4, <3>1, <3>2, <3>3, DominoPassed
 <2>7. Fair(u) /\ Placed(m, u) BY <1>3, <2>5, <2>6, DominoPlaced
 <2> QED BY <1>3, <2>2, <2>5, <2>7, Kept
<1> QED BY <1>7, <1>8

\* Dominoes.
LEMMA DominoMoves ==
  ASSUME LobbyTyped, TablesFair, NEW h \in Handlers, NEW m \in MatchIds, DominoStep(h, m)
  PROVE  \E u : PlayMove(m, u)
<1>1. CASE LookAtDominoes(m)
 <2>1. PICK t \in FreshDominoes(m) : Keep(m, t) BY <1>1 DEF LookAtDominoes
 <2>2. Served(m, "domino") /\ tables[m] = NoTable BY <1>1 DEF LookAtDominoes
 <2>3. FairRow(matches[m]) /\ matches[m].state \notin {"none", "lobby"} /\ matches[m].game = "domino"
   BY <2>2, RowServed DEF LobbyTyped
 <2>4. FairDomino(t) /\ ~t.over /\ t.players = matches[m].players /\ t.game = "domino"
   BY <2>1, <2>3, DominoFresh
 <2>5. Fair(t) /\ Placed(m, t) /\ ~tables[m].over BY <2>2, <2>3, <2>4 DEF Fair, Placed, NoTable
 <2> QED BY <2>1, <2>4, <2>5, Kept
<1>2. ASSUME NEW a \in Accounts, PlayTile(h, m, a) \/ DrawTile(m, a) \/ PassDomino(h, m, a)
      PROVE  \E u : PlayMove(m, u)
  BY <1>2, TilePlayed, TileTaken, TurnPassed
<1> QED BY <1>1, <1>2 DEF DominoStep
-----------------------------
\* What the clock does to a table is fair.
LEMMA CarromWaits ==
  ASSUME NEW t, FairCarrom(t), NEW u, u = [t EXCEPT !.elapsed = @ + 1]
  PROVE  FairCarrom(u) /\ u.over = t.over /\ u.players = t.players /\ u.game = t.game
<1>1. t = [game |-> t.game, players |-> t.players, turn |-> t.turn, elapsed |-> t.elapsed,
           scores |-> t.scores, pieces |-> t.pieces, queenPocketed |-> t.queenPocketed,
           queenCovered |-> t.queenCovered, pending |-> t.pending, over |-> t.over,
           winner |-> t.winner]
  BY DEF FairCarrom, CarromTable
<1>2. u = [game |-> t.game, players |-> t.players, turn |-> t.turn, elapsed |-> t.elapsed + 1,
           scores |-> t.scores, pieces |-> t.pieces, queenPocketed |-> t.queenPocketed,
           queenCovered |-> t.queenCovered, pending |-> t.pending, over |-> t.over,
           winner |-> t.winner]
  BY <1>1
<1>3. u \in CarromTable BY <1>2 DEF FairCarrom, CarromTable
<1>4. /\ u.players = t.players /\ u.turn = t.turn /\ u.scores = t.scores /\ u.pieces = t.pieces
      /\ u.queenPocketed = t.queenPocketed /\ u.queenCovered = t.queenCovered
      /\ u.pending = t.pending /\ u.over = t.over /\ u.winner = t.winner /\ u.game = t.game
  BY <1>2
<1>5. Seating(u) /\ Seats(u) = Seats(t) BY <1>4 DEF FairCarrom, Turns, Seating, Seats
<1>6. Turns(u) BY <1>4, <1>5 DEF FairCarrom, Turns
<1>7. CarromSound(u)
 <2>1. CurrentActor(u) = CurrentActor(t) /\ Total(u) = Total(t) BY <1>4, <1>5 DEF CurrentActor, Total
 <2>2. TopOf(Seats(u), u.scores) = TopOf(Seats(t), t.scores) BY <1>4, <1>5
 <2>3. CarromSound(t) BY DEF FairCarrom
 <2> QED BY <1>4, <2>1, <2>2, <2>3, CarromSoundIs
<1> QED BY <1>3, <1>4, <1>6, <1>7 DEF FairCarrom

\* The clock of eight ball runs.
LEMMA EightWaits ==
  ASSUME NEW t, FairEight(t), NEW u, u = [t EXCEPT !.elapsed = @ + 1]
  PROVE  FairEight(u) /\ u.over = t.over /\ u.players = t.players /\ u.game = t.game
<1>1. t = [game |-> t.game, players |-> t.players, turn |-> t.turn, elapsed |-> t.elapsed,
           groups |-> t.groups, remaining |-> t.remaining, scores |-> t.scores,
           over |-> t.over, winner |-> t.winner]
  BY DEF FairEight, EightTable
<1>2. u = [game |-> t.game, players |-> t.players, turn |-> t.turn, elapsed |-> t.elapsed + 1,
           groups |-> t.groups, remaining |-> t.remaining, scores |-> t.scores,
           over |-> t.over, winner |-> t.winner]
  BY <1>1
<1>3. u \in EightTable
 <2>1. /\ t.players \in Seq(Accounts) /\ t.turn \in Nat /\ t.elapsed + 1 \in Nat
       /\ t.groups \in [Accounts -> {NoGroup, "solids", "stripes"}]
       /\ t.remaining \in [{"solids", "stripes"} -> 0..BallsPerGroup]
       /\ t.scores \in [Accounts -> Nat] /\ t.over \in BOOLEAN /\ t.winner \in Winners
       /\ t.game = "eight_ball"
   BY DEF FairEight, EightTable
 <2>2. PICK g, r, e : g = t.groups /\ r = t.remaining /\ e = t.elapsed + 1 OBVIOUS
 <2> QED BY <1>2, <2>1, <2>2 DEF EightTable
<1>4. /\ u.players = t.players /\ u.turn = t.turn /\ u.scores = t.scores /\ u.groups = t.groups
      /\ u.remaining = t.remaining /\ u.over = t.over /\ u.winner = t.winner /\ u.game = t.game
  BY <1>2
<1>5. Seating(u) /\ Seats(u) = Seats(t) BY <1>4 DEF FairEight, Turns, Seating, Seats
<1>6. Turns(u) BY <1>4, <1>5 DEF FairEight, Turns
<1>7. EightBallSound(u)
 <2>1. OtherPlayer(u, u.winner) = OtherPlayer(t, t.winner) BY <1>4 DEF OtherPlayer
 <2>2. \A a : Cleared(u, a) <=> Cleared(t, a) BY <1>4 DEF Cleared
 <2> QED BY <1>4, <1>5, <2>1, <2>2 DEF FairEight, EightBallSound
<1> QED BY <1>3, <1>4, <1>5, <1>6, <1>7 DEF FairEight

\* The clock of the quiz runs.
LEMMA QuizWaits ==
  ASSUME NEW t, FairQuiz(t), NEW u, u = [t EXCEPT !.elapsed = @ + 1]
  PROVE  FairQuiz(u) /\ u.over = t.over /\ u.players = t.players /\ u.game = t.game
<1>1. t = [game |-> t.game, players |-> t.players, open |-> t.open, elapsed |-> t.elapsed,
           answers |-> t.answers, scores |-> t.scores, over |-> t.over, winner |-> t.winner]
  BY DEF FairQuiz, QuizTable
<1>2. u = [game |-> t.game, players |-> t.players, open |-> t.open, elapsed |-> t.elapsed + 1,
           answers |-> t.answers, scores |-> t.scores, over |-> t.over, winner |-> t.winner]
  BY <1>1
<1>3. u \in QuizTable BY <1>2, SMTT(60) DEF FairQuiz, QuizTable
<1>4. /\ u.players = t.players /\ u.open = t.open /\ u.answers = t.answers /\ u.scores = t.scores
      /\ u.over = t.over /\ u.winner = t.winner /\ u.game = t.game
  BY <1>2
<1>5. Seating(u) /\ Seats(u) = Seats(t) BY <1>4 DEF FairQuiz, Seating, Seats
<1>6. QuizSound(u)
 <2>1. AllAnswered(u) <=> AllAnswered(t) BY <1>4 DEF AllAnswered, Contestants
 <2>2. TopOf(Seats(u), u.scores) = TopOf(Seats(t), t.scores) BY <1>4, <1>5
 <2>3. QuizSound(t) BY DEF FairQuiz
 <2>4. \A a : (Timely(t, a) <=> Timely(u, a)) /\ (Marked(t, a) <=> Marked(u, a))
   BY <1>4 DEF Timely, Marked, Marks
 <2> QED BY <1>4, <1>5, <2>1, <2>2, <2>3, <2>4, QuizSoundIs
<1> QED BY <1>3, <1>4, <1>5, <1>6 DEF FairQuiz

\* The clock of chess runs.
LEMMA ChessWaits ==
  ASSUME NEW t, FairChess(t), ~t.over, NEW u, u = [t EXCEPT !.elapsed = @ + 1]
  PROVE  FairChess(u) /\ ~u.over /\ u.players = t.players /\ u.game = t.game
<1>1. PICK p, q, k, c, x, o :
        /\ p = t.players /\ q = t.pos /\ k = t.moves /\ c = t.clocks /\ x = t.elapsed /\ o = t.offer
  OBVIOUS
<1>2. /\ t = ChessOn(t, t.pos, t.moves, t.clocks, t.elapsed, t.offer)
      /\ Playable(q) /\ CanGoOn(q) /\ HasClocks(c)
  BY <1>1, ChessStands
<1>3. t = [game |-> "chess", players |-> p, pos |-> q, moves |-> k, clocks |-> c,
           elapsed |-> x, offer |-> o, over |-> FALSE, winner |-> Nobody, result |-> "none"]
  BY <1>1, <1>2 DEF ChessOn
<1>4. PICK e : e = t.elapsed + 1 /\ u = [t EXCEPT !.elapsed = e] OBVIOUS
<1>5. u = [game |-> "chess", players |-> p, pos |-> q, moves |-> k, clocks |-> c,
           elapsed |-> e, offer |-> o, over |-> FALSE, winner |-> Nobody, result |-> "none"]
  BY <1>3, <1>4
<1>6. u = ChessOn(t, q, k, c, e, o) BY <1>1, <1>5 DEF ChessOn
<1>7. p \in Seq(Accounts) /\ Len(p) = 2 /\ p # <<>> /\ NamedOnce(p) BY <1>1 DEF FairChess, Seating
<1>8. FairChess(u) /\ ~u.over /\ u.players = p /\ u.game = "chess" BY <1>1, <1>2, <1>6, <1>7, ChessGoesOn
<1> QED BY <1>1, <1>3, <1>8

\* The clock makes a move of its own.
LEMMA TimeMoves ==
  ASSUME TablesFair, NEW m \in MatchIds, TimePasses(m)
  PROVE  \E u : PlayMove(m, u)
<1>1. PICK t : t = tables[m] OBVIOUS
<1>2. t # NoTable /\ matches[m].game \in ClockedGames BY <1>1 DEF TimePasses
<1>3. Placed(m, t) /\ Fair(t) BY <1>1, <1>2 DEF TablesFair
<1>4. t.game \in ClockedGames BY <1>2, <1>3 DEF Placed
<1>5. PICK u : u = [t EXCEPT !.elapsed = @ + 1] OBVIOUS
<1>6. ~t.over /\ Keep(m, u)
 <2>1. PICK limit : ClockAdvances(m, limit) BY Zenon DEF TimePasses
 <2> QED BY <1>1, <1>5, <2>1 DEF ClockAdvances
<1>7. Fair(u) /\ ~u.over /\ u.players = t.players /\ u.game = t.game
 <2>1. CASE t.game = "carrom" BY <1>3, <1>5, <1>6, <2>1, FairKinds, CarromWaits DEF Fair
 <2>2. CASE t.game = "eight_ball" BY <1>3, <1>5, <1>6, <2>2, FairKinds, EightWaits DEF Fair
 <2>3. CASE t.game = "quiz" BY <1>3, <1>5, <1>6, <2>3, FairKinds, QuizWaits DEF Fair
 <2>4. CASE t.game = "chess" BY <1>3, <1>5, <1>6, <2>4, FairKinds, ChessWaits DEF Fair
 <2> QED BY <1>4, <2>1, <2>2, <2>3, <2>4 DEF ClockedGames
<1>8. Placed(m, u) BY <1>3, <1>7 DEF Placed
<1> QED BY <1>1, <1>6, <1>7, <1>8, Kept
-----------------------------
(* The four parts of GamesSound hold at first and stay. *)

\* It holds when the server starts.
LEMMA SoundInit == GamesInit => GamesSound
<1> SUFFICES ASSUME GamesInit PROVE GamesSound OBVIOUS
<1>1. LobbyTyped BY LobbyInit
<1>2. TablesFair BY DEF GamesInit, MatchesInit, TablesFair
<1>3. FinishFits BY DEF GamesInit, HandlersInit, Idle, FinishFits
<1>4. ResultFollowsPlay BY DEF GamesInit, MatchesInit, NoMatch, NoTable, ResultFollowsPlay
<1> QED BY <1>1, <1>2, <1>3, <1>4 DEF GamesSound

\* A move of a row leaves a table where it is.
LEMMA RowKeepsPlace ==
  ASSUME RowsTyped, RowMoves, NEW m \in MatchIds, NEW t, Placed(m, t)
  PROVE  Placed(m, t)'
<1>1. CASE matches' = matches BY <1>1 DEF Placed
<1>2. ASSUME NEW n \in MatchIds, NEW new, RowMove(matches[n], new),
             matches' = [matches EXCEPT ![n] = new]
      PROVE  Placed(m, t)'
 <2>1. CASE m = n
  <3>1. matches'[m] = new BY <1>2, <2>1 DEF RowsTyped
  <3>2. matches[m] # NoMatch /\ matches[m].state # "lobby" BY DEF Placed, NoMatch
  <3>3. /\ new.state \notin {"none", "lobby"}
        /\ new.game = matches[m].game /\ new.players = matches[m].players
    BY <1>2, <2>1, <3>2 DEF RowMove
  <3> QED BY <3>1, <3>3 DEF Placed
 <2>2. CASE m # n
  <3>1. matches'[m] = matches[m] BY <1>2, <2>2 DEF RowsTyped
  <3> QED BY <3>1 DEF Placed
 <2> QED BY <2>1, <2>2
<1> QED BY <1>1, <1>2 DEF RowMoves

\* What the lobby does keeps the tables and the results.
LEMMA CalmKeeps ==
  ASSUME GamesSound, LobbyTyped', RowMoves, Calm
  PROVE  GamesSound'
<1>1. RowsTyped /\ tables' = tables /\ restarts' = restarts /\ dropped' = dropped
  BY DEF GamesSound, LobbyTyped, Calm
<1>2. TablesFair'
 <2>1. \A m \in MatchIds : tables[m] = NoTable \/ (Placed(m, tables[m])' /\ Fair(tables[m]))
  <3>1. ASSUME NEW m \in MatchIds, tables[m] # NoTable
        PROVE  Placed(m, tables[m])' /\ Fair(tables[m])
   <4>1. PICK t : t = tables[m] OBVIOUS
   <4>2. Placed(m, t) /\ Fair(t) BY <3>1, <4>1 DEF GamesSound, TablesFair
   <4>3. Placed(m, t)' BY <1>1, <4>2, RowKeepsPlace
   <4> QED BY <1>1, <4>1, <4>2, <4>3 DEF Placed
  <3> QED BY <3>1
 <2> QED BY <1>1, <2>1 DEF GamesSound, TablesFair, Placed
<1>3. \A h \in Handlers : job[h].op = "finish" \/ job'[h].op = "finish" => job'[h] = job[h] BY DEF Calm
<1>4. FinishFits' BY <1>1, <1>3 DEF GamesSound, FinishFits
<1>5. \A m \in MatchIds : InFlight("finish", m, {"update"}) => InFlight("finish", m, {"update"})'
  BY <1>3 DEF InFlight
<1>6. ResultFollowsPlay'
 <2>1. ASSUME NEW m \in MatchIds, matches'[m].state = "finished", restarts' = 0
       PROVE  tables'[m].over /\ tables'[m].winner = matches'[m].winner
  <3>1. matches'[m] = matches[m] BY <2>1 DEF Calm
  <3> QED BY <1>1, <2>1, <3>1 DEF GamesSound, ResultFollowsPlay
 <2>2. ASSUME NEW m \in MatchIds, tables'[m].over, matches'[m].state # "finished"
       PROVE  InFlight("finish", m, {"update"})' \/ m \in dropped'
  <3>1. matches[m].state # "finished" BY <2>2 DEF Calm
  <3>2. InFlight("finish", m, {"update"}) \/ m \in dropped
    BY <1>1, <2>2, <3>1 DEF GamesSound, ResultFollowsPlay
  <3> QED BY <1>1, <1>5, <3>2
 <2> QED BY <2>1, <2>2 DEF ResultFollowsPlay
<1> QED BY <1>2, <1>4, <1>6 DEF GamesSound

\* A move of an engine: its table is fair, and a result is on its way when
\* that was the end.
LEMMA PlayKeeps ==
  ASSUME GamesSound, NEW m \in MatchIds, NEW u, PlayMove(m, u)
  PROVE  GamesSound'
<1>1. /\ LobbyTyped /\ TablesFair /\ FinishFits /\ ResultFollowsPlay
      /\ matches' = matches /\ restarts' = restarts /\ dropped' = dropped /\ issued' = issued
      /\ ~tables[m].over /\ Fair(u) /\ Placed(m, u)
  BY DEF GamesSound, PlayMove
<1>2. tables = [n \in MatchIds |-> tables[n]] /\ tables' = [tables EXCEPT ![m] = u]
  BY <1>1 DEF TablesFair, PlayMove
<1>3. tables'[m] = u /\ \A n \in MatchIds \ {m} : tables'[n] = tables[n] BY <1>2
<1>4. u.winner \in Winners BY <1>1, FairSeating
<1>5. job \in [Handlers -> {Idle} \cup LobbyJob \cup FinishJob] BY <1>1 DEF LobbyTyped, JobsTyped
<1> DEFINE result == [op |-> "finish", at |-> "update", key |-> m, winner |-> u.winner]
<1>6. \A h \in Handlers : job'[h] = job[h] \/ (u.over /\ job[h] = Idle /\ job'[h] = result)
  BY <1>5 DEF PlayMove
<1>7. u.over => \E h \in Handlers : job'[h] = result BY <1>5 DEF PlayMove
<1>8. result \in FinishJob BY <1>4 DEF FinishJob, Winners
<1>9. LobbyTyped'
 <2>1. job' \in [Handlers -> {Idle} \cup LobbyJob \cup FinishJob]
  <3>1. job' = job \/ \E h \in Handlers : job' = [job EXCEPT ![h] = result] BY DEF PlayMove
  <3> HIDE DEF result
  <3> QED BY <1>5, <1>8, <3>1
 <2>2. \A h \in Handlers : job'[h].op = "leave" => job'[h] = job[h] BY <1>6
 <2>3. JobsTyped' BY <1>1, <2>1, <2>2 DEF LobbyTyped, JobsTyped
 <2> QED BY <1>1, <2>3 DEF LobbyTyped, RowsTyped
<1>10. TablesFair'
 <2>1. tables' = [n \in MatchIds |-> tables'[n]] BY <1>2
 <2>2. \A n \in MatchIds : tables'[n] = NoTable \/ (Placed(n, tables'[n]) /\ Fair(tables'[n]))
   BY <1>1, <1>3 DEF TablesFair
 <2> QED BY <1>1, <2>1, <2>2 DEF TablesFair, Placed
<1>11. \A h \in Handlers : job[h].op = "finish" => job[h].key \in MatchIds /\ job[h].key # m
 <2>1. ASSUME NEW h \in Handlers, job[h].op = "finish"
       PROVE  job[h].key \in MatchIds /\ job[h].key # m
  <3>1. job[h] \in FinishJob BY <1>5, <2>1 DEF Idle, LobbyJob
  <3>2. tables[job[h].key].over BY <1>1, <2>1 DEF FinishFits
  <3>3. job[h].key # m BY <1>1, <3>2
  <3> QED BY <3>1, <3>3 DEF FinishJob
 <2> QED BY <2>1
<1>12. FinishFits'
 <2>1. ASSUME NEW h \in Handlers, job'[h].op = "finish"
       PROVE  tables'[job'[h].key].over /\ tables'[job'[h].key].winner = job'[h].winner
  <3>1. CASE job'[h] = job[h]
   <4>1. job[h].key \in MatchIds /\ job[h].key # m BY <1>11, <2>1, <3>1
   <4>2. tables'[job[h].key] = tables[job[h].key] BY <1>3, <4>1
   <4> QED BY <1>1, <2>1, <3>1, <4>2 DEF FinishFits
  <3>2. CASE u.over /\ job'[h] = result
   <4>1. job'[h].key = m /\ job'[h].winner = u.winner BY <3>2
   <4> QED BY <1>3, <3>2, <4>1
  <3> QED BY <1>6, <3>1, <3>2
 <2> QED BY <2>1 DEF FinishFits
<1>13. ResultFollowsPlay'
 <2>1. ASSUME NEW n \in MatchIds, matches'[n].state = "finished", restarts' = 0
       PROVE  tables'[n].over /\ tables'[n].winner = matches'[n].winner
  <3>1. tables[n].over /\ tables[n].winner = matches[n].winner BY <1>1, <2>1 DEF ResultFollowsPlay
  <3>2. n # m BY <1>1, <3>1
  <3> QED BY <1>1, <1>3, <3>1, <3>2
 <2>2. ASSUME NEW n \in MatchIds, tables'[n].over, matches'[n].state # "finished"
       PROVE  InFlight("finish", n, {"update"})' \/ n \in dropped'
  <3>1. CASE n = m
   <4>1. PICK h \in Handlers : job'[h] = result BY <1>3, <1>7, <2>2, <3>1
   <4>2. job'[h].op = "finish" /\ job'[h].at = "update" /\ job'[h].key = m BY <4>1
   <4> QED BY <3>1, <4>2 DEF InFlight
  <3>2. CASE n # m
   <4>1. InFlight("finish", n, {"update"}) \/ n \in dropped BY <1>1, <1>3, <2>2, <3>2 DEF ResultFollowsPlay
   <4>2. InFlight("finish", n, {"update"}) => InFlight("finish", n, {"update"})'
    <5>1. \A h \in Handlers : job[h].op = "finish" => job'[h] = job[h] BY <1>6 DEF Idle
    <5> QED BY <5>1 DEF InFlight
   <4> QED BY <1>1, <4>1, <4>2
  <3> QED BY <3>1, <3>2
 <2> QED BY <2>1, <2>2 DEF ResultFollowsPlay
<1> QED BY <1>9, <1>10, <1>12, <1>13 DEF GamesSound

\* The first result of a match is recorded, and it is the one of its table.
LEMMA FinishKeeps ==
  ASSUME GamesSound, NEW h \in Handlers, FinishRow(h), UNCHANGED <<tables, restarts>>
  PROVE  GamesSound' /\ RowMoves
<1>1. /\ LobbyTyped /\ RowsTyped /\ TablesFair /\ FinishFits /\ ResultFollowsPlay
      /\ restarts' = restarts /\ dropped' = dropped /\ issued' = issued /\ tables' = tables
      /\ job' = [job EXCEPT ![h] = Idle] /\ job[h].op = "finish"
  BY DEF GamesSound, LobbyTyped, FinishRow, Finish, Doing
<1>2. job \in [Handlers -> {Idle} \cup LobbyJob \cup FinishJob] /\ restarts \in 0..MaxRestarts
  BY <1>1 DEF LobbyTyped, JobsTyped
<1>3. job[h] \in FinishJob BY <1>1, <1>2 DEF Idle, LobbyJob
<1>4. PICK m, w : m = job[h].key /\ w = job[h].winner /\ m \in MatchIds /\ w \in Accounts \cup {Nobody}
  BY <1>3 DEF FinishJob
<1>5. PICK t : t = tables[m] /\ t.over /\ t.winner = w BY <1>1, <1>4 DEF FinishFits
<1>6. Placed(m, t) /\ Fair(t) BY <1>1, <1>4, <1>5 DEF TablesFair, NoTable
<1>7. t.winner \in Seats(t) \cup {Nobody} /\ t.players = matches[m].players
  BY <1>6, FairSeating DEF Seating, Placed
<1>8. w = Nobody \/ Sits(matches[m], w) BY <1>5, <1>7 DEF Seats, Sits
<1>9. FairRow(matches[m]) /\ matches[m].state \in {"active", "cancelled", "finished"}
 <2>1. matches[m].state \notin {"none", "lobby"} BY <1>6 DEF Placed
 <2>2. FairRow(matches[m]) BY <1>1, <1>4, <2>1, RowThere
 <2> QED BY <2>1, <2>2 DEF FairRow, MatchRow
<1>10. matches' = IF matches[m].state = "finished" THEN matches
                  ELSE [matches EXCEPT ![m].state = "finished", ![m].winner = w]
  BY <1>4, <1>8 DEF FinishRow, Plays, Sits
<1>11. PICK new : new = [matches[m] EXCEPT !.state = "finished", !.winner = w] OBVIOUS
<1>12. \/ matches' = matches /\ matches[m].state = "finished"
       \/ /\ matches[m].state \in {"active", "cancelled"}
          /\ matches' = [matches EXCEPT ![m] = new] /\ RowMove(matches[m], new)
 <2>1. CASE matches[m].state = "finished" BY <1>10, <2>1
 <2>2. CASE matches[m].state # "finished"
  <3>1. matches[m].state \in {"active", "cancelled"} BY <1>9, <2>2
  <3>2. RowMove(matches[m], new)
   <4>1. PICK row : row = matches[m] OBVIOUS
   <4>2. new = [row EXCEPT !.state = "finished", !.winner = w] BY <1>11, <4>1
   <4>3. FairRow(row) /\ row.state \in {"active", "cancelled"} BY <1>9, <3>1, <4>1
   <4>4. w = Nobody \/ Sits(row, w) BY <1>8, <4>1
   <4>5. RowMove(row, new) BY <4>2, <4>3, <4>4, RowFinished, Zenon
   <4> QED BY <4>1, <4>5
  <3>3. matches' = [matches EXCEPT ![m] = new] BY <1>1, <1>4, <1>10, <1>11, <2>2 DEF RowsTyped
  <3> QED BY <3>1, <3>2, <3>3
 <2> QED BY <2>1, <2>2
<1>13. RowMoves BY <1>4, <1>12 DEF RowMoves
<1>14. \A n \in MatchIds : n # m => matches'[n] = matches[n] BY <1>1, <1>12 DEF RowsTyped
<1>15. matches'[m].state = "finished"
       /\ (matches[m].state # "finished" => matches'[m].winner = w)
       /\ (matches[m].state = "finished" => matches'[m] = matches[m])
 <2>1. CASE matches' = matches /\ matches[m].state = "finished" BY <2>1
 <2>2. CASE /\ matches[m].state \in {"active", "cancelled"}
            /\ matches' = [matches EXCEPT ![m] = new]
  <3>1. matches'[m] = new BY <1>1, <1>4, <2>2 DEF RowsTyped
  <3>2. new.state = "finished" /\ new.winner = w BY <1>9, <1>11 DEF FairRow, MatchRow
  <3> QED BY <2>2, <3>1, <3>2
 <2> QED BY <1>12, <2>1, <2>2
<1>16. RowsTyped'
 <2>1. matches' = [n \in MatchIds |-> matches'[n]] BY <1>1, <1>12 DEF RowsTyped
 <2>2. FairRow(matches'[m]) /\ m \in issued
  <3>1. m \in issued BY <1>1, <1>4, <1>9, RowLike DEF RowsTyped
  <3>2. matches'[m] = matches[m] \/ (matches'[m] = new /\ RowMove(matches[m], new))
    BY <1>1, <1>4, <1>12 DEF RowsTyped
  <3>3. FairRow(matches'[m]) BY <1>9, <3>2 DEF RowMove
  <3> QED BY <3>1, <3>3
 <2>3. \A n \in MatchIds : matches'[n] = NoMatch \/ (FairRow(matches'[n]) /\ n \in issued)
   BY <1>1, <1>14, <2>2 DEF RowsTyped
 <2> QED BY <1>1, <2>1, <2>3 DEF RowsTyped
<1>17. JobsTyped'
 <2>1. job' \in [Handlers -> {Idle} \cup LobbyJob \cup FinishJob] BY <1>1, <1>2
 <2>2. ASSUME NEW g \in Handlers, job'[g].op = "leave"
       PROVE  matches'[job'[g].key] # NoMatch /\ job'[g].who # matches'[job'[g].key].host
  <3>1. job'[g] = job[g] /\ job[g].op = "leave" BY <1>1, <1>2, <2>2 DEF Idle
  <3>2. PICK k : k = job[g].key OBVIOUS
  <3>3. matches[k] # NoMatch /\ job[g].who # matches[k].host BY <1>1, <3>1, <3>2 DEF LobbyTyped, JobsTyped
  <3>4. k \in MatchIds
   <4>1. job[g] \in LobbyJob BY <1>2, <3>1 DEF Idle, FinishJob
   <4> QED BY <3>2, <4>1 DEF LobbyJob
  <3>5. matches'[k] # NoMatch /\ matches'[k].host = matches[k].host
   <4>1. CASE k # m BY <1>14, <3>3, <3>4, <4>1
   <4>2. CASE k = m
    <5>1. matches'[m] = matches[m] \/ (matches'[m] = new /\ RowMove(matches[m], new))
      BY <1>1, <1>4, <1>12 DEF RowsTyped
    <5>2. RowMove(matches[m], new) => new # NoMatch /\ new.host = matches[m].host
      BY <3>3, <4>2, RowLike DEF RowMove
    <5> QED BY <3>3, <4>2, <5>1, <5>2
   <4> QED BY <4>1, <4>2
  <3> QED BY <3>1, <3>2, <3>3, <3>5
 <2> QED BY <2>1, <2>2 DEF JobsTyped
<1>18. LobbyTyped' BY <1>1, <1>2, <1>16, <1>17 DEF LobbyTyped
<1>19. TablesFair'
 <2>1. \A n \in MatchIds : tables[n] = NoTable \/ (Placed(n, tables[n])' /\ Fair(tables[n]))
  <3>1. ASSUME NEW n \in MatchIds, tables[n] # NoTable
        PROVE  Placed(n, tables[n])' /\ Fair(tables[n])
   <4>1. PICK x : x = tables[n] OBVIOUS
   <4>2. Placed(n, x) /\ Fair(x) BY <1>1, <3>1, <4>1 DEF TablesFair
   <4>3. Placed(n, x)' BY <1>1, <1>13, <4>2, RowKeepsPlace
   <4> QED BY <1>1, <4>1, <4>2, <4>3 DEF Placed
  <3> QED BY <3>1
 <2> QED BY <1>1, <2>1 DEF TablesFair, Placed
<1>20. \A g \in Handlers : job'[g].op = "finish" => job'[g] = job[g] BY <1>1, <1>2 DEF Idle
<1>21. FinishFits' BY <1>1, <1>20 DEF FinishFits
<1>22. ResultFollowsPlay'
 <2>1. ASSUME NEW n \in MatchIds, matches'[n].state = "finished", restarts' = 0
       PROVE  tables'[n].over /\ tables'[n].winner = matches'[n].winner
  <3>1. CASE n = m /\ matches[m].state # "finished" BY <1>1, <1>5, <1>15, <3>1
  <3>2. CASE n # m \/ matches[m].state = "finished"
   <4>1. matches'[n] = matches[n] BY <1>14, <1>15, <3>2
   <4> QED BY <1>1, <2>1, <4>1 DEF ResultFollowsPlay
  <3> QED BY <3>1, <3>2
 <2>2. ASSUME NEW n \in MatchIds, tables'[n].over, matches'[n].state # "finished"
       PROVE  InFlight("finish", n, {"update"})' \/ n \in dropped'
  <3>1. n # m BY <1>15, <2>2
  <3>2. InFlight("finish", n, {"update"}) \/ n \in dropped BY <1>1, <1>14, <2>2, <3>1 DEF ResultFollowsPlay
  <3>3. InFlight("finish", n, {"update"}) => InFlight("finish", n, {"update"})'
   <4>1. \A g \in Handlers : g # h => job'[g] = job[g] BY <1>1, <1>2
   <4> QED BY <1>4, <3>1, <4>1 DEF InFlight
  <3> QED BY <1>1, <3>2, <3>3
 <2> QED BY <2>1, <2>2 DEF ResultFollowsPlay
<1> QED BY <1>13, <1>18, <1>19, <1>21, <1>22 DEF GamesSound

\* A request that ends half-way says so.
LEMMA CutKeeps ==
  ASSUME GamesSound, GameCutOff
  PROVE  GamesSound'
<1>1. PICK h \in Handlers : Interrupted(h) BY DEF GameCutOff
<1>2. /\ LobbyTyped /\ TablesFair /\ FinishFits /\ ResultFollowsPlay
      /\ matches' = matches /\ tables' = tables /\ restarts' = restarts /\ issued' = issued
      /\ job' = [job EXCEPT ![h] = Idle] /\ dropped' = dropped \cup {job[h].key}
  BY <1>1 DEF GamesSound, GameCutOff, Interrupted, Break
<1>3. job \in [Handlers -> {Idle} \cup LobbyJob \cup FinishJob] BY <1>2 DEF LobbyTyped, JobsTyped
<1>4. \A g \in Handlers : (g # h /\ job'[g] = job[g]) \/ (g = h /\ job'[g] = Idle) BY <1>2, <1>3
<1>5. LobbyTyped'
 <2>1. job' \in [Handlers -> {Idle} \cup LobbyJob \cup FinishJob] BY <1>2, <1>3
 <2>2. \A g \in Handlers : job'[g].op = "leave" => job'[g] = job[g] BY <1>4 DEF Idle
 <2>3. JobsTyped' BY <1>2, <2>1, <2>2 DEF LobbyTyped, JobsTyped
 <2> QED BY <1>2, <2>3 DEF LobbyTyped, RowsTyped
<1>6. TablesFair' BY <1>2 DEF TablesFair, Placed
<1>7. FinishFits'
 <2>1. \A g \in Handlers : job'[g].op = "finish" => job'[g] = job[g] BY <1>4 DEF Idle
 <2> QED BY <1>2, <2>1 DEF FinishFits
<1>8. ResultFollowsPlay'
 <2>1. ASSUME NEW n \in MatchIds, tables[n].over, matches[n].state # "finished"
       PROVE  InFlight("finish", n, {"update"})' \/ n \in dropped'
  <3>1. InFlight("finish", n, {"update"}) \/ n \in dropped BY <1>2, <2>1 DEF ResultFollowsPlay
  <3>2. InFlight("finish", n, {"update"}) => InFlight("finish", n, {"update"})' \/ n = job[h].key
    BY <1>4 DEF InFlight
  <3> QED BY <1>2, <3>1, <3>2
 <2> QED BY <1>2, <2>1 DEF ResultFollowsPlay
<1> QED BY <1>5, <1>6, <1>7, <1>8 DEF GamesSound

\* After a restart there are rows, and no tables.
LEMMA RestartKeeps ==
  ASSUME GamesSound, Restart
  PROVE  GamesSound'
<1>1. /\ LobbyTyped /\ matches' = matches /\ issued' = issued
      /\ tables' = [n \in MatchIds |-> NoTable] /\ job' = [h \in Handlers |-> Idle]
      /\ restarts' = restarts + 1 /\ restarts < MaxRestarts /\ restarts \in 0..MaxRestarts
  BY DEF GamesSound, LobbyTyped, Restart
<1>2. restarts' \in 0..MaxRestarts /\ restarts' # 0 BY <1>1, RestartsBounded
<1>3. \A h \in Handlers : job'[h] = Idle BY <1>1
<1>4. LobbyTyped'
 <2>1. JobsTyped' BY <1>1, <1>3 DEF JobsTyped, Idle
 <2> QED BY <1>1, <1>2, <2>1 DEF LobbyTyped, RowsTyped
<1>5. TablesFair' BY <1>1 DEF TablesFair
<1>6. FinishFits' BY <1>3 DEF FinishFits, Idle
<1>7. ResultFollowsPlay'
 <2>1. \A n \in MatchIds : ~tables'[n].over BY <1>1 DEF NoTable
 <2> QED BY <1>2, <2>1 DEF ResultFollowsPlay
<1> QED BY <1>4, <1>5, <1>6, <1>7 DEF GamesSound

\* Every step.
LEMMA SoundNext ==
  ASSUME GamesSound, [GamesNext]_gamesVars
  PROVE  GamesSound' /\ RowMoves
<1>0. LobbyTyped /\ TablesFair BY DEF GamesSound
<1>1. CASE UNCHANGED gamesVars
 <2>1. /\ matches' = matches /\ tables' = tables /\ restarts' = restarts /\ issued' = issued
       /\ dropped' = dropped /\ job' = job
   BY <1>1 DEF gamesVars, matchVars, handlerVars
 <2>2. RowMoves /\ Calm BY <2>1 DEF RowMoves, Calm
 <2>3. LobbyTyped' BY <1>0, <2>1 DEF LobbyTyped, JobsTyped, RowsTyped
 <2> QED BY <2>2, <2>3, CalmKeeps
<1>2. CASE Lobby
 <2>1. ASSUME NEW a \in Accounts, NEW g \in DOMAIN Limits, NEW others \in Rosters(a),
              NamedOnce(others), CreateMatch(a, g, others)
       PROVE  GamesSound' /\ RowMoves
   BY <1>0, <2>1, LobbyCreates, CalmKeeps
 <2>2. ASSUME NEW h \in Handlers, MatchRequest(h)
       PROVE  GamesSound' /\ RowMoves
   BY <1>0, <2>2, LobbyRequests, CalmKeeps
 <2>3. ASSUME NEW h \in Handlers, MatchStep(h)
       PROVE  GamesSound' /\ RowMoves
  <3>1. CASE FinishRow(h) BY <2>3, <3>1, FinishKeeps DEF MatchStep
  <3>2. CASE AddPlayer(h) \/ RemovePlayer(h) \/ CancelRow(h) \/ StartRow(h)
    BY <1>0, <2>3, <3>2, LobbySteps, CalmKeeps DEF MatchStep
  <3> QED BY <2>3, <3>1, <3>2 DEF MatchStep
 <2> QED BY <1>2, <2>1, <2>2, <2>3 DEF Lobby
<1>3. CASE GameCutOff
 <2>1. RowMoves BY <1>3 DEF GameCutOff, RowMoves
 <2> QED BY <1>3, <2>1, CutKeeps
<1>4. CASE Restart
 <2>1. RowMoves BY <1>4 DEF Restart, RowMoves
 <2> QED BY <1>4, <2>1, RestartKeeps
<1>5. ASSUME NEW m \in MatchIds, NEW u, PlayMove(m, u)
      PROVE  GamesSound' /\ RowMoves
 <2>1. RowMoves BY <1>5 DEF PlayMove, RowMoves
 <2> QED BY <1>5, <2>1, PlayKeeps
<1>6. ASSUME NEW m \in MatchIds, TimePasses(m)
      PROVE  GamesSound' /\ RowMoves
  BY <1>0, <1>5, <1>6, TimeMoves
<1>7. ASSUME NEW m \in MatchIds, NEW h \in Handlers, Playing(h, m)
      PROVE  GamesSound' /\ RowMoves
 <2>1. \E u : PlayMove(m, u)
   BY <1>0, <1>7, SnakesMoves, LudoMoves, DominoMoves, CarromMoves, EightMoves, QuizMoves, ChessMoves
      DEF Playing
 <2> QED BY <1>5, <2>1
<1> QED BY <1>1, <1>2, <1>3, <1>4, <1>6, <1>7 DEF GamesNext
-----------------------------
(* What follows from it. *)

\* The rows, requests and tables of the game center stay as GamesSound says,
\* whatever is requested, played, cut off or restarted.
THEOREM GamesInductive == GamesSpec => []GamesSound
<1>1. GamesInit => GamesSound BY SoundInit
<1>2. GamesSound /\ [GamesNext]_gamesVars => GamesSound' BY SoundNext
<1> QED BY <1>1, <1>2, PTL DEF GamesSpec

\* The table of a match of game g is a fair one of that game.
LEMMA TableOfGame ==
  ASSUME GamesSound, NEW g, NEW t \in TablesOf(g)
  PROVE  Fair(t) /\ t.game = g
<1>1. PICK m \in MatchIds : Served(m, g) /\ tables[m] # NoTable /\ t = tables[m] BY DEF TablesOf
<1>2. Placed(m, tables[m]) /\ Fair(tables[m]) BY <1>1 DEF GamesSound, TablesFair
<1> QED BY <1>1, <1>2 DEF Placed, Served

\* What the invariant says of types.
LEMMA SoundTypes == GamesSound => GamesTypeOK
<1> SUFFICES ASSUME GamesSound PROVE GamesTypeOK OBVIOUS
<1>1. LobbyTyped /\ RowsTyped /\ JobsTyped BY DEF GamesSound, LobbyTyped
<1>2. \A h \in Handlers : job[h] = Idle \/ job[h].key \in MatchIds
  BY <1>1 DEF JobsTyped, LobbyJob, FinishJob
<1>3. ASSUME NEW m \in MatchIds
      PROVE  /\ matches[m].state \in {"none", "lobby", "active", "cancelled", "finished"}
             /\ matches[m].players \in Seq(Accounts)
             /\ tables[m].winner \in Accounts \cup {Nobody}
 <2>1. CASE matches[m] = NoMatch
  <3>1. matches[m].state = "none" /\ matches[m].players = <<>> BY <2>1 DEF NoMatch
  <3>2. ~Placed(m, tables[m]) BY <3>1 DEF Placed
  <3>3. tables[m].winner = Nobody BY <3>2 DEF GamesSound, TablesFair, NoTable
  <3> QED BY <3>1, <3>3
 <2>2. CASE matches[m] # NoMatch
  <3>1. FairRow(matches[m]) BY <1>1, <2>2 DEF RowsTyped
  <3>2. tables[m].winner \in Accounts \cup {Nobody}
   <4>1. CASE tables[m] = NoTable BY <4>1 DEF NoTable
   <4>2. CASE tables[m] # NoTable
    <5>1. PICK t : t = tables[m] /\ Fair(t) BY <4>2 DEF GamesSound, TablesFair
    <5> QED BY <5>1, FairSeating DEF Winners
   <4> QED BY <4>1, <4>2
  <3> QED BY <3>1, <3>2 DEF FairRow, MatchRow
 <2> QED BY <2>1, <2>2
<1>4. \A t \in TablesOf("eight_ball") : t.remaining \in [{"solids", "stripes"} -> 0..BallsPerGroup]
  BY TableOfGame, FairKinds DEF FairEight, EightTable
<1> QED BY <1>1, <1>2, <1>3, <1>4 DEF GamesTypeOK, LobbyTyped

\* Every row, request and table of the game center has its type.
THEOREM GamesTypeCorrect == GamesSpec => []GamesTypeOK
BY GamesInductive, SoundTypes, PTL

\* The result of a match is the one its engine came to, and a game that is
\* over has its result recorded unless that is under way or was cut off
\* (game-match.service.js:19-22).
THEOREM ResultsFollow == GamesSpec => []ResultFollowsPlay
<1>1. GamesSound => ResultFollowsPlay BY DEF GamesSound
<1> QED BY <1>1, GamesInductive, PTL

\* Ludo and snakes and ladders: nobody rests where nobody can, and who has
\* won is the one who is home (ludo.service.js:18-38,
\* snakes-ladders.board.js:22-42).
THEOREM RacesAreSound == GamesSpec => []RacesSound
<1>1. GamesSound => RacesSound BY TableOfGame, FairKinds DEF RacesSound, FairLudo, FairBoard
<1> QED BY <1>1, GamesInductive, PTL

\* Dominoes: every tile is somewhere once, the tiles on the table make one
\* chain, and who won emptied the hand or has the fewest pips
\* (domino.service.js:8-14).
THEOREM TilesAreAccounted == GamesSpec => []TilesAccounted
<1>1. GamesSound => TilesAccounted BY TableOfGame, FairKinds DEF TilesAccounted, FairDomino
<1> QED BY <1>1, GamesInductive, PTL

\* Carrom and eight ball: nobody scores what was not pocketed, and the queen
\* and the eight ball count for the right player (carrom.service.js:99-117,
\* eight-ball.service.js:170-188).
THEOREM PocketsAreSound == GamesSpec => []PocketsSound
<1>1. GamesSound => PocketsSound BY TableOfGame, FairKinds DEF PocketsSound, FairCarrom, FairEight
<1> QED BY <1>1, GamesInductive, PTL

\* The quiz: one answer or a zero for each question, and the score is their
\* sum (quiz.service.js:81-98).
THEOREM AnswersAreCounted == GamesSpec => []AnswersCounted
<1>1. GamesSound => AnswersCounted BY TableOfGame, FairKinds DEF AnswersCounted, FairQuiz
<1> QED BY <1>1, GamesInductive, PTL

\* The part of ChessSound that does not look at how pieces move.
ChessResultsRight == \A t \in TablesOf("chess") : ResultRight(t)

\* The result of a game of chess is what the position, the clocks or the
\* players say, and a game that goes on can (chess.service.js:4-11).
THEOREM ChessResultsAreRight == GamesSpec => []ChessResultsRight
<1>1. GamesSound => ChessResultsRight BY TableOfGame, FairKinds DEF ChessResultsRight, FairChess
<1> QED BY <1>1, GamesInductive, PTL

\* The lobby and the engines keep the promises of MatchContract: who plays
\* is settled in the lobby, and the first result stays
\* (game-match.repository.js:10-20).
THEOREM ContractKept == GamesSpec => LobbyKeepsContract
<1>1. GamesInit => Contract!Init BY DEF GamesInit, MatchesInit, NoMatch, Contract!Init
<1>2. GamesSound /\ [GamesNext]_gamesVars => [Contract!Next]_(Contract!contractVars)
  BY SoundNext, MoveKeepsContract DEF GamesSound, LobbyTyped
<1> QED BY <1>1, <1>2, GamesInductive, PTL DEF GamesSpec, LobbyKeepsContract, Contract!Spec
=============================
