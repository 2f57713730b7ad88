-------- MODULE GiftProofs --------
(***************************************************************************)
(* Proofs about Gifts for every set of accounts, rooms, gifts, handlers    *)
(* and ids: what a battle and a wall session keep while gifts, answers,    *)
(* ends and closings overlap, and that experience, levels, couples,        *)
(* walls, scores and rankings count the coins of the gifts paid for.       *)
(***************************************************************************)
EXTENDS Gifts, LedgerProofs

\* A gift costs a natural number of coins.
LEMMA CostsNat == Costs \subseteq Nat
  BY CostsAreAmounts, AmountsPositive
-----------------------------
GiftAt == {"pay", "xpSender", "xpReceiver", "couple", "cp", "notify", "openWall",
           "findWall", "contribute", "battle", "end", "score"}

GiftJob ==
  [op : {"gift"}, at : GiftAt, key : GiftIds, from : Accounts, to : Accounts,
   room : Rooms, coins : Costs, found : {NoWall} \cup CoupleIds \cup WallIds \cup BattleIds]
AnswerJob ==
  [op : {"answer"}, at : {"update"}, key : BattleIds, answer : {"active", "declined", "cancelled"}]
EndJob == [op : {"end"}, at : {"update"}, key : BattleIds]
CloseJob == [op : {"close"}, at : {"update"}, key : WallIds]
UnpairJob == [op : {"unpair"}, at : {"end"}, key : CoupleIds]

Jobs == {Idle} \cup GiftJob \cup AnswerJob \cup EndJob \cup CloseJob \cup UnpairJob

BattleRow ==
  [room : Rooms, host : Accounts, opponent : Accounts,
   status : {"pending", "active", "declined", "cancelled", "ended"},
   score : [Sides -> Nat], winner : Accounts \cup {Nobody}, endsAt : Nat]
WallRow == [status : {"none", "closed"}] \cup [status : {"active", "closed"}, room : Rooms]
GiftRow ==
  [id : GiftIds, from : Accounts, to : Accounts, room : Rooms, coins : Costs,
   before : SUBSET WallIds]

\* What a request under way found is what its next statement takes it for.
FoundTyped ==
  \A h \in Handlers : job[h].op = "gift" =>
     /\ job[h].at = "contribute" => job[h].found \in WallIds
     /\ job[h].at \in {"end", "score"} => job[h].found \in BattleIds

JobsTyped == job \in [Handlers -> Jobs] /\ FoundTyped

Typed ==
  /\ JobsTyped
  /\ time \in Nat
  /\ battles \in [BattleIds -> {NoBattle} \cup BattleRow]
  /\ walls \in [WallIds -> WallRow]
  /\ wallOf \in [GiftIds -> WallIds \cup {NoWall}]
  /\ gifts \subseteq GiftRow

\* The initial tables and idle handlers are typed.
LEMMA TypedInit == PartyInit => Typed
  BY DEF PartyInit, HandlersInit, BattlesInit, WallsInit, Typed, JobsTyped, Jobs, FoundTyped, Idle,
     NoBattle, WallRow

\* A request for a gift is one.
LEMMA GiftJobs ==
  ASSUME JobsTyped, NEW h \in Handlers, job[h].op = "gift"
  PROVE  job[h] \in GiftJob
  BY DEF JobsTyped, Jobs, GiftJob, AnswerJob, EndJob, CloseJob, UnpairJob, Idle

\* A request that closes a wall is one.
LEMMA CloseJobs ==
  ASSUME JobsTyped, NEW h \in Handlers, job[h].op = "close"
  PROVE  job[h] \in CloseJob
  BY DEF JobsTyped, Jobs, GiftJob, AnswerJob, EndJob, CloseJob, UnpairJob, Idle

\* A handler is given another job, or goes on with the one it has.
LEMMA GivenJob ==
  ASSUME JobsTyped, NEW h \in Handlers, NEW j \in Jobs,
         j.op = "gift" => /\ j.at = "contribute" => j.found \in WallIds
                          /\ j.at \in {"end", "score"} => j.found \in BattleIds,
         job' = [job EXCEPT ![h] = j]
  PROVE  JobsTyped'
  BY DEF JobsTyped, FoundTyped

\* A handler that is done leaves the other jobs typed.
LEMMA Finished ==
  ASSUME JobsTyped, NEW h \in Handlers, job' = [job EXCEPT ![h] = Idle]
  PROVE  JobsTyped'
<1>1. Idle \in Jobs /\ Idle.op # "gift" BY DEF Jobs, Idle
<1> QED BY <1>1, GivenJob

\* A gift that goes on to a step which needs nothing found stays typed.
LEMMA Onward ==
  ASSUME JobsTyped, NEW h \in Handlers, job[h].op = "gift",
         NEW at \in GiftAt \ {"contribute", "end", "score"},
         job' = [job EXCEPT ![h].at = at]
  PROVE  JobsTyped'
<1> DEFINE j == [job[h] EXCEPT !.at = at]
<1>1. job[h] \in GiftJob BY GiftJobs
<1>2. j \in GiftJob /\ j.at = at BY <1>1 DEF GiftJob
<1>3. job' = [job EXCEPT ![h] = j] OBVIOUS
<1> HIDE DEF j
<1> QED BY <1>2, <1>3, GivenJob DEF Jobs

\* A gift that goes on with what it found stays typed, if the next step can use it.
LEMMA Remembered ==
  ASSUME JobsTyped, NEW h \in Handlers, job[h].op = "gift",
         NEW at \in GiftAt, NEW x \in {NoWall} \cup CoupleIds \cup WallIds \cup BattleIds,
         at = "contribute" => x \in WallIds,
         at \in {"end", "score"} => x \in BattleIds,
         job' = [job EXCEPT ![h].found = x, ![h].at = at]
  PROVE  JobsTyped'
<1> DEFINE j == [[job[h] EXCEPT !.found = x] EXCEPT !.at = at]
<1>1. job[h] \in GiftJob BY GiftJobs
<1>2. j \in GiftJob /\ j.at = at /\ j.found = x BY <1>1 DEF GiftJob
<1>3. job' = [job EXCEPT ![h] = j] BY DEF JobsTyped
<1> HIDE DEF j
<1> QED BY <1>2, <1>3, GivenJob DEF Jobs
-----------------------------
\* Everything but the handlers' work.
Tables == <<battles, walls, wallOf, gifts>>

\* A step that changes jobs only keeps the tables typed.
LEMMA TypedStill ==
  ASSUME Typed, JobsTyped', UNCHANGED <<time, Tables>>
  PROVE  Typed'
  BY DEF Typed, Tables

\* How the rows of a battle and of a wall change, whoever changes them.
Challenged ==
  \E r \in Rooms, a \in Accounts, b \in BattleIds \ issued :
     /\ OpenIn(r) = {}
     /\ issued' = issued \cup {b}
     /\ battles' = [battles EXCEPT ![b] =
          [room |-> r, host |-> Owner[r], opponent |-> a, status |-> "pending",
           score |-> [s \in Sides |-> 0], winner |-> Nobody, endsAt |-> 0]]

Answered ==
  \E b \in BattleIds, status \in {"active", "declined", "cancelled"}, until \in Nat :
     /\ battles[b].status = "pending"
     /\ battles' = [battles EXCEPT ![b].status = status, ![b].endsAt = until]
     /\ issued' = issued

Ended ==
  \E b \in BattleIds :
     /\ battles[b].status = "active"
     /\ battles' = [battles EXCEPT ![b].status = "ended", ![b].winner = Winner(b)]
     /\ issued' = issued

Scored ==
  \E b \in BattleIds, side \in Sides, coins \in Nat :
     /\ battles[b].status = "active"
     /\ battles' = [battles EXCEPT ![b].score[side] = @ + coins]
     /\ issued' = issued

BattlesKept == battles' = battles /\ issued \subseteq issued'

BattleMove == BattlesKept \/ Challenged \/ Answered \/ Ended \/ Scored

WallMove ==
  \/ walls' = walls /\ issued \subseteq issued'
  \/ \E r \in Rooms, w \in WallIds \ issued :
        /\ ActiveIn(r) = {}
        /\ walls' = [walls EXCEPT ![w] = [status |-> "active", room |-> r]]
        /\ issued' = issued \cup {w}
  \/ \E w \in WallIds :
        /\ walls' = [walls EXCEPT ![w].status = "closed"]
        /\ issued' = issued

\* A move of the battles keeps their rows typed.
LEMMA BattlesTyped ==
  ASSUME Typed, BattleMove
  PROVE  battles' \in [BattleIds -> {NoBattle} \cup BattleRow]
<1>1. CASE BattlesKept BY <1>1 DEF BattlesKept, Typed
<1>2. CASE Challenged
 <2>1. PICK r \in Rooms, a \in Accounts, b \in BattleIds \ issued :
         battles' = [battles EXCEPT ![b] =
           [room |-> r, host |-> Owner[r], opponent |-> a, status |-> "pending",
            score |-> [s \in Sides |-> 0], winner |-> Nobody, endsAt |-> 0]]
   BY <1>2 DEF Challenged
 <2>2. [room |-> r, host |-> Owner[r], opponent |-> a, status |-> "pending",
        score |-> [s \in Sides |-> 0], winner |-> Nobody, endsAt |-> 0] \in BattleRow
   BY OwnersKnown DEF BattleRow
 <2> QED BY <2>1, <2>2 DEF Typed
<1>3. CASE Answered
 <2>1. PICK b \in BattleIds, status \in {"active", "declined", "cancelled"}, until \in Nat :
         /\ battles[b].status = "pending"
         /\ battles' = [battles EXCEPT ![b].status = status, ![b].endsAt = until]
   BY <1>3 DEF Answered
 <2>2. battles[b] \in BattleRow BY <2>1 DEF Typed, NoBattle
 <2>3. [[battles[b] EXCEPT !.status = status] EXCEPT !.endsAt = until] \in BattleRow BY <2>2 DEF BattleRow
 <2> QED BY <2>1, <2>3 DEF Typed
<1>4. CASE Ended
 <2>1. PICK b \in BattleIds :
         /\ battles[b].status = "active"
         /\ battles' = [battles EXCEPT ![b].status = "ended", ![b].winner = Winner(b)]
   BY <1>4 DEF Ended
 <2>2. battles[b] \in BattleRow BY <2>1 DEF Typed, NoBattle
 <2>3. Winner(b) \in Accounts \cup {Nobody} BY <2>2 DEF Winner, BattleRow
 <2>4. [[battles[b] EXCEPT !.status = "ended"] EXCEPT !.winner = Winner(b)] \in BattleRow
   BY <2>2, <2>3 DEF BattleRow
 <2> QED BY <2>1, <2>4 DEF Typed
<1>5. CASE Scored
 <2>1. PICK b \in BattleIds, side \in Sides, coins \in Nat :
         /\ battles[b].status = "active"
         /\ battles' = [battles EXCEPT ![b].score[side] = @ + coins]
   BY <1>5, Zenon DEF Scored
 <2>2. battles[b] \in BattleRow BY <2>1 DEF Typed, NoBattle
 <2>3. [battles[b] EXCEPT !.score[side] = @ + coins] \in BattleRow BY <2>2 DEF BattleRow
 <2> QED BY <2>1, <2>3 DEF Typed
<1> QED BY <1>1, <1>2, <1>3, <1>4, <1>5 DEF BattleMove

\* A move of the walls keeps their rows typed.
LEMMA WallsTyped ==
  ASSUME Typed, WallMove
  PROVE  walls' \in [WallIds -> WallRow]
<1>1. CASE walls' = walls BY <1>1 DEF Typed
<1>2. ASSUME NEW r \in Rooms, NEW w \in WallIds,
             walls' = [walls EXCEPT ![w] = [status |-> "active", room |-> r]]
      PROVE  walls' \in [WallIds -> WallRow]
  BY <1>2 DEF Typed, WallRow
<1>3. ASSUME NEW w \in WallIds, walls' = [walls EXCEPT ![w].status = "closed"]
      PROVE  walls' \in [WallIds -> WallRow]
 <2>1. walls[w] \in WallRow BY DEF Typed
 <2>2. [walls[w] EXCEPT !.status = "closed"] \in WallRow BY <2>1 DEF WallRow
 <2> QED BY <1>3, <2>2 DEF Typed
<1> QED BY <1>1, <1>2, <1>3 DEF WallMove
-----------------------------
\* What each kind of step does to the jobs, the battles and the walls.
Moves == JobsTyped' /\ BattleMove /\ WallMove

\* No change is a move of battles and walls.
LEMMA Still ==
  ASSUME UNCHANGED <<battles, walls, issued>>
  PROVE  BattleMove /\ WallMove
  BY DEF BattleMove, BattlesKept, WallMove

\* A new gift changes no table.
LEMMA StartGiftMoves ==
  ASSUME Typed, NEW h \in Handlers, NEW a \in Accounts, NEW b \in Accounts, NEW r \in Rooms,
         NEW coins \in Costs, StartGift(h, a, b, r, coins)
  PROVE  Moves /\ UNCHANGED <<time, Tables>>
<1>1. PICK g \in GiftIds \ issued :
        /\ Accept(h, [op |-> "gift", at |-> "pay", key |-> g, from |-> a, to |-> b,
                      room |-> r, coins |-> coins, found |-> NoWall])
        /\ issued' = issued \cup {g}
  BY DEF StartGift
<1> DEFINE j == [op |-> "gift", at |-> "pay", key |-> g, from |-> a, to |-> b,
                 room |-> r, coins |-> coins, found |-> NoWall]
<1>2. j \in Jobs /\ j.at = "pay" BY DEF Jobs, GiftJob, GiftAt
<1>3. job' = [job EXCEPT ![h] = j] /\ time' = time BY <1>1 DEF Accept
<1>4. UNCHANGED <<battles, walls, wallOf, gifts>> BY DEF StartGift, wallVars, giftVars
<1> HIDE DEF j
<1>5. JobsTyped' BY <1>2, <1>3, GivenJob DEF Typed
<1>6. BattleMove /\ WallMove BY <1>1, <1>4 DEF BattleMove, BattlesKept, WallMove
<1> QED BY <1>3, <1>4, <1>5, <1>6 DEF Moves, Tables

\* Paying adds one gift to the log and moves no battle and no wall.
LEMMA PayMoves ==
  ASSUME Typed, NEW h \in Handlers, Pay(h)
  PROVE  Moves /\ UNCHANGED <<time, battles, walls, wallOf>> /\ gifts' \subseteq GiftRow
<1>1. job[h] \in GiftJob /\ job[h].op = "gift" BY GiftJobs DEF Pay, Doing, Typed
<1>2. UNCHANGED <<time, issued, battles, walls, wallOf>> BY DEF Pay, Goto, Finish, wallVars
<1>3. JobsTyped'
 <2>1. CASE Goto(h, "xpSender") BY <1>1, <2>1, Onward DEF Goto, Typed, GiftAt
 <2>2. CASE Finish(h) BY <2>2, Finished DEF Finish, Typed
 <2> QED BY <2>1, <2>2 DEF Pay
<1>4. gifts' \subseteq GiftRow
 <2>1. [id |-> job[h].key, from |-> job[h].from, to |-> job[h].to,
        room |-> job[h].room, coins |-> job[h].coins, before |-> Closed] \in GiftRow
   BY <1>1 DEF GiftJob, GiftRow, Closed
 <2> QED BY <2>1 DEF Pay, Typed
<1> QED BY <1>2, <1>3, <1>4, Still DEF Moves

\* The steps that only go on to the next one.
LEMMA OnwardMoves ==
  ASSUME Typed, NEW h \in Handlers,
         XpSender(h) \/ XpReceiver(h) \/ CoupleGains(h) \/ NotifyReceiver(h)
  PROVE  Moves /\ UNCHANGED <<time, Tables>>
<1>1. PICK at \in {"xpReceiver", "couple", "notify", "openWall"} :
        /\ job[h].op = "gift"
        /\ job' = [job EXCEPT ![h].at = at]
        /\ UNCHANGED <<time, issued, battles, walls, wallOf, gifts>>
 <2>1. CASE XpSender(h) BY <2>1 DEF XpSender, AddXp, Doing, Goto, wallVars
 <2>2. CASE XpReceiver(h) BY <2>2 DEF XpReceiver, AddXp, Doing, Goto, wallVars
 <2>3. CASE CoupleGains(h) BY <2>3 DEF CoupleGains, Doing, Goto, Paid, giftVars, wallVars
 <2>4. CASE NotifyReceiver(h) BY <2>4 DEF NotifyReceiver, Doing, Paid, giftVars, wallVars
 <2> QED BY <2>1, <2>2, <2>3, <2>4
<1>2. JobsTyped' BY <1>1, Onward DEF Typed, GiftAt
<1> QED BY <1>1, <1>2, Still DEF Moves, Tables

\* The steps that look something up.
LEMMA LookMoves ==
  ASSUME Typed, NEW h \in Handlers, FindCouple(h) \/ FindWall(h) \/ FindBattle(h)
  PROVE  Moves /\ UNCHANGED <<time, Tables>>
<1>1. UNCHANGED <<time, issued, battles, walls, wallOf, gifts>>
 <2>1. CASE FindCouple(h) BY <2>1 DEF FindCouple, Goto, Remember, Paid, giftVars, wallVars
 <2>2. CASE FindWall(h) BY <2>2 DEF FindWall, Break, Remember, Paid, giftVars, wallVars
 <2>3. CASE FindBattle(h) BY <2>3 DEF FindBattle, Finish, Remember, Paid, giftVars, wallVars
 <2> QED BY <2>1, <2>2, <2>3
<1>2. job[h].op = "gift" /\ JobsTyped BY DEF FindCouple, FindWall, FindBattle, Doing, Typed
<1>3. JobsTyped'
 <2>1. CASE FindCouple(h)
  <3>1. CASE Goto(h, "notify") BY <1>2, <3>1, Onward DEF Goto, GiftAt
  <3>2. ASSUME NEW c \in CoupleIds, Remember(h, c, "cp")
        PROVE  JobsTyped'
    BY <1>2, <3>2, Remembered DEF Remember, GiftAt
  <3> QED BY <2>1, <3>1, <3>2 DEF FindCouple, CouplesOf, Active
 <2>2. CASE FindWall(h)
  <3>1. CASE Break(h) BY <1>2, <3>1, Finished DEF Break
  <3>2. ASSUME NEW w \in WallIds, Remember(h, w, "contribute")
        PROVE  JobsTyped'
    BY <1>2, <3>2, Remembered DEF Remember, GiftAt
  <3> QED BY <2>2, <3>1, <3>2 DEF FindWall, ActiveIn
 <2>3. CASE FindBattle(h)
  <3>1. CASE Finish(h) BY <1>2, <3>1, Finished DEF Finish
  <3>2. ASSUME NEW b \in BattleIds, NEW at \in {"end", "score"}, Remember(h, b, at)
        PROVE  JobsTyped'
    BY <1>2, <3>2, Remembered DEF Remember, GiftAt
  <3> QED BY <2>3, <3>1, <3>2 DEF FindBattle, OpenIn
 <2> QED BY <2>1, <2>2, <2>3
<1> QED BY <1>1, <1>3, Still DEF Moves, Tables

\* Opening a room's wall and adding to it are moves of the walls.
LEMMA WallStepMoves ==
  ASSUME Typed, NEW h \in Handlers, OpenRoomWall(h) \/ ContributeToWall(h)
  PROVE  Moves /\ UNCHANGED <<time, gifts>> /\ wallOf' \in [GiftIds -> WallIds \cup {NoWall}]
<1>1. CASE OpenRoomWall(h)
 <2>1. job[h].op = "gift" /\ job[h].room \in Rooms BY <1>1, GiftJobs DEF OpenRoomWall, Doing, Typed, GiftJob
 <2>2. UNCHANGED <<time, battles, wallOf, gifts>> BY <1>1 DEF OpenRoomWall, Paid, giftVars
 <2>3. JobsTyped' BY <1>1, <2>1, Onward DEF OpenRoomWall, Typed, GiftAt
 <2>4. WallMove /\ issued \subseteq issued' BY <1>1, <2>1 DEF OpenRoomWall, OpenWall, WallMove
 <2> QED BY <2>2, <2>3, <2>4 DEF Moves, BattleMove, BattlesKept, Typed
<1>2. CASE ContributeToWall(h)
 <2>1. job[h].op = "gift" /\ job[h] \in GiftJob /\ job[h].found \in WallIds
   BY <1>2, GiftJobs DEF ContributeToWall, Doing, Typed, JobsTyped, FoundTyped
 <2>2. UNCHANGED <<time, issued, battles, walls, gifts>>
   BY <1>2 DEF ContributeToWall, Contribute, Goto, Paid, giftVars
 <2>3. JobsTyped' BY <1>2, <2>1, Onward DEF ContributeToWall, Goto, Typed, GiftAt
 <2>4. wallOf' \in [GiftIds -> WallIds \cup {NoWall}]
   BY <1>2, <2>1 DEF ContributeToWall, Contribute, Typed, GiftJob
 <2> QED BY <2>2, <2>3, <2>4, Still DEF Moves
<1> QED BY <1>1, <1>2

\* The two conditional UPDATEs of a battle.
LEMMA EndRowMoves ==
  ASSUME Typed, NEW b \in BattleIds, EndRow(b), issued' = issued
  PROVE  BattleMove
  BY DEF EndRow, BattleMove, BattlesKept, Ended

\* Points for a side are a move of its battle.
LEMMA ScoreMoves ==
  ASSUME Typed, NEW b \in BattleIds, NEW side \in Sides, NEW coins \in Nat,
         AddScore(b, side, coins), issued' = issued
  PROVE  BattleMove
  BY DEF AddScore, BattleMove, BattlesKept, Scored

\* The end a gift finds, and the points it adds, are moves of a battle.
LEMMA PointsMoves ==
  ASSUME Typed, NEW h \in Handlers, EndExpired(h) \/ Score(h)
  PROVE  Moves /\ UNCHANGED <<time, walls, wallOf, gifts>>
<1>1. job[h].op = "gift" /\ job[h] \in GiftJob /\ job[h].found \in BattleIds
  BY GiftJobs DEF EndExpired, Score, Doing, Typed, JobsTyped, FoundTyped
<1>2. Finish(h) /\ UNCHANGED <<walls, wallOf, gifts>> BY DEF EndExpired, Score, Paid, giftVars, wallVars
<1>3. BattleMove
 <2>1. CASE EndExpired(h) BY <1>1, <1>2, <2>1, EndRowMoves DEF EndExpired, Finish
 <2>2. CASE Score(h)
  <3>1. PICK side \in Sides : AddScore(job[h].found, side, job[h].coins) BY <2>2 DEF Score, SidesOf
  <3>2. job[h].coins \in Nat BY <1>1, CostsNat DEF GiftJob
  <3> QED BY <1>1, <1>2, <3>1, <3>2, ScoreMoves DEF Finish
 <2> QED BY <2>1, <2>2
<1> QED BY <1>2, <1>3, Finished DEF Moves, WallMove, Finish, Typed

\* A request that is not a gift, taken.
LEMMA TakenJob ==
  ASSUME JobsTyped, NEW h \in Handlers,
         NEW j \in AnswerJob \cup EndJob \cup CloseJob \cup UnpairJob, Accept(h, j)
  PROVE  JobsTyped' /\ time' = time
<1>1. j \in Jobs /\ j.op # "gift" BY DEF Jobs, AnswerJob, EndJob, CloseJob, UnpairJob
<1> QED BY <1>1, GivenJob DEF Accept

\* Challenges, answers and ends are moves of the battles.
LEMMA BattlingMoves ==
  ASSUME Typed, Battling
  PROVE  Moves /\ UNCHANGED <<time, walls, wallOf, gifts>>
<1>1. UNCHANGED <<walls, wallOf, gifts>> BY DEF Battling, wallVars, giftVars
<1>2. ASSUME NEW r \in Rooms, NEW a \in Accounts, Challenge(r, a)
      PROVE  JobsTyped' /\ BattleMove /\ WallMove /\ time' = time
 <2>1. Challenged /\ UNCHANGED <<job, time>> /\ issued \subseteq issued' BY <1>2 DEF Challenge, Challenged
 <2> QED BY <1>1, <2>1 DEF BattleMove, WallMove, Typed, JobsTyped, FoundTyped
<1>3. ASSUME NEW h \in Handlers, NEW b \in BattleIds,
             NEW answer \in {"active", "declined", "cancelled"}, StartAnswer(h, b, answer)
      PROVE  JobsTyped' /\ BattleMove /\ WallMove /\ time' = time
 <2>1. [op |-> "answer", at |-> "update", key |-> b, answer |-> answer] \in AnswerJob BY DEF AnswerJob
 <2> QED BY <1>1, <1>3, <2>1, TakenJob, Still DEF StartAnswer, Typed
<1>4. ASSUME NEW h \in Handlers, NEW b \in BattleIds, StartEnd(h, b)
      PROVE  JobsTyped' /\ BattleMove /\ WallMove /\ time' = time
 <2>1. [op |-> "end", at |-> "update", key |-> b] \in EndJob BY DEF EndJob
 <2> QED BY <1>1, <1>4, <2>1, TakenJob, Still DEF StartEnd, Typed
<1>5. ASSUME NEW h \in Handlers, Answer(h)
      PROVE  JobsTyped' /\ BattleMove /\ WallMove /\ time' = time
 <2>1. job[h] \in AnswerJob
   BY <1>5 DEF Answer, Doing, Typed, JobsTyped, Jobs, Idle, GiftJob, EndJob, CloseJob, UnpairJob
 <2>2. Finish(h) BY <1>5 DEF Answer
 <2>3. BattleMove
  <3>1. CASE battles[job[h].key].status # "pending"
    BY <1>5, <2>2, <3>1 DEF Answer, Finish, BattleMove, BattlesKept
  <3>2. CASE battles[job[h].key].status = "pending"
   <4> DEFINE b == job[h].key
              until == IF job[h].answer = "active" THEN time + Round ELSE battles[b].endsAt
   <4>1. b \in BattleIds /\ job[h].answer \in {"active", "declined", "cancelled"} BY <2>1 DEF AnswerJob
   <4>2. battles[b] \in BattleRow BY <3>2, <4>1 DEF Typed, NoBattle
   <4>3. until \in Nat BY <4>2, RoundPositive DEF BattleRow, Typed
   <4>4. battles' = [battles EXCEPT ![b].status = job[h].answer, ![b].endsAt = until]
     BY <1>5, <3>2, <4>1 DEF Answer, Typed
   <4> HIDE DEF b, until
   <4>5. Answered BY <2>2, <3>2, <4>1, <4>3, <4>4 DEF Answered, Finish, b
   <4> QED BY <4>5 DEF BattleMove
  <3> QED BY <3>1, <3>2
 <2> QED BY <1>1, <2>2, <2>3, Finished DEF Finish, WallMove, Typed
<1>6. ASSUME NEW h \in Handlers, EndBattle(h)
      PROVE  JobsTyped' /\ BattleMove /\ WallMove /\ time' = time
 <2>1. job[h] \in EndJob
   BY <1>6 DEF EndBattle, Doing, Typed, JobsTyped, Jobs, Idle, GiftJob, AnswerJob, CloseJob, UnpairJob
 <2>2. job[h].key \in BattleIds /\ Finish(h) /\ EndRow(job[h].key) BY <1>6, <2>1 DEF EndBattle, EndJob
 <2> QED BY <1>1, <2>2, Finished, EndRowMoves DEF Finish, WallMove, Typed
<1> QED BY <1>1, <1>2, <1>3, <1>4, <1>5, <1>6 DEF Battling, BattleRequest, BattleStep, Moves

\* Closing is a move of the walls.
LEMMA ClosingMoves ==
  ASSUME Typed, Closing
  PROVE  Moves /\ UNCHANGED <<time, battles, wallOf, gifts>>
<1>1. UNCHANGED <<battles, gifts>> BY DEF Closing, giftVars
<1>2. ASSUME NEW h \in Handlers, NEW r \in Rooms, StartClose(h, r)
      PROVE  JobsTyped' /\ BattleMove /\ WallMove /\ UNCHANGED <<time, wallOf>>
 <2>1. PICK w \in ActiveIn(r) : Accept(h, [op |-> "close", at |-> "update", key |-> w])
   BY <1>2 DEF StartClose
 <2>2. [op |-> "close", at |-> "update", key |-> w] \in CloseJob BY DEF CloseJob, ActiveIn
 <2> QED BY <1>1, <1>2, <2>1, <2>2, TakenJob, Still DEF StartClose, wallVars, Typed
<1>3. ASSUME NEW h \in Handlers, CloseWall(h)
      PROVE  JobsTyped' /\ BattleMove /\ WallMove /\ UNCHANGED <<time, wallOf>>
 <2>1. job[h] \in CloseJob BY <1>3, CloseJobs DEF CloseWall, Doing, Typed
 <2>2. job[h].key \in WallIds /\ Finish(h) BY <1>3, <2>1 DEF CloseWall, CloseJob
 <2>3. WallMove BY <1>3, <2>2 DEF CloseWall, WallMove, Finish
 <2> QED BY <1>1, <1>3, <2>2, <2>3, Finished DEF CloseWall, Finish, BattleMove, BattlesKept, Typed
<1> QED BY <1>1, <1>2, <1>3 DEF Closing, Moves

\* The end of a couple moves no battle and no wall.
LEMMA PartingMoves ==
  ASSUME Typed, Parting
  PROVE  Moves /\ UNCHANGED <<time, Tables>>
<1>1. UNCHANGED <<battles, walls, wallOf, gifts>> BY DEF Parting, wallVars, giftVars
<1>2. ASSUME NEW h \in Handlers, NEW c \in CoupleIds, StartUnpair(h, c)
      PROVE  JobsTyped' /\ UNCHANGED <<time, issued>>
 <2>1. [op |-> "unpair", at |-> "end", key |-> c] \in UnpairJob BY DEF UnpairJob
 <2> QED BY <1>2, <2>1, TakenJob DEF StartUnpair, Typed
<1>3. ASSUME NEW h \in Handlers, EndCouple(h)
      PROVE  JobsTyped' /\ UNCHANGED <<time, issued>>
  BY <1>3, Finished DEF EndCouple, Finish, Typed
<1> QED BY <1>1, <1>2, <1>3, Still DEF Parting, UnpairRequest, UnpairStep, Moves, Tables

\* Cut-off requests and the clock move no battle and no wall.
LEMMA ElsewhereMoves ==
  ASSUME Typed, Elsewhere
  PROVE  Moves /\ UNCHANGED Tables /\ time' \in Nat
<1>1. UNCHANGED <<battles, walls, wallOf, gifts>> BY DEF Elsewhere, wallVars, giftVars
<1>2. CASE Tick
 <2>1. UNCHANGED <<job, issued>> /\ time' \in Nat BY <1>2 DEF Tick, Typed
 <2> QED BY <1>1, <2>1, Still DEF Moves, Tables, Typed, JobsTyped, FoundTyped
<1>3. ASSUME NEW h \in Handlers, Interrupted(h)
      PROVE  Moves /\ UNCHANGED Tables /\ time' \in Nat
  BY <1>1, <1>3, Finished, Still DEF Interrupted, Break, Moves, Tables, Typed
<1> QED BY <1>2, <1>3 DEF Elsewhere
-----------------------------
\* Every step keeps the types, and is a move of the battles and of the walls.
LEMMA Step ==
  ASSUME Typed, [PartyNext]_partyVars
  PROVE  Typed' /\ BattleMove /\ WallMove
<1>1. CASE Giving
 <2>1. ASSUME NEW h \in Handlers, GiftStep(h)
       PROVE  Typed' /\ BattleMove /\ WallMove
  <3>1. Moves /\ time' = time /\ gifts' \subseteq GiftRow
          /\ wallOf' \in [GiftIds -> WallIds \cup {NoWall}]
    BY <2>1, PayMoves, OnwardMoves, LookMoves, WallStepMoves, PointsMoves DEF GiftStep, Tables, Typed
  <3> QED BY <3>1, BattlesTyped, WallsTyped DEF Typed, Moves
 <2>2. ASSUME NEW h \in Handlers, NEW a \in Accounts, NEW b \in Accounts, NEW r \in Rooms,
              NEW coins \in Costs, StartGift(h, a, b, r, coins)
       PROVE  Typed' /\ BattleMove /\ WallMove
   BY <2>2, StartGiftMoves, TypedStill DEF Moves
 <2> QED BY <1>1, <2>1, <2>2 DEF Giving
<1>2. CASE Battling BY <1>2, BattlingMoves, BattlesTyped DEF Moves, Typed
<1>3. CASE Closing BY <1>3, ClosingMoves, WallsTyped DEF Moves, Typed
<1>4. CASE Parting BY <1>4, PartingMoves, TypedStill DEF Moves
<1>5. CASE Elsewhere BY <1>5, ElsewhereMoves DEF Moves, Typed, Tables
<1>6. CASE UNCHANGED partyVars
 <2>1. UNCHANGED <<job, time, issued, battles, walls, wallOf, gifts>>
   BY <1>6 DEF partyVars, handlerVars, wallVars, giftVars
 <2> QED BY <2>1, Still DEF Typed, JobsTyped, FoundTyped
<1> QED BY <1>1, <1>2, <1>3, <1>4, <1>5, <1>6 DEF PartyNext

\* Jobs, battles, walls and gifts keep their types while requests overlap.
THEOREM PartyTyped == PartySpec => []Typed
  BY TypedInit, Step, PTL DEF PartySpec
-----------------------------
\* What makes the tables sound, stated of two rows or of one: an open battle
\* and an active wall are alone in their room, a winner is what the score says,
\* and a battle's id is drawn once.
AloneInRoom ==
  /\ \A b, c \in BattleIds :
        Open(b) /\ Open(c) /\ battles[b].room = battles[c].room => b = c
  /\ \A v, w \in WallIds :
        walls[v].status = "active" /\ walls[w].status = "active" /\ walls[v].room = walls[w].room
          => v = w

DrawnOnce == \A b \in BattleIds : battles[b] # NoBattle => b \in issued

Rows == AloneInRoom /\ WinnerFollowsScore /\ DrawnOnce

\* Without rows nothing is shared.
LEMMA RowsInit == PartyInit => Rows
  BY DEF PartyInit, BattlesInit, WallsInit, Rows, AloneInRoom, WinnerFollowsScore, DrawnOnce, Open, NoBattle

\* A battle that is there has a full row.
LEMMA RowThere ==
  ASSUME Typed, NEW b \in BattleIds, battles[b] # NoBattle
  PROVE  battles[b] \in BattleRow
  BY DEF Typed

\* A battle's id stays drawn.
LEMMA DrawnOnceKept ==
  ASSUME Typed, DrawnOnce, BattleMove
  PROVE  DrawnOnce'
<1>1. ASSUME NEW b \in BattleIds, battles[b].status # "none"
      PROVE  b \in issued
  BY <1>1 DEF DrawnOnce, NoBattle
<1> QED BY <1>1 DEF BattleMove, BattlesKept, Challenged, Answered, Ended, Scored, DrawnOnce, Typed

\* Two open battles of a room are one, after every move of the battles.
LEMMA BattlesAlone ==
  ASSUME Typed, AloneInRoom, BattleMove, NEW b \in BattleIds, NEW c \in BattleIds,
         Open(b)', Open(c)', battles'[b].room = battles'[c].room
  PROVE  b = c
<1>1. CASE BattlesKept BY <1>1 DEF BattlesKept, AloneInRoom, Open
<1>2. CASE Challenged BY <1>2 DEF Challenged, OpenIn, AloneInRoom, Open, Typed
<1>3. CASE Answered
 <2>1. PICK x \in BattleIds, status \in {"active", "declined", "cancelled"}, until \in Nat :
         /\ battles[x].status = "pending"
         /\ battles' = [battles EXCEPT ![x].status = status, ![x].endsAt = until]
   BY <1>3 DEF Answered
 <2>2. battles[x] \in BattleRow BY <2>1, RowThere DEF NoBattle
 <2>3. battles'[x].room = battles[x].room /\ \A y \in BattleIds \ {x} : battles'[y] = battles[y]
   BY <2>1, <2>2 DEF BattleRow, Typed
 <2>4. Open(b) /\ battles[b].room = battles'[b].room BY <2>1, <2>3 DEF Open
 <2>5. Open(c) /\ battles[c].room = battles'[c].room BY <2>1, <2>3 DEF Open
 <2> QED BY <2>4, <2>5 DEF AloneInRoom
<1>4. CASE Ended
 <2>1. PICK x \in BattleIds :
         /\ battles[x].status = "active"
         /\ battles' = [battles EXCEPT ![x].status = "ended", ![x].winner = Winner(x)]
   BY <1>4 DEF Ended
 <2>2. battles[x] \in BattleRow BY <2>1, RowThere DEF NoBattle
 <2>3. battles'[x].status = "ended" /\ \A y \in BattleIds \ {x} : battles'[y] = battles[y]
   BY <2>1, <2>2 DEF BattleRow, Typed
 <2> QED BY <2>3 DEF AloneInRoom, Open
<1>5. CASE Scored
 <2>1. PICK x \in BattleIds, side \in Sides, coins \in Nat :
         /\ battles[x].status = "active"
         /\ battles' = [battles EXCEPT ![x].score[side] = @ + coins]
   BY <1>5, ZenonT(60) DEF Scored
 <2>2. battles[x] \in BattleRow BY <2>1, RowThere DEF NoBattle
 <2>3. battles'[x].room = battles[x].room /\ \A y \in BattleIds \ {x} : battles'[y] = battles[y]
   BY <2>1, <2>2 DEF BattleRow, Typed
 <2> QED BY <2>1, <2>3 DEF AloneInRoom, Open
<1> QED BY <1>1, <1>2, <1>3, <1>4, <1>5 DEF BattleMove

\* Two active walls of a room are one, after every move of the walls.
LEMMA WallsAlone ==
  ASSUME Typed, AloneInRoom, WallMove, NEW v \in WallIds, NEW w \in WallIds,
         walls'[v].status = "active", walls'[w].status = "active", walls'[v].room = walls'[w].room
  PROVE  v = w
<1>1. CASE walls' = walls BY <1>1 DEF AloneInRoom
<1>2. ASSUME NEW r \in Rooms, NEW x \in WallIds, ActiveIn(r) = {},
             walls' = [walls EXCEPT ![x] = [status |-> "active", room |-> r]]
      PROVE  v = w
  BY <1>2 DEF ActiveIn, AloneInRoom, Typed
<1>3. ASSUME NEW x \in WallIds, walls' = [walls EXCEPT ![x].status = "closed"]
      PROVE  v = w
 <2>1. walls'[x].status = "closed" /\ \A y \in WallIds \ {x} : walls'[y] = walls[y]
   BY <1>3 DEF Typed, WallRow
 <2> QED BY <2>1 DEF AloneInRoom
<1> QED BY <1>1, <1>2, <1>3 DEF WallMove

\* The winner depends on the score and the two sides only.
LEMMA WinnerKept ==
  ASSUME Typed, WinnerFollowsScore, BattleMove
  PROVE  WinnerFollowsScore'
<1> SUFFICES ASSUME NEW b \in BattleIds, battles'[b] # NoBattle
             PROVE  battles'[b].winner = IF battles'[b].status = "ended" THEN Winner(b)' ELSE Nobody
  BY DEF WinnerFollowsScore, NoBattle
<1>1. CASE battles'[b] = battles[b] BY <1>1 DEF WinnerFollowsScore, Winner
<1>2. CASE Challenged BY <1>1, <1>2 DEF Challenged, Typed
<1>3. CASE Answered
 <2>1. PICK x \in BattleIds, status \in {"active", "declined", "cancelled"}, until \in Nat :
         /\ battles[x].status = "pending"
         /\ battles' = [battles EXCEPT ![x].status = status, ![x].endsAt = until]
   BY <1>3 DEF Answered
 <2>2. battles[x] \in BattleRow BY <2>1, RowThere DEF NoBattle
 <2>3. battles'[x].winner = battles[x].winner /\ battles'[x].status # "ended"
   BY <2>1, <2>2 DEF BattleRow, Typed
 <2>4. battles[x].winner = Nobody BY <2>1 DEF WinnerFollowsScore, NoBattle
 <2> QED BY <1>1, <2>1, <2>3, <2>4 DEF Typed
<1>4. CASE Ended
 <2>1. PICK x \in BattleIds :
         /\ battles[x].status = "active"
         /\ battles' = [battles EXCEPT ![x].status = "ended", ![x].winner = Winner(x)]
   BY <1>4 DEF Ended
 <2>2. battles[x] \in BattleRow BY <2>1, RowThere DEF NoBattle
 <2>3. /\ battles'[x].status = "ended" /\ battles'[x].winner = Winner(x)
       /\ battles'[x].score = battles[x].score
       /\ battles'[x].host = battles[x].host /\ battles'[x].opponent = battles[x].opponent
   BY <2>1, <2>2 DEF BattleRow, Typed
 <2>4. Winner(x)' = Winner(x) BY <2>3 DEF Winner
 <2> QED BY <1>1, <2>1, <2>3, <2>4 DEF Typed
<1>5. CASE Scored
 <2>1. PICK x \in BattleIds, side \in Sides, coins \in Nat :
         /\ battles[x].status = "active"
         /\ battles' = [battles EXCEPT ![x].score[side] = @ + coins]
   BY <1>5, Zenon DEF Scored
 <2>2. battles[x] \in BattleRow BY <2>1, RowThere DEF NoBattle
 <2>3. battles'[x].winner = battles[x].winner /\ battles'[x].status = "active"
   BY <2>1, <2>2 DEF BattleRow, Typed
 <2>4. battles[x].winner = Nobody BY <2>1 DEF WinnerFollowsScore, NoBattle
 <2> QED BY <1>1, <2>1, <2>3, <2>4 DEF Typed
<1> QED BY <1>1, <1>2, <1>3, <1>4, <1>5 DEF BattleMove, BattlesKept

\* Every move keeps what makes the rows sound.
LEMMA RowsKept ==
  ASSUME Typed, Rows, BattleMove, WallMove
  PROVE  Rows'
<1>1. AloneInRoom' BY BattlesAlone, WallsAlone DEF Rows, AloneInRoom
<1> QED BY <1>1, WinnerKept, DrawnOnceKept DEF Rows

\* In every reachable state the tables' types hold together with the rows: each
\* room alone with its open battle and wall, winners by their scores, names drawn once.
THEOREM RowsSound == PartySpec => [](Typed /\ Rows)
  BY TypedInit, RowsInit, Step, RowsKept, PTL DEF PartySpec

\* A battle goes forward only.
THEOREM BattlesForward == PartySpec => BattleForward
<1>1. ASSUME Typed, Rows, [PartyNext]_partyVars, NEW b \in BattleIds,
             battles[b] # NoBattle, battles'[b].status # battles[b].status
      PROVE  \/ battles[b].status = "pending" /\ battles'[b].status # "ended"
             \/ battles[b].status = "active" /\ battles'[b].status = "ended"
 <2>1. BattleMove /\ b \in issued /\ battles[b] \in BattleRow BY <1>1, Step, RowThere DEF Rows, DrawnOnce
 <2>2. ~BattlesKept BY <1>1 DEF BattlesKept
 <2>3. CASE Challenged BY <1>1, <2>1, <2>3 DEF Challenged, Typed
 <2>4. CASE Answered BY <1>1, <2>1, <2>4 DEF Answered, Typed, BattleRow
 <2>5. CASE Ended BY <1>1, <2>1, <2>5 DEF Ended, Typed, BattleRow
 <2>6. CASE Scored BY <1>1, <2>1, <2>6 DEF Scored, Typed, BattleRow
 <2> QED BY <2>1, <2>2, <2>3, <2>4, <2>5, <2>6 DEF BattleMove
<1>2. Typed /\ Rows /\ [PartyNext]_partyVars =>
        [\A b \in BattleIds :
           battles[b] # NoBattle /\ battles'[b].status # battles[b].status =>
             \/ battles[b].status = "pending" /\ battles'[b].status # "ended"
             \/ battles[b].status = "active" /\ battles'[b].status = "ended"]_battles
  BY <1>1
<1> QED BY <1>2, RowsSound, PTL DEF PartySpec, BattleForward

\* A room has one open battle and one active wall, and an ended battle's winner
\* is the one its score names.
THEOREM BattlesSound == PartySpec => []BattleSound
<1>1. ASSUME NEW S, \A x, y \in S : x = y
      PROVE  Cardinality(S) <= 1
 <2>1. CASE S = {} BY <2>1, FS_EmptySet
 <2>2. CASE S # {}
  <3>1. PICK x : S = {x} BY <1>1, <2>2
  <3> QED BY <3>1, FS_Singleton
 <2> QED BY <2>1, <2>2
<1>2. ASSUME Rows, NEW r \in Rooms
      PROVE  Cardinality(OpenIn(r)) <= 1 /\ Cardinality(ActiveIn(r)) <= 1
 <2>1. \A b, c \in OpenIn(r) : b = c BY <1>2 DEF Rows, AloneInRoom, OpenIn
 <2>2. \A v, w \in ActiveIn(r) : v = w BY <1>2 DEF Rows, AloneInRoom, ActiveIn
 <2> QED BY <1>1, <2>1, <2>2
<1>3. Rows => BattleSound BY <1>2 DEF Rows, BattleSound, OneOpenPerRoom
<1> QED BY <1>3, RowsSound, PTL
-----------------------------
\* Why no gift counts in a broadcast that was over: what the tables and the
\* requests under way know of gifts and walls.
WallThere(w) == walls[w] \in [status : {"active", "closed"}, room : Rooms]

WallsDrawn ==
  /\ \A w \in WallIds : walls[w].status # "none" => w \in issued /\ WallThere(w)
  /\ \A h \in Handlers : job[h].op = "close" => walls[job[h].key].status # "none"

\* A gift request has an id of its own, and pays before it does anything else.
KeysApart ==
  \A h \in Handlers : job[h].op = "gift" =>
     /\ job[h].key \in issued
     /\ \A i \in Handlers : job[i].op = "gift" /\ job[i].key = job[h].key => i = h
     /\ \A g \in gifts : g.id = job[h].key => job[h].at # "pay" /\ g.room = job[h].room
     /\ job[h].at = "pay" => wallOf[job[h].key] = NoWall

GiftsDrawn ==
  /\ \A g \in gifts : g.id \in issued /\ g.before \subseteq Closed
  /\ \A k \in GiftIds : wallOf[k] # NoWall => k \in issued /\ walls[wallOf[k]].status # "none"

\* The wall a request is about to add to is of its room, and was open after the
\* gift was paid for.
FoundFits ==
  \A h \in Handlers : job[h].op = "gift" /\ job[h].at = "contribute" =>
     /\ walls[job[h].found].status # "none"
     /\ walls[job[h].found].room = job[h].room
     /\ \A g \in gifts : g.id = job[h].key => job[h].found \notin g.before

Apart == WallsDrawn /\ KeysApart /\ GiftsDrawn /\ FoundFits /\ WallsDoNotLeak

\* At first no gift is given and no wall is there.
LEMMA ApartInit == PartyInit => Apart
  BY DEF PartyInit, HandlersInit, BattlesInit, WallsInit, Idle, Apart, WallsDrawn, KeysApart, GiftsDrawn,
     FoundFits, WallsDoNotLeak

\* A job is over, left alone, or gone on without paying or finding a wall.
Eased(i) ==
  \/ job'[i] = job[i]
  \/ job'[i].op \notin {"gift", "close"}
  \/ /\ job[i].op = "gift" /\ job'[i].op = "gift"
     /\ job'[i].key = job[i].key /\ job'[i].room = job[i].room
     /\ job'[i].at \notin {"pay", "contribute"}

AllEased == \A i \in Handlers : Eased(i)

\* A wall that is there stays, in its room, and closed once it is.
WallsGrow ==
  \A w \in WallIds : walls[w].status # "none" =>
     /\ walls'[w].status # "none" /\ walls'[w].room = walls[w].room
     /\ walls[w].status = "closed" => walls'[w].status = "closed"

WallRowsDrawn == \A w \in WallIds : walls[w].status # "none" => w \in issued /\ WallThere(w)

\* A handler that is done eases its job.
LEMMA EasedFinish ==
  ASSUME JobsTyped, NEW h \in Handlers, job' = [job EXCEPT ![h] = Idle]
  PROVE  AllEased
  BY DEF AllEased, Eased, Idle, JobsTyped

\* A gift that goes on to another step than the two that count eases its job.
LEMMA EasedOnward ==
  ASSUME JobsTyped, NEW h \in Handlers, job[h].op = "gift",
         NEW at \in GiftAt \ {"pay", "contribute"}, job' = [job EXCEPT ![h].at = at]
  PROVE  AllEased
<1>1. job[h] \in GiftJob BY GiftJobs
<1>2. /\ job'[h].op = "gift" /\ job'[h].key = job[h].key
      /\ job'[h].room = job[h].room /\ job'[h].at = at
  BY <1>1 DEF GiftJob, JobsTyped
<1> QED BY <1>2 DEF AllEased, Eased, JobsTyped

\* So does one that goes on with what it found.
LEMMA EasedRemembered ==
  ASSUME JobsTyped, NEW h \in Handlers, job[h].op = "gift",
         NEW at \in GiftAt \ {"pay", "contribute"}, NEW x,
         job' = [job EXCEPT ![h].found = x, ![h].at = at]
  PROVE  AllEased
<1>1. job[h] \in GiftJob BY GiftJobs
<1>2. /\ job'[h].op = "gift" /\ job'[h].key = job[h].key
      /\ job'[h].room = job[h].room /\ job'[h].at = at
  BY <1>1 DEF GiftJob, JobsTyped
<1> QED BY <1>2 DEF AllEased, Eased, JobsTyped

\* A request that is no gift and closes nothing eases its handler's job.
LEMMA EasedTaken ==
  ASSUME JobsTyped, NEW h \in Handlers, NEW j \in AnswerJob \cup EndJob \cup UnpairJob,
         Accept(h, j)
  PROVE  AllEased
<1>1. j.op \notin {"gift", "close"} BY DEF AnswerJob, EndJob, UnpairJob
<1> QED BY <1>1 DEF Accept, AllEased, Eased, JobsTyped

\* Eased jobs and growing walls disturb nothing.
LEMMA EasedKeeps ==
  ASSUME Typed, Apart, AllEased, WallsGrow, WallRowsDrawn', issued \subseteq issued',
         UNCHANGED <<gifts, wallOf>>
  PROVE  Apart'
<1>1. WallsDrawn'
 <2>1. ASSUME NEW h \in Handlers, job'[h].op = "close"
       PROVE  walls'[job'[h].key].status # "none"
  <3>1. job'[h] = job[h] BY <2>1 DEF AllEased, Eased
  <3>2. job[h].key \in WallIds BY <2>1, <3>1, CloseJobs DEF CloseJob, Typed
  <3> QED BY <2>1, <3>1, <3>2 DEF Apart, WallsDrawn, WallsGrow
 <2> QED BY <2>1 DEF WallsDrawn, WallRowsDrawn
<1>2. KeysApart'
 <2>1. ASSUME NEW h \in Handlers, job'[h].op = "gift"
       PROVE  /\ job[h].op = "gift" /\ job'[h].key = job[h].key /\ job'[h].room = job[h].room
              /\ job'[h].at = "pay" => job[h].at = "pay"
   BY <2>1 DEF AllEased, Eased
 <2>2. ASSUME NEW h \in Handlers, job'[h].op = "gift"
       PROVE  \A g \in gifts : g.id = job[h].key => job'[h].at # "pay"
   BY <2>1, <2>2 DEF Apart, KeysApart
 <2> QED BY <2>1, <2>2 DEF Apart, KeysApart
<1>3. GiftsDrawn' BY DEF Apart, GiftsDrawn, WallsGrow, Closed, Typed
<1>4. FoundFits'
 <2>1. ASSUME NEW h \in Handlers, job'[h].op = "gift", job'[h].at = "contribute"
       PROVE  job'[h] = job[h] /\ job[h].found \in WallIds
  <3>1. job'[h] = job[h] BY <2>1 DEF AllEased, Eased
  <3> QED BY <2>1, <3>1 DEF Typed, JobsTyped, FoundTyped
 <2> QED BY <2>1 DEF Apart, FoundFits, WallsGrow
<1>5. WallsDoNotLeak'
 <2>1. ASSUME NEW g \in gifts, wallOf[g.id] # NoWall
       PROVE  walls'[wallOf[g.id]].room = walls[wallOf[g.id]].room
  <3>1. g.id \in GiftIds BY <2>1 DEF Typed, GiftRow
  <3>2. wallOf[g.id] \in WallIds /\ walls[wallOf[g.id]].status # "none"
    BY <2>1, <3>1 DEF Typed, Apart, GiftsDrawn
  <3> QED BY <3>2 DEF WallsGrow
 <2> QED BY <2>1 DEF Apart, WallsDoNotLeak
<1> QED BY <1>1, <1>2, <1>3, <1>4, <1>5 DEF Apart

\* A step that eases the jobs and touches no wall and no gift keeps gifts apart.
LEMMA QuietKeeps ==
  ASSUME Typed, Apart, AllEased, UNCHANGED <<walls, gifts, wallOf>>, issued \subseteq issued'
  PROVE  Apart'
<1>1. WallsGrow /\ WallRowsDrawn' BY DEF WallsGrow, WallRowsDrawn, WallThere, Apart, WallsDrawn
<1> QED BY <1>1, EasedKeeps

\* A new gift has a key nobody used, and counts nowhere yet.
LEMMA GivingKeeps ==
  ASSUME Typed, Apart, NEW h \in Handlers, NEW a \in Accounts, NEW b \in Accounts,
         NEW r \in Rooms, NEW coins \in Costs, StartGift(h, a, b, r, coins)
  PROVE  Apart'
<1>1. PICK k \in GiftIds \ issued :
        /\ Accept(h, [op |-> "gift", at |-> "pay", key |-> k, from |-> a, to |-> b,
                      room |-> r, coins |-> coins, found |-> NoWall])
        /\ issued' = issued \cup {k}
  BY DEF StartGift
<1>2. UNCHANGED <<walls, wallOf, gifts>> BY DEF StartGift, wallVars, giftVars
<1>3. /\ job'[h].op = "gift" /\ job'[h].key = k /\ job'[h].at = "pay"
      /\ \A i \in Handlers \ {h} : job'[i] = job[i]
  BY <1>1 DEF Accept, Typed, JobsTyped
<1>4. WallsDrawn' BY <1>1, <1>2, <1>3 DEF Apart, WallsDrawn, WallThere
<1>5. KeysApart'
 <2>1. \A i \in Handlers : job[i].op = "gift" => job[i].key # k BY <1>1 DEF Apart, KeysApart
 <2>2. \A g \in gifts : g.id # k BY <1>1 DEF Apart, GiftsDrawn
 <2>3. wallOf[k] = NoWall BY <1>1 DEF Apart, GiftsDrawn
 <2> QED BY <1>1, <1>2, <1>3, <2>1, <2>2, <2>3 DEF Apart, KeysApart
<1>6. GiftsDrawn' BY <1>1, <1>2 DEF Apart, GiftsDrawn, Closed
<1>7. FoundFits' BY <1>2, <1>3 DEF Apart, FoundFits
<1>8. WallsDoNotLeak' BY <1>2 DEF Apart, WallsDoNotLeak
<1> QED BY <1>4, <1>5, <1>6, <1>7, <1>8 DEF Apart

\* A gift is logged with the walls that were closed when it was paid for.
LEMMA PayKeeps ==
  ASSUME Typed, Apart, NEW h \in Handlers, Pay(h)
  PROVE  Apart'
<1>1. job[h].op = "gift" /\ job[h] \in GiftJob /\ job[h].at = "pay" BY GiftJobs DEF Pay, Doing, Typed
<1>2. UNCHANGED <<issued, walls, wallOf>> BY DEF Pay, Goto, Finish, wallVars
<1>3. AllEased
 <2>1. CASE Goto(h, "xpSender") BY <1>1, <2>1, EasedOnward DEF Goto, GiftAt, Typed
 <2>2. CASE Finish(h) BY <2>2, EasedFinish DEF Finish, Typed
 <2> QED BY <2>1, <2>2 DEF Pay
<1>4. CASE gifts' = gifts BY <1>2, <1>3, <1>4, QuietKeeps
<1>5. CASE gifts' # gifts
 <2> DEFINE new == [id |-> job[h].key, from |-> job[h].from, to |-> job[h].to,
                    room |-> job[h].room, coins |-> job[h].coins, before |-> Closed]
 <2>1. gifts' = gifts \cup {new} /\ Goto(h, "xpSender") BY <1>5 DEF Pay
 <2>2. /\ new.id = job[h].key /\ new.room = job[h].room /\ new.before = Closed
       /\ job[h].key \in GiftIds /\ job[h].key \in issued /\ wallOf[job[h].key] = NoWall
   BY <1>1 DEF GiftJob, Apart, KeysApart
 <2> HIDE DEF new
 <2>3. /\ job'[h].op = "gift" /\ job'[h].key = job[h].key /\ job'[h].room = job[h].room
       /\ job'[h].at = "xpSender" /\ \A i \in Handlers \ {h} : job'[i] = job[i]
   BY <1>1, <2>1 DEF Goto, GiftJob, Typed, JobsTyped
 <2>4. WallsDrawn' BY <1>2, <2>3 DEF Apart, WallsDrawn, WallThere
 <2>5. KeysApart'
  <3>1. ASSUME NEW i \in Handlers, job'[i].op = "gift"
        PROVE  /\ job[i].op = "gift" /\ job'[i].key = job[i].key /\ job'[i].room = job[i].room
               /\ job'[i].at = "pay" => i # h /\ job[i].at = "pay"
    BY <1>1, <2>3, <3>1
  <3>2. ASSUME NEW i \in Handlers, job'[i].op = "gift", NEW g \in gifts', g.id = job[i].key
        PROVE  job'[i].at # "pay" /\ g.room = job[i].room
   <4>1. CASE g = new
    <5>1. i = h BY <1>1, <2>2, <3>1, <3>2, <4>1 DEF Apart, KeysApart
    <5> QED BY <2>2, <2>3, <4>1, <5>1
   <4>2. CASE g \in gifts BY <3>1, <3>2, <4>2 DEF Apart, KeysApart
   <4> QED BY <2>1, <4>1, <4>2
  <3> QED BY <1>2, <3>1, <3>2 DEF Apart, KeysApart
 <2>6. GiftsDrawn' BY <1>2, <2>1, <2>2 DEF Apart, GiftsDrawn, Closed
 <2>7. FoundFits'
  <3>1. ASSUME NEW i \in Handlers, job'[i].op = "gift", job'[i].at = "contribute"
        PROVE  job'[i] = job[i] /\ job[i].key # new.id
   <4>1. i # h /\ job'[i] = job[i] BY <2>3, <3>1
   <4> QED BY <1>1, <2>2, <3>1, <4>1 DEF Apart, KeysApart
  <3> QED BY <1>2, <2>1, <3>1 DEF Apart, FoundFits
 <2>8. WallsDoNotLeak' BY <1>2, <2>1, <2>2 DEF Apart, WallsDoNotLeak
 <2> QED BY <2>4, <2>5, <2>6, <2>7, <2>8 DEF Apart
<1> QED BY <1>4, <1>5

\* A wall that is opened has an id nobody used, so no gift counts in it.
LEMMA OpenKeeps ==
  ASSUME Typed, Apart, NEW h \in Handlers, OpenRoomWall(h)
  PROVE  Apart'
<1>1. job[h].op = "gift" /\ job[h].room \in Rooms BY GiftJobs DEF OpenRoomWall, Doing, Typed, GiftJob
<1>2. AllEased BY <1>1, EasedOnward DEF OpenRoomWall, GiftAt, Typed
<1>3. UNCHANGED <<gifts, wallOf>> BY DEF OpenRoomWall, Paid, giftVars
<1>4. CASE UNCHANGED <<walls, issued>> BY <1>2, <1>3, <1>4, QuietKeeps
<1>5. ASSUME NEW w \in WallIds \ issued,
             walls' = [walls EXCEPT ![w] = [status |-> "active", room |-> job[h].room]],
             issued' = issued \cup {w}
      PROVE  Apart'
 <2>1. walls[w].status = "none" BY <1>5 DEF Apart, WallsDrawn
 <2>2. WallsGrow BY <1>5, <2>1 DEF WallsGrow, Typed
 <2>3. WallRowsDrawn' BY <1>1, <1>5 DEF WallRowsDrawn, WallThere, Apart, WallsDrawn, Typed
 <2> QED BY <1>2, <1>3, <1>5, <2>2, <2>3, EasedKeeps
<1> QED BY <1>4, <1>5 DEF OpenRoomWall, OpenWall

\* A wall that is found active in the gift's room was not closed before the gift.
LEMMA FindKeeps ==
  ASSUME Typed, Apart, NEW h \in Handlers, FindWall(h)
  PROVE  Apart'
<1>1. job[h].op = "gift" /\ job[h] \in GiftJob BY GiftJobs DEF FindWall, Doing, Typed
<1>2. UNCHANGED <<issued, gifts, walls, wallOf>> BY DEF FindWall, Break, Remember, Paid, wallVars, giftVars
<1>3. CASE Break(h) BY <1>2, <1>3, EasedFinish, QuietKeeps DEF Break, Typed
<1>4. ASSUME NEW w \in ActiveIn(job[h].room), Remember(h, w, "contribute")
      PROVE  Apart'
 <2>1. /\ job'[h].op = "gift" /\ job'[h].key = job[h].key /\ job'[h].room = job[h].room
       /\ job'[h].at = "contribute" /\ job'[h].found = w
       /\ \A i \in Handlers \ {h} : job'[i] = job[i]
   BY <1>1, <1>4 DEF Remember, GiftJob, Typed, JobsTyped
 <2>2. w \in WallIds /\ walls[w].status = "active" /\ walls[w].room = job[h].room BY <1>4 DEF ActiveIn
 <2>3. WallsDrawn' BY <1>2, <2>1 DEF Apart, WallsDrawn, WallThere
 <2>4. KeysApart'
  <3>1. ASSUME NEW i \in Handlers, job'[i].op = "gift"
        PROVE  /\ job[i].op = "gift" /\ job'[i].key = job[i].key /\ job'[i].room = job[i].room
               /\ job'[i].at = "pay" => job[i].at = "pay"
    BY <1>1, <2>1, <3>1
  <3>2. ASSUME NEW i \in Handlers, job'[i].op = "gift"
        PROVE  \A g \in gifts : g.id = job[i].key => job'[i].at # "pay"
    BY <3>1, <3>2 DEF Apart, KeysApart
  <3> QED BY <1>2, <3>1, <3>2 DEF Apart, KeysApart
 <2>5. GiftsDrawn' BY <1>2 DEF Apart, GiftsDrawn, Closed
 <2>6. FoundFits'
  <3>1. \A g \in gifts : w \notin g.before BY <2>2 DEF Apart, GiftsDrawn, Closed
  <3> QED BY <1>2, <2>1, <2>2, <3>1 DEF Apart, FoundFits
 <2>7. WallsDoNotLeak' BY <1>2 DEF Apart, WallsDoNotLeak
 <2> QED BY <2>3, <2>4, <2>5, <2>6, <2>7 DEF Apart
<1> QED BY <1>3, <1>4 DEF FindWall

\* The wall a gift adds to is the one it found.
LEMMA ContributeKeeps ==
  ASSUME Typed, Apart, NEW h \in Handlers, ContributeToWall(h)
  PROVE  Apart'
<1>1. /\ job[h].op = "gift" /\ job[h] \in GiftJob /\ job[h].at = "contribute"
      /\ job[h].found \in WallIds
  BY GiftJobs DEF ContributeToWall, Doing, Typed, JobsTyped, FoundTyped
<1>2. UNCHANGED <<issued, gifts, walls>> BY DEF ContributeToWall, Contribute, Goto, Paid, giftVars
<1>3. AllEased BY <1>1, EasedOnward DEF ContributeToWall, Goto, GiftAt, Typed
<1>4. CASE wallOf' = wallOf BY <1>2, <1>3, <1>4, QuietKeeps
<1>5. CASE wallOf' # wallOf
 <2> DEFINE w == job[h].found
            k == job[h].key
 <2>1. wallOf' = [wallOf EXCEPT ![k] = w] /\ k \in GiftIds /\ k \in issued
   BY <1>1, <1>5 DEF ContributeToWall, Contribute, GiftJob, Apart, KeysApart
 <2>2. /\ walls[w].status # "none"
       /\ \A g \in gifts : g.id = k => walls[w].room = g.room /\ w \notin g.before
   BY <1>1 DEF Apart, FoundFits, KeysApart
 <2>3. /\ job'[h].op = "gift" /\ job'[h].key = k /\ job'[h].room = job[h].room
       /\ job'[h].at = "battle" /\ \A i \in Handlers \ {h} : job'[i] = job[i]
   BY <1>1 DEF ContributeToWall, Goto, GiftJob, Typed, JobsTyped
 <2> HIDE DEF w, k
 <2>4. WallsDrawn' BY <1>2, <2>3 DEF Apart, WallsDrawn, WallThere
 <2>5. KeysApart'
  <3>1. ASSUME NEW i \in Handlers, job'[i].op = "gift"
        PROVE  /\ job[i].op = "gift" /\ job'[i].key = job[i].key /\ job'[i].room = job[i].room
               /\ job'[i].at = "pay" => i # h /\ job[i].at = "pay"
    BY <1>1, <2>3, <3>1 DEF k
  <3>2. ASSUME NEW i \in Handlers, job'[i].op = "gift"
        PROVE  \A g \in gifts : g.id = job[i].key => job'[i].at # "pay"
    BY <3>1, <3>2 DEF Apart, KeysApart
  <3>3. ASSUME NEW i \in Handlers, job'[i].op = "gift", job'[i].at = "pay"
        PROVE  wallOf'[job'[i].key] = NoWall
   <4>1. job[i].key # k /\ job[i] \in GiftJob /\ wallOf[job[i].key] = NoWall
     BY <1>1, <3>1, <3>3, GiftJobs DEF Apart, KeysApart, Typed, k
   <4> QED BY <2>1, <3>1, <3>3, <4>1 DEF GiftJob, Typed
  <3> QED BY <1>2, <3>1, <3>2, <3>3 DEF Apart, KeysApart
 <2>6. GiftsDrawn' BY <1>2, <2>1, <2>2 DEF Apart, GiftsDrawn, Closed, Typed
 <2>7. FoundFits' BY <1>2, <2>3 DEF Apart, FoundFits
 <2>8. WallsDoNotLeak'
  <3>1. ASSUME NEW g \in gifts, wallOf'[g.id] # NoWall
        PROVE  walls[wallOf'[g.id]].room = g.room /\ wallOf'[g.id] \notin g.before
   <4>1. g.id \in GiftIds BY <3>1 DEF Typed, GiftRow
   <4>2. CASE g.id = k BY <2>1, <2>2, <4>1, <4>2 DEF Typed
   <4>3. CASE g.id # k BY <2>1, <3>1, <4>1, <4>3 DEF Typed, Apart, WallsDoNotLeak
   <4> QED BY <4>2, <4>3
  <3> QED BY <1>2, <3>1 DEF WallsDoNotLeak
 <2> QED BY <2>4, <2>5, <2>6, <2>7, <2>8 DEF Apart
<1> QED BY <1>4, <1>5

\* Closing a wall takes it out of no gift's past.
LEMMA ClosingKeeps ==
  ASSUME Typed, Apart, Closing
  PROVE  Apart'
<1>1. gifts' = gifts BY DEF Closing, giftVars
<1>2. ASSUME NEW h \in Handlers, NEW r \in Rooms, StartClose(h, r)
      PROVE  Apart'
 <2>1. PICK w \in ActiveIn(r) : Accept(h, [op |-> "close", at |-> "update", key |-> w])
   BY <1>2 DEF StartClose
 <2>2. UNCHANGED <<issued, walls, wallOf>> BY <1>2 DEF StartClose, wallVars
 <2>3. /\ job'[h].op = "close" /\ job'[h].key = w
       /\ \A i \in Handlers \ {h} : job'[i] = job[i]
   BY <2>1 DEF Accept, Typed, JobsTyped
 <2>4. walls[w].status # "none" BY DEF ActiveIn
 <2>5. WallsDrawn' BY <2>2, <2>3, <2>4 DEF Apart, WallsDrawn, WallThere
 <2>6. KeysApart' BY <1>1, <2>2, <2>3 DEF Apart, KeysApart
 <2>7. GiftsDrawn' BY <1>1, <2>2 DEF Apart, GiftsDrawn, Closed
 <2>8. FoundFits' BY <1>1, <2>2, <2>3 DEF Apart, FoundFits
 <2>9. WallsDoNotLeak' BY <1>1, <2>2 DEF Apart, WallsDoNotLeak
 <2> QED BY <2>5, <2>6, <2>7, <2>8, <2>9 DEF Apart
<1>3. ASSUME NEW h \in Handlers, CloseWall(h)
      PROVE  Apart'
 <2>1. job[h].op = "close" /\ job[h].key \in WallIds
   BY <1>3, CloseJobs DEF CloseWall, Doing, Typed, CloseJob
 <2> DEFINE w == job[h].key
 <2>2. WallThere(w) /\ w \in issued BY <2>1 DEF Apart, WallsDrawn
 <2>3. /\ walls' = [walls EXCEPT ![w].status = "closed"]
       /\ Finish(h) /\ wallOf' = wallOf
   BY <1>3 DEF CloseWall
 <2>4. /\ walls'[w] \in [status : {"active", "closed"}, room : Rooms]
       /\ walls'[w].status = "closed" /\ walls'[w].room = walls[w].room
       /\ \A x \in WallIds \ {w} : walls'[x] = walls[x]
   BY <2>1, <2>2, <2>3 DEF WallThere, Typed
 <2> HIDE DEF w
 <2>5. WallsGrow BY <2>4 DEF WallsGrow
 <2>6. WallRowsDrawn' BY <2>2, <2>3, <2>4 DEF WallRowsDrawn, WallThere, Apart, WallsDrawn, Finish
 <2> QED BY <1>1, <2>3, <2>5, <2>6, EasedFinish, EasedKeeps DEF Finish, Typed
<1> QED BY <1>2, <1>3 DEF Closing

\* Every other step leaves the walls and the gifts alone.
LEMMA OthersKeep ==
  ASSUME Typed, Apart,
         \/ \E h \in Handlers :
              \/ XpSender(h) \/ XpReceiver(h) \/ FindCouple(h) \/ CoupleGains(h)
              \/ NotifyReceiver(h) \/ FindBattle(h) \/ EndExpired(h) \/ Score(h)
         \/ Battling \/ Parting \/ Elsewhere \/ UNCHANGED partyVars
  PROVE  Apart'
<1>1. ASSUME NEW h \in Handlers,
             \/ XpSender(h) \/ XpReceiver(h) \/ FindCouple(h) \/ CoupleGains(h)
             \/ NotifyReceiver(h) \/ FindBattle(h) \/ EndExpired(h) \/ Score(h)
      PROVE  Apart'
 <2>1. job[h].op = "gift" /\ UNCHANGED <<issued, walls, wallOf, gifts>>
  <3>1. CASE XpSender(h) \/ XpReceiver(h) BY <3>1 DEF XpSender, XpReceiver, AddXp, Doing, Goto, wallVars
  <3>2. CASE FindCouple(h) BY <3>2 DEF FindCouple, Doing, Goto, Remember, Paid, giftVars, wallVars
  <3>3. CASE CoupleGains(h) \/ NotifyReceiver(h)
    BY <3>3 DEF CoupleGains, NotifyReceiver, Doing, Goto, Paid, giftVars, wallVars
  <3>4. CASE FindBattle(h) BY <3>4 DEF FindBattle, Doing, Finish, Remember, Paid, giftVars, wallVars
  <3>5. CASE EndExpired(h) \/ Score(h)
    BY <3>5 DEF EndExpired, Score, Doing, Finish, Paid, giftVars, wallVars
  <3> QED BY <1>1, <3>1, <3>2, <3>3, <3>4, <3>5
 <2>2. AllEased
  <3>1. CASE XpSender(h) \/ XpReceiver(h) \/ CoupleGains(h) \/ NotifyReceiver(h)
   <4>1. PICK at \in {"xpReceiver", "couple", "notify", "openWall"} :
           job' = [job EXCEPT ![h].at = at]
     BY <3>1 DEF XpSender, XpReceiver, AddXp, CoupleGains, NotifyReceiver, Goto
   <4> QED BY <2>1, <4>1, EasedOnward DEF Typed, GiftAt
  <3>2. CASE FindCouple(h)
   <4>1. CASE Goto(h, "notify") BY <2>1, <4>1, EasedOnward DEF Goto, Typed, GiftAt
   <4>2. ASSUME NEW c, Remember(h, c, "cp")
         PROVE  AllEased
     BY <2>1, <4>2, EasedRemembered DEF Remember, Typed, GiftAt
   <4> QED BY <3>2, <4>1, <4>2 DEF FindCouple
  <3>3. CASE FindBattle(h)
   <4>1. CASE Finish(h) BY <4>1, EasedFinish DEF Finish, Typed
   <4>2. ASSUME NEW b, NEW at \in {"end", "score"}, Remember(h, b, at)
         PROVE  AllEased
     BY <2>1, <4>2, EasedRemembered DEF Remember, Typed, GiftAt
   <4> QED BY <3>3, <4>1, <4>2 DEF FindBattle
  <3>4. CASE EndExpired(h) \/ Score(h) BY <3>4, EasedFinish DEF EndExpired, Score, Finish, Typed
  <3> QED BY <1>1, <3>1, <3>2, <3>3, <3>4
 <2> QED BY <2>1, <2>2, QuietKeeps
<1>2. CASE Battling
 <2>1. UNCHANGED <<walls, wallOf, gifts>> BY <1>2 DEF Battling, wallVars, giftVars
 <2>2. ASSUME NEW r \in Rooms, NEW a \in Accounts, Challenge(r, a)
       PROVE  AllEased /\ issued \subseteq issued'
   BY <2>2 DEF Challenge, AllEased, Eased
 <2>3. ASSUME NEW h \in Handlers, NEW b \in BattleIds,
              NEW answer \in {"active", "declined", "cancelled"}, StartAnswer(h, b, answer)
       PROVE  AllEased /\ issued \subseteq issued'
  <3>1. [op |-> "answer", at |-> "update", key |-> b, answer |-> answer] \in AnswerJob BY DEF AnswerJob
  <3>2. AllEased BY <2>3, <3>1, EasedTaken DEF StartAnswer, Typed
  <3> QED BY <2>3, <3>2 DEF StartAnswer
 <2>4. ASSUME NEW h \in Handlers, NEW b \in BattleIds, StartEnd(h, b)
       PROVE  AllEased /\ issued \subseteq issued'
  <3>1. [op |-> "end", at |-> "update", key |-> b] \in EndJob BY DEF EndJob
  <3>2. AllEased BY <2>4, <3>1, EasedTaken DEF StartEnd, Typed
  <3> QED BY <2>4, <3>2 DEF StartEnd
 <2>5. ASSUME NEW h \in Handlers, BattleStep(h)
       PROVE  AllEased /\ issued \subseteq issued'
   BY <2>5, EasedFinish DEF BattleStep, Answer, EndBattle, Finish, Typed
 <2> QED BY <1>2, <2>1, <2>2, <2>3, <2>4, <2>5, QuietKeeps DEF Battling, BattleRequest
<1>3. CASE Parting
 <2>1. UNCHANGED <<walls, wallOf, gifts>> BY <1>3 DEF Parting, wallVars, giftVars
 <2>2. ASSUME NEW h \in Handlers, NEW c \in CoupleIds, StartUnpair(h, c)
       PROVE  AllEased /\ issued' = issued
  <3>1. [op |-> "unpair", at |-> "end", key |-> c] \in UnpairJob BY DEF UnpairJob
  <3> QED BY <2>2, <3>1, EasedTaken DEF StartUnpair, Typed
 <2>3. ASSUME NEW h \in Handlers, EndCouple(h)
       PROVE  AllEased /\ issued' = issued
   BY <2>3, EasedFinish DEF EndCouple, Finish, Typed
 <2> QED BY <1>3, <2>1, <2>2, <2>3, QuietKeeps DEF Parting, UnpairRequest, UnpairStep
<1>4. CASE Elsewhere
 <2>1. UNCHANGED <<walls, wallOf, gifts>> /\ issued' = issued
   BY <1>4 DEF Elsewhere, Tick, Interrupted, Break, wallVars, giftVars
 <2>2. ASSUME Tick
       PROVE  AllEased
   BY <2>2 DEF Tick, AllEased, Eased
 <2>3. ASSUME NEW h \in Handlers, Interrupted(h)
       PROVE  AllEased
   BY <2>3, EasedFinish DEF Interrupted, Break, Typed
 <2>4. AllEased BY <1>4, <2>2, <2>3 DEF Elsewhere
 <2> QED BY <2>1, <2>4, QuietKeeps
<1>5. CASE UNCHANGED partyVars
 <2>1. UNCHANGED <<job, issued, walls, wallOf, gifts>>
   BY <1>5 DEF partyVars, handlerVars, wallVars, giftVars
 <2>2. AllEased BY <2>1 DEF AllEased, Eased
 <2> QED BY <2>1, <2>2, QuietKeeps
<1> QED BY <1>1, <1>2, <1>3, <1>4, <1>5

\* Every step keeps gifts apart.
LEMMA ApartKept ==
  ASSUME Typed, Apart, [PartyNext]_partyVars
  PROVE  Apart'
<1>1. CASE Giving
 <2>1. ASSUME NEW h \in Handlers, GiftStep(h)
       PROVE  Apart'
  <3>1. CASE Pay(h) \/ OpenRoomWall(h) \/ FindWall(h) \/ ContributeToWall(h)
    BY <3>1, PayKeeps, OpenKeeps, FindKeeps, ContributeKeeps
  <3>2. CASE \/ XpSender(h) \/ XpReceiver(h) \/ FindCouple(h) \/ CoupleGains(h)
             \/ NotifyReceiver(h) \/ FindBattle(h) \/ EndExpired(h) \/ Score(h)
    BY <3>2, OthersKeep
  <3> QED BY <2>1, <3>1, <3>2 DEF GiftStep
 <2> QED BY <1>1, <2>1, GivingKeeps DEF Giving
<1>2. CASE Closing BY <1>2, ClosingKeeps
<1>3. CASE Battling \/ Parting \/ Elsewhere \/ UNCHANGED partyVars BY <1>3, OthersKeep
<1> QED BY <1>1, <1>2, <1>3 DEF PartyNext

\* A gift counts in a wall of its own room, and in none that was closed before
\* it was paid for.
THEOREM BroadcastsApart == PartySpec => []WallsDoNotLeak
<1>1. Apart => WallsDoNotLeak BY DEF Apart
<1> QED BY <1>1, TypedInit, ApartInit, Step, ApartKept, PTL DEF PartySpec
-----------------------------
\* The tables that hold numbers, and the ids given out.
CoupleThere(c) ==
  /\ couples[c] = [field \in DOMAIN couples[c] |-> couples[c][field]]
  /\ "status" \in DOMAIN couples[c] /\ couples[c].status \in {"none", "active", "ended"}

Numbers ==
  /\ balance \in [Accounts -> [Currencies -> Nat]]
  /\ given \in [WallIds -> [Accounts -> Nat]]
  /\ xp \in [Accounts -> Nat]
  /\ issued \cup dropped \subseteq Ids
  /\ couples = [c \in CoupleIds |-> couples[c]]
  /\ \A c \in CoupleIds : CoupleThere(c)

\* The seeded tables hold natural numbers.
LEMMA NumbersInit == PartyInit => Numbers
<1> SUFFICES ASSUME PartyInit
             PROVE  Numbers
  OBVIOUS
<1>1. balance \in [Accounts -> [Currencies -> Nat]]
 <2>1. ASSUME NEW a \in Accounts
       PROVE  Seed[a] \in Nat
  <3>1. Seed[a] \in Amounts \/ Seed[a] = 0 BY SeedKnown
  <3>2. Amounts \subseteq Nat /\ 0 \in Nat BY AmountsPositive
  <3> QED BY <3>1, <3>2
 <2>2. balance = [a \in Accounts |-> [cur \in Currencies |-> Seed[a]]] BY DEF PartyInit, SeededLedger
 <2> QED BY <2>1, <2>2
<1>2. given \in [WallIds -> [Accounts -> Nat]] /\ xp \in [Accounts -> Nat] BY DEF PartyInit, WallsInit
<1>3. issued \cup dropped \subseteq Ids BY SeedCouplesKnown, CoupleIdsKnown DEF PartyInit, HandlersInit
<1>4. couples = [c \in CoupleIds |-> couples[c]] BY DEF PartyInit
<1>5. ASSUME NEW c \in CoupleIds
      PROVE  CoupleThere(c)
 <2>1. couples[c] \in {NoCouple, [status |-> "active", cp |-> 0, level |-> 0,
                                 first |-> CoupleSeed[c][1], second |-> CoupleSeed[c][2]]}
   BY DEF PartyInit
 <2> QED BY <2>1 DEF CoupleThere, NoCouple
<1> QED BY <1>1, <1>2, <1>3, <1>4, <1>5 DEF Numbers

\* A settled transaction leaves balances natural.
LEMMA SettleTyped ==
  ASSUME balance \in [Accounts -> [Currencies -> Nat]], NEW r, r.account \in Accounts,
         r.amount \in Nat, r.direction \in Directions, Settle(r)
  PROVE  balance' \in [Accounts -> [Currencies -> Nat]]
<1>1. CASE UNCHANGED ledgerVars BY <1>1 DEF ledgerVars
<1>2. CASE Apply(r)
 <2>1. CASE r.currency \in Currencies
  <3>1. balance[r.account][r.currency] + Delta(r) \in Nat
    BY <1>2, <2>1 DEF Apply, Affordable, Delta, Directions
  <3> QED BY <1>2, <3>1 DEF Apply
 <2>2. CASE r.currency \notin Currencies BY <1>2, <2>2 DEF Apply
 <2> QED BY <2>1, <2>2
<1> QED BY <1>1, <1>2 DEF Settle

\* A step that touches none of the numbers keeps them.
LEMMA NumbersStill ==
  ASSUME Numbers, UNCHANGED <<balance, given, xp, couples>>, (issued \cup dropped)' \subseteq Ids
  PROVE  Numbers'
  BY DEF Numbers, CoupleThere

\* Ids of requests are ids.
LEMMA KeysAreIds ==
  ASSUME Typed, NEW h \in Handlers, job[h] # Idle
  PROVE  job[h].key \in Ids
<1>1. job[h] \in GiftJob \cup AnswerJob \cup EndJob \cup CloseJob \cup UnpairJob
  BY DEF Typed, JobsTyped, Jobs
<1>2. job[h].key \in GiftIds \cup BattleIds \cup WallIds \cup CoupleIds
  BY <1>1 DEF GiftJob, AnswerJob, EndJob, CloseJob, UnpairJob
<1> QED BY <1>2, GiftsAreKeys, BattlesAreIds, WallsAreIds, CoupleIdsKnown

\* Setting another field of a row keeps its status.
LEMMA FieldSet ==
  ASSUME NEW row, row = [f \in DOMAIN row |-> row[f]], "status" \in DOMAIN row,
         NEW field, field # "status", NEW x
  PROVE  LET new == [row EXCEPT ![field] = x]
         IN /\ new = [f \in DOMAIN new |-> new[f]]
            /\ "status" \in DOMAIN new /\ new["status"] = row["status"]
  OBVIOUS

\* Each statement of a gift keeps the numbers.
LEMMA NumbersGift ==
  ASSUME Typed, Numbers, NEW h \in Handlers, GiftStep(h)
  PROVE  Numbers'
<1>1. job[h].op = "gift" /\ job[h] \in GiftJob /\ job[h].coins \in Nat
 <2>1. job[h].op = "gift"
   BY DEF GiftStep, Pay, XpSender, XpReceiver, FindCouple, CoupleGains, NotifyReceiver, OpenRoomWall,
      FindWall, ContributeToWall, FindBattle, EndExpired, Score, Doing
 <2> QED BY <2>1, GiftJobs, CostsNat DEF Typed, GiftJob
<1>2. CASE Pay(h)
 <2>1. UNCHANGED <<given, xp, couples, issued, dropped>> BY <1>2 DEF Pay, Goto, Finish, wallVars, coupleVars
 <2>2. GiftDebit(h).account \in Accounts /\ GiftDebit(h).amount \in Nat
         /\ GiftDebit(h).direction \in Directions
   BY <1>1 DEF GiftDebit, GiftJob, Directions
 <2>3. balance' \in [Accounts -> [Currencies -> Nat]] BY <1>2, <2>2, SettleTyped DEF Pay, Numbers
 <2> QED BY <2>1, <2>3 DEF Numbers, CoupleThere
<1>3. CASE XpSender(h) \/ XpReceiver(h)
 <2>1. UNCHANGED <<balance, given, couples, issued, dropped>>
   BY <1>3 DEF XpSender, XpReceiver, AddXp, Goto, ledgerVars, wallVars, coupleVars
 <2>2. xp' \in [Accounts -> Nat] BY <1>1, <1>3 DEF XpSender, XpReceiver, AddXp, Numbers, GiftJob
 <2> QED BY <2>1, <2>2 DEF Numbers, CoupleThere
<1>4. CASE CoupleGains(h)
 <2>1. UNCHANGED <<balance, given, xp, issued, dropped>>
   BY <1>4 DEF CoupleGains, Goto, Paid, ledgerVars, giftVars, wallVars
 <2>2. PICK c, cp, level :
         couples' = [couples EXCEPT ![c].cp = cp, ![c].level = level]
   BY <1>4 DEF CoupleGains, AddCp
 <2>3. couples' = [x \in CoupleIds |-> couples'[x]] BY <2>2 DEF Numbers
 <2>4. ASSUME NEW x \in CoupleIds
       PROVE  CoupleThere(x)'
  <3>1. CASE x # c BY <2>2, <3>1 DEF Numbers, CoupleThere
  <3>2. CASE x = c
   <4> DEFINE row == [couples[x] EXCEPT !["cp"] = cp]
   <4>1. couples'[x] = [row EXCEPT !["level"] = level] BY <2>2, <3>2 DEF Numbers
   <4>2. row = [f \in DOMAIN row |-> row[f]] /\ "status" \in DOMAIN row
           /\ row["status"] = couples[x].status
     BY FieldSet DEF Numbers, CoupleThere
   <4> HIDE DEF row
   <4>3. couples'[x] = [f \in DOMAIN couples'[x] |-> couples'[x][f]]
           /\ "status" \in DOMAIN couples'[x] /\ couples'[x]["status"] = couples[x].status
     BY <4>1, <4>2, FieldSet
   <4> QED BY <4>3 DEF Numbers, CoupleThere
  <3> QED BY <3>1, <3>2
 <2> QED BY <2>1, <2>3, <2>4 DEF Numbers
<1>5. CASE FindCouple(h) \/ NotifyReceiver(h) \/ FindBattle(h) \/ EndExpired(h) \/ Score(h)
 <2>1. UNCHANGED <<balance, given, xp, couples, issued, dropped>>
   BY <1>5 DEF FindCouple, NotifyReceiver, FindBattle, EndExpired, Score, Goto, Finish, Remember, Paid,
      ledgerVars, giftVars, wallVars, coupleVars
 <2> QED BY <2>1, NumbersStill DEF Numbers
<1>6. CASE FindWall(h)
 <2>1. UNCHANGED <<balance, given, xp, couples>>
   BY <1>6 DEF FindWall, Paid, ledgerVars, giftVars, wallVars, coupleVars
 <2>2. job[h].key \in Ids BY <1>1, GiftsAreKeys DEF GiftJob
 <2>3. (issued \cup dropped)' \subseteq Ids BY <1>6, <2>2 DEF FindWall, Break, Remember, Numbers
 <2> QED BY <2>1, <2>3, NumbersStill
<1>7. CASE OpenRoomWall(h)
 <2>1. UNCHANGED <<balance, given, xp, couples>>
   BY <1>7 DEF OpenRoomWall, Paid, ledgerVars, giftVars, coupleVars
 <2>2. (issued \cup dropped)' \subseteq Ids BY <1>7, WallsAreIds DEF OpenRoomWall, OpenWall, Numbers
 <2> QED BY <2>1, <2>2, NumbersStill
<1>8. CASE ContributeToWall(h)
 <2>1. UNCHANGED <<balance, xp, couples, issued, dropped>>
   BY <1>8 DEF ContributeToWall, Goto, Paid, ledgerVars, giftVars, coupleVars
 <2>2. job[h].found \in WallIds BY <1>1, <1>8 DEF ContributeToWall, Doing, Typed, JobsTyped, FoundTyped
 <2>3. given' \in [WallIds -> [Accounts -> Nat]]
   BY <1>1, <1>8, <2>2, SMTT(60) DEF ContributeToWall, Contribute, Numbers, GiftJob
 <2> QED BY <2>1, <2>3 DEF Numbers, CoupleThere
<1> QED BY <1>2, <1>3, <1>4, <1>5, <1>6, <1>7, <1>8 DEF GiftStep

\* Every step keeps the numbers.
LEMMA NumbersKept ==
  ASSUME Typed, Numbers, [PartyNext]_partyVars
  PROVE  Numbers'
<1>1. CASE Giving
 <2>1. ASSUME NEW h \in Handlers, NEW a \in Accounts, NEW b \in Accounts, NEW r \in Rooms,
              NEW coins \in Costs, StartGift(h, a, b, r, coins)
       PROVE  Numbers'
  <3>1. UNCHANGED <<balance, given, xp, couples>>
    BY <2>1 DEF StartGift, ledgerVars, wallVars, coupleVars, giftVars
  <3>2. (issued \cup dropped)' \subseteq Ids BY <2>1, GiftsAreKeys DEF StartGift, Accept, Numbers
  <3> QED BY <3>1, <3>2, NumbersStill
 <2> QED BY <1>1, <2>1, NumbersGift DEF Giving
<1>2. CASE Battling
 <2>1. UNCHANGED <<balance, given, xp, couples>>
   BY <1>2 DEF Battling, ledgerVars, wallVars, coupleVars, giftVars
 <2>2. (issued \cup dropped)' \subseteq Ids
   BY <1>2, BattlesAreIds DEF Battling, BattleRequest, BattleStep, Challenge, StartAnswer, StartEnd, Answer,
      EndBattle, Accept, Finish, Numbers
 <2> QED BY <2>1, <2>2, NumbersStill
<1>3. CASE Closing
 <2>1. UNCHANGED <<balance, given, xp, couples>> /\ UNCHANGED <<issued, dropped>>
   BY <1>3 DEF Closing, CloseWall, StartClose, Accept, Finish, ledgerVars, wallVars, coupleVars, giftVars
 <2> QED BY <2>1, NumbersStill DEF Numbers
<1>4. CASE Parting
 <2>1. UNCHANGED <<balance, given, xp>> /\ UNCHANGED <<issued, dropped>>
   BY <1>4 DEF Parting, UnpairRequest, UnpairStep, StartUnpair, EndCouple, Accept, Finish, ledgerVars,
      wallVars, giftVars
 <2>2. CASE couples' = couples BY <2>1, <2>2, NumbersStill DEF Numbers
 <2>3. CASE couples' # couples
  <3>1. PICK c : couples' = [couples EXCEPT ![c].status = "ended"]
    BY <1>4, <2>3 DEF Parting, UnpairRequest, UnpairStep, StartUnpair, EndCouple, coupleVars
  <3>2. couples' = [x \in CoupleIds |-> couples'[x]] BY <3>1 DEF Numbers
  <3>3. ASSUME NEW x \in CoupleIds
        PROVE  CoupleThere(x)'
   <4>1. CASE x # c BY <3>1, <4>1 DEF Numbers, CoupleThere
   <4>2. CASE x = c
    <5>1. couples'[x] = [couples[x] EXCEPT !.status = "ended"] BY <3>1, <4>2 DEF Numbers
    <5> QED BY <5>1 DEF Numbers, CoupleThere
   <4> QED BY <4>1, <4>2
  <3> QED BY <2>1, <3>2, <3>3 DEF Numbers
 <2> QED BY <2>2, <2>3
<1>5. CASE Elsewhere
 <2>1. UNCHANGED <<balance, given, xp, couples>>
   BY <1>5 DEF Elsewhere, ledgerVars, wallVars, coupleVars, giftVars
 <2>2. (issued \cup dropped)' \subseteq Ids
   BY <1>5, KeysAreIds DEF Elsewhere, Tick, Interrupted, Break, Numbers
 <2> QED BY <2>1, <2>2, NumbersStill
<1>6. CASE UNCHANGED partyVars
 <2>1. UNCHANGED <<balance, given, xp, couples, issued, dropped>>
   BY <1>6 DEF partyVars, ledgerVars, handlerVars, wallVars, coupleVars, giftVars
 <2> QED BY <2>1, NumbersStill DEF Numbers
<1> QED BY <1>1, <1>2, <1>3, <1>4, <1>5, <1>6 DEF PartyNext

\* The types the tables keep are those that the run checks.
LEMMA TypesShown == Typed /\ Numbers => PartyTypeOK
<1> SUFFICES ASSUME Typed, Numbers
             PROVE  PartyTypeOK
  OBVIOUS
<1>1. \A h \in Handlers : job[h] = Idle \/ job[h].key \in Ids BY KeysAreIds
<1>2. \A b \in BattleIds : battles[b] # NoBattle =>
        /\ battles[b].room \in Rooms
        /\ {battles[b].host, battles[b].opponent} \subseteq Accounts
        /\ battles[b].status \in {"pending", "active", "declined", "cancelled", "ended"}
        /\ battles[b].winner \in Accounts \cup {Nobody}
        /\ battles[b].score \in [Sides -> Nat]
  BY RowThere DEF BattleRow
<1> QED BY <1>1, <1>2 DEF PartyTypeOK, Typed, Numbers, CoupleThere

\* Balances, totals and points stay natural numbers, and every table keeps its
\* type.
THEOREM PartyTypeCorrect == PartySpec => []PartyTypeOK
  BY TypedInit, NumbersInit, Step, NumbersKept, TypesShown, PTL DEF PartySpec
-----------------------------
\* Finitely many gifts, with a price each.
Priced(G) == IsFiniteSet(G) /\ \A g \in G : g.coins \in Nat

\* What some of them cost is a sum of one function over them.
LEMMA CoinsOf ==
  ASSUME NEW G, Priced(G), NEW S, S \subseteq G
  PROVE  /\ Coins(S) = SumFunctionOnSet([g \in G |-> g.coins], S)
         /\ IsFiniteSet(S)
<1> DEFINE f == [g \in S |-> g.coins]
           F == [g \in G |-> g.coins]
<1>1. IsFiniteSet(S) BY FS_Subset DEF Priced
<1>2. \A x \in S : f[x] = F[x] OBVIOUS
<1>3. Coins(S) = SumFunctionOnSet(f, S) BY DEF Coins
<1> HIDE DEF f, F
<1>4. SumFunctionOnSet(f, S) = SumFunctionOnSet(F, S) BY <1>1, <1>2, SumSame
<1> QED BY <1>1, <1>3, <1>4 DEF F

\* Fewer gifts cost no more.
LEMMA CoinsLess ==
  ASSUME NEW G, Priced(G), NEW S, S \subseteq G, NEW T, T \subseteq S
  PROVE  Coins(S) \in Nat /\ Coins(T) \in Nat /\ Coins(T) <= Coins(S)
<1> DEFINE F == [g \in G |-> g.coins]
<1>1. \A x \in S : F[x] \in Nat BY DEF Priced
<1>2. Coins(S) = SumFunctionOnSet(F, S) /\ IsFiniteSet(S) BY CoinsOf
<1>3. Coins(T) = SumFunctionOnSet(F, T)
 <2>1. T \subseteq G OBVIOUS
 <2> QED BY <2>1, CoinsOf
<1> HIDE DEF F
<1>4. /\ SumFunctionOnSet(F, T) \in Nat /\ SumFunctionOnSet(F, S) \in Nat
      /\ SumFunctionOnSet(F, T) <= SumFunctionOnSet(F, S)
  BY <1>1, <1>2, SumLess
<1> QED BY <1>2, <1>3, <1>4

\* One more gift costs its coins more.
LEMMA CoinsMore ==
  ASSUME NEW G, Priced(G), NEW S, S \subseteq G, NEW g \in G \ S
  PROVE  Coins(S \cup {g}) = Coins(S) + g.coins
<1> DEFINE F == [x \in G |-> x.coins]
<1>1. PICK T : T = S \cup {g} OBVIOUS
<1>2. T \subseteq G /\ g \in T /\ T \ {g} = S BY <1>1
<1>3. F[g] = g.coins /\ \A x \in T : F[x] \in Int BY <1>2 DEF Priced
<1>4. Coins(S) = SumFunctionOnSet(F, S) BY CoinsOf
<1>5. Coins(T) = SumFunctionOnSet(F, T) /\ IsFiniteSet(T) BY <1>2, CoinsOf
<1> HIDE DEF F
<1>6. SumFunctionOnSet(F, T) = F[g] + SumFunctionOnSet(F, T \ {g}) BY <1>2, <1>3, <1>5, SumSplit
<1>7. g.coins \in Nat /\ Coins(S) \in Nat BY CoinsLess DEF Priced
<1>8. Coins(T) = F[g] + Coins(S) BY <1>2, <1>4, <1>5, <1>6
<1>9. Coins(T) = Coins(S) + g.coins BY <1>3, <1>7, <1>8
<1> QED BY <1>1, <1>9

\* Gifts of two kinds cost no more than those of one and those of the other.
LEMMA CoinsShared ==
  ASSUME NEW G, Priced(G), NEW S, NEW T, NEW U, S \subseteq T \cup U, T \subseteq G, U \subseteq G
  PROVE  Coins(S) <= Coins(T) + Coins(U)
<1> DEFINE F == [x \in G |-> x.coins]
<1>1. PICK A : A = S \cap T OBVIOUS
<1>2. S \subseteq G /\ A \subseteq S /\ S \ A \subseteq U /\ S \ A \subseteq G /\ A \subseteq T BY <1>1
<1>3. /\ Coins(S) = SumFunctionOnSet(F, S) /\ IsFiniteSet(S)
      /\ \A x \in S : F[x] \in Int
  BY <1>2, CoinsOf DEF Priced
<1>4. Coins(A) = SumFunctionOnSet(F, A)
 <2>1. A \subseteq G BY <1>2
 <2> QED BY <2>1, CoinsOf
<1>5. Coins(S \ A) = SumFunctionOnSet(F, S \ A) BY <1>2, CoinsOf
<1> HIDE DEF F
<1>6. SumFunctionOnSet(F, S) = SumFunctionOnSet(F, A) + SumFunctionOnSet(F, S \ A) BY <1>2, <1>3, SumParts
<1>7. Coins(A) \in Nat /\ Coins(T) \in Nat /\ Coins(A) <= Coins(T) BY <1>2, CoinsLess
<1>8. Coins(S \ A) \in Nat /\ Coins(U) \in Nat /\ Coins(S \ A) <= Coins(U) BY <1>2, CoinsLess
<1> QED BY <1>3, <1>4, <1>5, <1>6, <1>7, <1>8

\* x lies between what the gifts that surely count cost and what those cost
\* that may.
Tally(sure, likely, x) == x \in Nat /\ Coins(sure) <= x /\ x <= Coins(likely)

\* It still does when fewer surely count and more may.
LEMMA TallyKept ==
  ASSUME NEW G, Priced(G), NEW L, NEW U, L \subseteq G, NEW x, Tally(L, U, x),
         NEW M, M \subseteq L, NEW V, U \subseteq V, V \subseteq G
  PROVE  Tally(M, V, x)
<1>1. Coins(L) \in Nat /\ Coins(M) \in Nat /\ Coins(M) <= Coins(L) BY CoinsLess
<1>2. Coins(V) \in Nat /\ Coins(U) \in Nat /\ Coins(U) <= Coins(V) BY CoinsLess
<1> QED BY <1>1, <1>2 DEF Tally

\* And when one more gift counts and its coins are added.
LEMMA TallyAdds ==
  ASSUME NEW G, Priced(G), NEW L, NEW U, L \subseteq G, NEW x, Tally(L, U, x), NEW g \in G,
         g \notin L, g \notin U,
         NEW M, M \subseteq L \cup {g}, NEW V, U \cup {g} \subseteq V, V \subseteq G
  PROVE  Tally(M, V, x + g.coins)
<1>1. PICK A : A = L \cup {g} OBVIOUS
<1>2. PICK B : B = U \cup {g} OBVIOUS
<1>3. A \subseteq G /\ M \subseteq A /\ B \subseteq V /\ U \subseteq G BY <1>1, <1>2
<1>4. Coins(A) = Coins(L) + g.coins /\ Coins(L) \in Nat BY <1>1, CoinsMore, CoinsLess
<1>5. Coins(B) = Coins(U) + g.coins /\ Coins(U) \in Nat BY <1>2, <1>3, CoinsMore, CoinsLess
<1>6. Coins(A) \in Nat /\ Coins(M) \in Nat /\ Coins(M) <= Coins(A) BY <1>3, CoinsLess
<1>7. Coins(V) \in Nat /\ Coins(B) \in Nat /\ Coins(B) <= Coins(V) BY <1>3, CoinsLess
<1>8. g.coins \in Nat /\ x + g.coins \in Nat BY DEF Priced, Tally
<1> QED BY <1>4, <1>5, <1>6, <1>7, <1>8 DEF Tally
-----------------------------
\* The gift of a request that has paid.
GiftOf(h, g) ==
  /\ g \in gifts /\ g.id = job[h].key
  /\ g.from = job[h].from /\ g.to = job[h].to /\ g.room = job[h].room /\ g.coins = job[h].coins

\* Gifts are told apart by their ids, none is to its sender, and a request that
\* has paid is about one of them.
Logged ==
  /\ IsFiniteSet(gifts)
  /\ \A g, k \in gifts : g.id = k.id => g = k
  /\ \A g \in gifts : g.from # g.to
  /\ \A h \in Handlers : job[h].op = "gift" =>
        /\ job[h].from # job[h].to
        /\ job[h].at # "pay" => \E g \in gifts : GiftOf(h, g)

AllStages == WallStages \cup {"battle", "end", "score"}

\* The stages up to the last one that counts a gift, for each counter.
StageSets == {{"xpSender"}, EarlyStages, CoupleStages, WallStages, AllStages}

\* No request leaves the stages S but by being cut off.
Rests(S) ==
  /\ dropped \subseteq dropped' /\ gifts \subseteq gifts'
  /\ \A g \in gifts :
       /\ InFlight("gift", g.id, S)' => InFlight("gift", g.id, S)
       /\ InFlight("gift", g.id, S) => InFlight("gift", g.id, S)' \/ g.id \in dropped'
  /\ \A g \in gifts' \ gifts : InFlight("gift", g.id, S)'

AllRest == \A S \in StageSets : Rests(S)

\* The request of gift g leaves the stages S, and no other does.
Passes(S, g) ==
  /\ UNCHANGED <<dropped, gifts>> /\ g \in gifts
  /\ InFlight("gift", g.id, S) /\ ~InFlight("gift", g.id, S)'
  /\ \A k \in gifts \ {g} : InFlight("gift", k.id, S)' <=> InFlight("gift", k.id, S)

\* A job that is not about a gift in the log.
NotLogged(j) == j.op = "gift" => \A g \in gifts : g.id # j.key

\* Steps of other requests move no gift.
LEMMA OthersRest ==
  ASSUME gifts' = gifts, dropped \subseteq dropped',
         \A i \in Handlers : job'[i] = job[i] \/ (NotLogged(job[i]) /\ NotLogged(job'[i]))
  PROVE  AllRest
<1> SUFFICES ASSUME NEW S
             PROVE  Rests(S)
  BY DEF AllRest
<1>1. ASSUME NEW g \in gifts
      PROVE  InFlight("gift", g.id, S)' <=> InFlight("gift", g.id, S)
  BY DEF InFlight, NotLogged
<1> QED BY <1>1 DEF Rests

\* Two states of the request for one gift.
SameGift(j, k) ==
  /\ j.op = "gift" /\ j.key = k.key
  /\ j.from = k.from /\ j.to = k.to /\ j.room = k.room /\ j.coins = k.coins

\* A request goes on to another stage, or ends.
Walks(h, j) ==
  /\ job[h].op = "gift" /\ job[h].at # "pay"
  /\ job' = [job EXCEPT ![h] = j]
  /\ j = Idle \/ SameGift(j, job[h])
  /\ gifts' = gifts

\* Whose requests are in flight then.
LEMMA WalkInFlight ==
  ASSUME Typed, Apart, NEW h \in Handlers, NEW j, Walks(h, j), NEW S, NEW k
  PROVE  /\ k = job[h].key =>
              /\ InFlight("gift", k, S) <=> job[h].at \in S
              /\ InFlight("gift", k, S)' <=> j.op = "gift" /\ j.at \in S
         /\ k # job[h].key => (InFlight("gift", k, S)' <=> InFlight("gift", k, S))
<1>1. job'[h] = j /\ \A i \in Handlers \ {h} : job'[i] = job[i] BY DEF Walks, SameGift, Typed, JobsTyped
<1>2. \A i \in Handlers : job[i].op = "gift" /\ job[i].key = job[h].key => i = h
  BY DEF Walks, SameGift, Apart, KeysApart
<1>3. Idle.op # "gift" BY DEF Idle
<1>4. CASE k = job[h].key
 <2>1. InFlight("gift", k, S) <=> job[h].at \in S BY <1>2, <1>4 DEF InFlight, Walks, SameGift
 <2>2. InFlight("gift", k, S)' <=> j.op = "gift" /\ j.at \in S
   BY <1>1, <1>2, <1>3, <1>4 DEF InFlight, Walks, SameGift
 <2> QED BY <1>4, <2>1, <2>2
<1>5. CASE k # job[h].key BY <1>1, <1>3, <1>5 DEF InFlight, Walks, SameGift
<1> QED BY <1>4, <1>5

\* A request that walks leaves the stages whose last one it was at.
LEMMA WalkPasses ==
  ASSUME Typed, Apart, Logged, NEW h \in Handlers, NEW j, Walks(h, j), dropped' = dropped, NEW S,
         NEW g, GiftOf(h, g)
  PROVE  /\ job[h].at \in S /\ ~(j.op = "gift" /\ j.at \in S) => Passes(S, g)
         /\ job[h].at \in S /\ j.op = "gift" /\ j.at \in S => Rests(S)
         /\ job[h].at \notin S /\ ~(j.op = "gift" /\ j.at \in S) => Rests(S)
<1>1. g \in gifts /\ g.id = job[h].key /\ gifts' = gifts BY DEF GiftOf, Walks
<1>2. \A k \in gifts \ {g} : k.id # job[h].key BY <1>1 DEF Logged
<1>3. \A k : /\ k = job[h].key =>
                  /\ InFlight("gift", k, S) <=> job[h].at \in S
                  /\ InFlight("gift", k, S)' <=> j.op = "gift" /\ j.at \in S
             /\ k # job[h].key => (InFlight("gift", k, S)' <=> InFlight("gift", k, S))
  BY WalkInFlight
<1>4. /\ InFlight("gift", g.id, S) <=> job[h].at \in S
      /\ InFlight("gift", g.id, S)' <=> j.op = "gift" /\ j.at \in S
      /\ \A k \in gifts \ {g} : InFlight("gift", k.id, S)' <=> InFlight("gift", k.id, S)
  BY <1>1, <1>2, <1>3
<1> QED BY <1>1, <1>4 DEF Passes, Rests

\* A request that is cut off leaves all stages, and is in dropped.
LEMMA CutRests ==
  ASSUME Typed, Apart, NEW h \in Handlers, Walks(h, Idle), dropped' = dropped \cup {job[h].key}
  PROVE  AllRest
<1> SUFFICES ASSUME NEW S
             PROVE  Rests(S)
  BY DEF AllRest
<1>1. Idle.op # "gift" BY DEF Idle
<1>2. ASSUME NEW g \in gifts
      PROVE  /\ InFlight("gift", g.id, S)' => InFlight("gift", g.id, S)
             /\ InFlight("gift", g.id, S) => InFlight("gift", g.id, S)' \/ g.id \in dropped'
  BY <1>1, WalkInFlight
<1> QED BY <1>2 DEF Rests, Walks
\* The request of h goes on to stage at, or is over.
WalksTo(h, at) ==
  /\ dropped' = dropped
  /\ \E j : Walks(h, j) /\ (IF at = "over" THEN j = Idle ELSE j.op = "gift" /\ j.at = at)

\* What that means for the stages S.
LEMMA WalkRests ==
  ASSUME Typed, Apart, Logged, NEW h \in Handlers, NEW at, WalksTo(h, at), NEW S \in StageSets
  PROVE  /\ job[h].at \in S /\ at \notin S => \E g \in gifts : GiftOf(h, g) /\ Passes(S, g)
         /\ (job[h].at \in S <=> at \in S) => Rests(S)
<1>1. PICK j : Walks(h, j) /\ (IF at = "over" THEN j = Idle ELSE j.op = "gift" /\ j.at = at)
  BY DEF WalksTo, SameGift
<1>2. dropped' = dropped BY DEF WalksTo, SameGift
<1>3. j.op = "gift" /\ j.at \in S <=> at \in S
 <2>1. CASE at = "over"
  <3>1. at \notin S /\ Idle.op # "gift"
    BY <2>1 DEF StageSets, EarlyStages, CoupleStages, WallStages, AllStages, Idle
  <3> QED BY <1>1, <2>1, <3>1
 <2>2. CASE at # "over" BY <1>1, <2>2
 <2> QED BY <2>1, <2>2
<1>4. PICK g \in gifts : GiftOf(h, g) BY <1>1 DEF Logged, Walks
<1>5. /\ job[h].at \in S /\ ~(j.op = "gift" /\ j.at \in S) => Passes(S, g)
      /\ job[h].at \in S /\ j.op = "gift" /\ j.at \in S => Rests(S)
      /\ job[h].at \notin S /\ ~(j.op = "gift" /\ j.at \in S) => Rests(S)
  BY <1>1, <1>2, <1>4, WalkPasses
<1> QED BY <1>3, <1>4, <1>5

\* From where to where each statement of a gift takes its request.
LEMMA Onwards ==
  ASSUME Typed, NEW h \in Handlers
  PROVE  /\ XpSender(h) => job[h].at = "xpSender" /\ WalksTo(h, "xpReceiver")
         /\ XpReceiver(h) => job[h].at = "xpReceiver" /\ WalksTo(h, "couple")
         /\ FindCouple(h) => job[h].at = "couple" /\ (WalksTo(h, "cp") \/ WalksTo(h, "notify"))
         /\ CoupleGains(h) => job[h].at = "cp" /\ WalksTo(h, "notify")
         /\ NotifyReceiver(h) => job[h].at = "notify" /\ WalksTo(h, "openWall")
         /\ OpenRoomWall(h) => job[h].at = "openWall" /\ WalksTo(h, "findWall")
<1>1. ASSUME NEW at \in GiftAt, job[h].op = "gift", job[h].at # "pay",
             job' = [job EXCEPT ![h].at = at], UNCHANGED <<dropped, gifts>>
      PROVE  WalksTo(h, at)
 <2> DEFINE j == [job[h] EXCEPT !.at = at]
 <2>1. job[h] \in GiftJob BY <1>1, GiftJobs DEF Typed
 <2>2. SameGift(j, job[h]) /\ j.at = at BY <1>1, <2>1 DEF GiftJob, SameGift
 <2>3. job' = [job EXCEPT ![h] = j] /\ at # "over" BY <1>1 DEF GiftAt
 <2> HIDE DEF j
 <2>4. Walks(h, j) BY <1>1, <2>2, <2>3 DEF Walks, SameGift
 <2> QED BY <1>1, <2>2, <2>3, <2>4 DEF WalksTo, SameGift
<1>2. ASSUME NEW x, FindCouple(h), Remember(h, x, "cp")
      PROVE  WalksTo(h, "cp")
 <2> DEFINE j == [[job[h] EXCEPT !.found = x] EXCEPT !.at = "cp"]
 <2>1. job[h] \in GiftJob /\ job[h].op = "gift" /\ job[h].at = "couple"
   BY <1>2, GiftJobs DEF Typed, FindCouple, Doing
 <2>2. SameGift(j, job[h]) /\ j.at = "cp" BY <2>1 DEF GiftJob, SameGift
 <2>3. job' = [job EXCEPT ![h] = j] /\ UNCHANGED dropped BY <1>2 DEF Remember, Typed, JobsTyped
 <2>4. gifts' = gifts BY <1>2 DEF FindCouple, Paid, giftVars
 <2> HIDE DEF j
 <2>5. Walks(h, j) BY <2>1, <2>2, <2>3, <2>4 DEF Walks, SameGift
 <2> QED BY <2>2, <2>3, <2>5 DEF WalksTo, SameGift
<1>3. XpSender(h) => job[h].at = "xpSender" /\ WalksTo(h, "xpReceiver")
  BY <1>1 DEF XpSender, AddXp, Doing, Goto, GiftAt
<1>4. XpReceiver(h) => job[h].at = "xpReceiver" /\ WalksTo(h, "couple")
  BY <1>1 DEF XpReceiver, AddXp, Doing, Goto, GiftAt
<1>5. FindCouple(h) => job[h].at = "couple" /\ (WalksTo(h, "cp") \/ WalksTo(h, "notify"))
 <2> SUFFICES ASSUME FindCouple(h)
              PROVE  job[h].at = "couple" /\ (WalksTo(h, "cp") \/ WalksTo(h, "notify"))
   OBVIOUS
 <2>1. job[h].op = "gift" /\ job[h].at = "couple" /\ gifts' = gifts BY DEF FindCouple, Doing, Paid, giftVars
 <2>2. Goto(h, "notify") \/ \E x : Remember(h, x, "cp") BY DEF FindCouple
 <2>3. Goto(h, "notify") => WalksTo(h, "notify") BY <1>1, <2>1 DEF Goto, GiftAt
 <2> QED BY <1>2, <2>1, <2>2, <2>3
<1>6. CoupleGains(h) => job[h].at = "cp" /\ WalksTo(h, "notify")
  BY <1>1 DEF CoupleGains, Doing, Goto, GiftAt, Paid, giftVars
<1>7. NotifyReceiver(h) => job[h].at = "notify" /\ WalksTo(h, "openWall")
  BY <1>1 DEF NotifyReceiver, Doing, GiftAt, Paid, giftVars
<1>8. OpenRoomWall(h) => job[h].at = "openWall" /\ WalksTo(h, "findWall")
  BY <1>1 DEF OpenRoomWall, Doing, GiftAt, Paid, giftVars
<1> QED BY <1>3, <1>4, <1>5, <1>6, <1>7, <1>8

\* And the statements that end it, or find something for the next one.
LEMMA Endings ==
  ASSUME Typed, Apart, NEW h \in Handlers
  PROVE  /\ FindWall(h) => job[h].at = "findWall" /\ (WalksTo(h, "contribute") \/ (Break(h) /\ AllRest))
         /\ ContributeToWall(h) => job[h].at = "contribute" /\ WalksTo(h, "battle")
         /\ FindBattle(h) => job[h].at = "battle" /\ \E at \in {"end", "score", "over"} : WalksTo(h, at)
         /\ EndExpired(h) => job[h].at = "end" /\ WalksTo(h, "over")
         /\ Score(h) => job[h].at = "score" /\ WalksTo(h, "over")
<1>1. ASSUME job[h].op = "gift", job[h].at # "pay",
             job' = [job EXCEPT ![h] = Idle], gifts' = gifts
      PROVE  /\ dropped' = dropped => WalksTo(h, "over")
             /\ dropped' = dropped \cup {job[h].key} => AllRest
 <2>1. Walks(h, Idle) BY <1>1 DEF Walks, SameGift
 <2> QED BY <2>1, CutRests DEF WalksTo, SameGift
<1>2. ASSUME NEW at \in {"contribute", "end", "score"}, NEW x,
             job[h].op = "gift", job[h].at # "pay", Remember(h, x, at), gifts' = gifts
      PROVE  WalksTo(h, at)
 <2> DEFINE j == [[job[h] EXCEPT !.found = x] EXCEPT !.at = at]
 <2>1. job[h] \in GiftJob BY <1>2, GiftJobs DEF Typed
 <2>2. SameGift(j, job[h]) /\ j.at = at BY <2>1 DEF GiftJob, SameGift
 <2>3. job' = [job EXCEPT ![h] = j] /\ UNCHANGED dropped BY <1>2 DEF Remember, Typed, JobsTyped
 <2> HIDE DEF j
 <2>4. Walks(h, j) BY <1>2, <2>1, <2>2, <2>3 DEF Walks, SameGift
 <2> QED BY <2>2, <2>3, <2>4 DEF WalksTo, SameGift
<1>3. FindWall(h) => job[h].at = "findWall" /\ (WalksTo(h, "contribute") \/ (Break(h) /\ AllRest))
 <2> SUFFICES ASSUME FindWall(h)
              PROVE  job[h].at = "findWall" /\ (WalksTo(h, "contribute") \/ (Break(h) /\ AllRest))
   OBVIOUS
 <2>1. job[h].op = "gift" /\ job[h].at = "findWall" /\ gifts' = gifts BY DEF FindWall, Doing, Paid, giftVars
 <2>2. Break(h) \/ \E x : Remember(h, x, "contribute") BY DEF FindWall
 <2> QED BY <1>1, <1>2, <2>1, <2>2 DEF Break
<1>4. ContributeToWall(h) => job[h].at = "contribute" /\ WalksTo(h, "battle")
 <2> SUFFICES ASSUME ContributeToWall(h)
              PROVE  job[h].at = "contribute" /\ WalksTo(h, "battle")
   OBVIOUS
 <2> DEFINE j == [job[h] EXCEPT !.at = "battle"]
 <2>1. job[h] \in GiftJob /\ job[h].op = "gift" /\ job[h].at = "contribute"
   BY GiftJobs DEF Typed, ContributeToWall, Doing
 <2>2. SameGift(j, job[h]) /\ j.at = "battle" BY <2>1 DEF GiftJob, SameGift
 <2>3. job' = [job EXCEPT ![h] = j] /\ UNCHANGED <<dropped, gifts>>
   BY DEF ContributeToWall, Goto, Paid, giftVars
 <2> HIDE DEF j
 <2>4. Walks(h, j) BY <2>1, <2>2, <2>3 DEF Walks, SameGift
 <2> QED BY <2>1, <2>2, <2>3, <2>4 DEF WalksTo, SameGift
<1>5. FindBattle(h) => job[h].at = "battle" /\ \E at \in {"end", "score", "over"} : WalksTo(h, at)
 <2> SUFFICES ASSUME FindBattle(h)
              PROVE  job[h].at = "battle" /\ \E at \in {"end", "score", "over"} : WalksTo(h, at)
   OBVIOUS
 <2>1. job[h].op = "gift" /\ job[h].at = "battle" /\ gifts' = gifts BY DEF FindBattle, Doing, Paid, giftVars
 <2>2. Finish(h) \/ \E x : Remember(h, x, "end") \/ Remember(h, x, "score") BY DEF FindBattle
 <2> QED BY <1>1, <1>2, <2>1, <2>2 DEF Finish
<1>6. EndExpired(h) => job[h].at = "end" /\ WalksTo(h, "over")
  BY <1>1 DEF EndExpired, Doing, Finish, Paid, giftVars
<1>7. Score(h) => job[h].at = "score" /\ WalksTo(h, "over") BY <1>1 DEF Score, Doing, Finish, Paid, giftVars
<1> QED BY <1>3, <1>4, <1>5, <1>6, <1>7
-----------------------------
\* Every gift's request is left as it is, and no other becomes one.
Aside == \A i \in Handlers : job'[i] = job[i] \/ (job[i].op # "gift" /\ job'[i].op # "gift")

\* Steps of other requests than gifts' leave the log and the gifts' requests
\* alone, unless they cut one of them off.
LEMMA AsideSteps ==
  ASSUME Typed, Battling \/ Closing \/ Parting \/ Elsewhere \/ UNCHANGED partyVars
  PROVE  /\ UNCHANGED <<gifts, xp, lvl>>
         /\ (Aside /\ dropped' = dropped) \/ \E h \in Handlers : Interrupted(h)
<1>1. ASSUME NEW h \in Handlers, NEW j, j.op # "gift", job[h].op # "gift",
             job' = [job EXCEPT ![h] = j]
      PROVE  Aside
  BY <1>1 DEF Aside, Typed, JobsTyped
<1>2. Idle.op # "gift" BY DEF Idle
<1>3. CASE Battling
 <2>1. UNCHANGED <<gifts, xp, lvl>> BY <1>3 DEF Battling, giftVars
 <2>2. ASSUME NEW r \in Rooms, NEW a \in Accounts, Challenge(r, a)
       PROVE  Aside /\ dropped' = dropped
   BY <2>2 DEF Challenge, Aside
 <2>3. ASSUME NEW h \in Handlers, NEW b \in BattleIds,
              NEW answer \in {"active", "declined", "cancelled"}, StartAnswer(h, b, answer)
       PROVE  Aside /\ dropped' = dropped
   BY <1>1, <1>2, <2>3 DEF StartAnswer, Accept, Ready
 <2>4. ASSUME NEW h \in Handlers, NEW b \in BattleIds, StartEnd(h, b)
       PROVE  Aside /\ dropped' = dropped
   BY <1>1, <1>2, <2>4 DEF StartEnd, Accept, Ready
 <2>5. ASSUME NEW h \in Handlers, BattleStep(h)
       PROVE  Aside /\ dropped' = dropped
   BY <1>1, <1>2, <2>5 DEF BattleStep, Answer, EndBattle, Doing, Finish
 <2> QED BY <1>3, <2>1, <2>2, <2>3, <2>4, <2>5 DEF Battling, BattleRequest
<1>4. CASE Closing
 <2>1. UNCHANGED <<gifts, xp, lvl>> BY <1>4 DEF Closing, giftVars
 <2>2. ASSUME NEW h \in Handlers, NEW r \in Rooms, StartClose(h, r)
       PROVE  Aside /\ dropped' = dropped
   BY <1>1, <1>2, <2>2 DEF StartClose, Accept, Ready
 <2>3. ASSUME NEW h \in Handlers, CloseWall(h)
       PROVE  Aside /\ dropped' = dropped
   BY <1>1, <1>2, <2>3 DEF CloseWall, Doing, Finish
 <2> QED BY <1>4, <2>1, <2>2, <2>3 DEF Closing
<1>5. CASE Parting
 <2>1. UNCHANGED <<gifts, xp, lvl>> BY <1>5 DEF Parting, giftVars
 <2>2. ASSUME NEW h \in Handlers, NEW c \in CoupleIds, StartUnpair(h, c)
       PROVE  Aside /\ dropped' = dropped
   BY <1>1, <1>2, <2>2 DEF StartUnpair, Accept, Ready
 <2>3. ASSUME NEW h \in Handlers, EndCouple(h)
       PROVE  Aside /\ dropped' = dropped
   BY <1>1, <1>2, <2>3 DEF EndCouple, Doing, Finish
 <2> QED BY <1>5, <2>1, <2>2, <2>3 DEF Parting, UnpairRequest, UnpairStep
<1>6. CASE Elsewhere
 <2>1. UNCHANGED <<gifts, xp, lvl>> BY <1>6 DEF Elsewhere, giftVars
 <2>2. Tick => Aside /\ dropped' = dropped BY DEF Tick, Aside
 <2> QED BY <1>6, <2>1, <2>2 DEF Elsewhere
<1>7. CASE UNCHANGED partyVars
 <2>1. UNCHANGED <<gifts, xp, lvl, job, dropped>> BY <1>7 DEF partyVars, giftVars, handlerVars
 <2> QED BY <2>1 DEF Aside
<1> QED BY <1>3, <1>4, <1>5, <1>6, <1>7

\* A request that is cut off, whatever it was about.
LEMMA CutOff ==
  ASSUME Typed, Apart, NEW h \in Handlers, Interrupted(h), gifts' = gifts
  PROVE  AllRest
<1>1. /\ job' = [job EXCEPT ![h] = Idle] /\ dropped' = dropped \cup {job[h].key}
      /\ job'[h] = Idle /\ \A i \in Handlers \ {h} : job'[i] = job[i]
  BY DEF Interrupted, Break, Typed, JobsTyped
<1>2. CASE job[h].op = "gift" /\ job[h].at # "pay"
 <2>1. Walks(h, Idle) BY <1>1, <1>2 DEF Walks
 <2> QED BY <1>1, <2>1, CutRests
<1>3. CASE job[h].op # "gift" \/ job[h].at = "pay"
 <2>1. NotLogged(job[h]) BY <1>3 DEF NotLogged, Apart, KeysApart
 <2>2. NotLogged(Idle) BY DEF NotLogged, Idle
 <2> QED BY <1>1, <2>1, <2>2, OthersRest
<1> QED BY <1>2, <1>3

\* A new request is about no gift in the log yet.
LEMMA StartRests ==
  ASSUME Typed, Apart, NEW h \in Handlers, NEW a \in Accounts, NEW b \in Accounts,
         NEW r \in Rooms, NEW coins \in Costs, StartGift(h, a, b, r, coins)
  PROVE  AllRest
<1>1. PICK k \in GiftIds \ issued :
        Accept(h, [op |-> "gift", at |-> "pay", key |-> k, from |-> a, to |-> b,
                   room |-> r, coins |-> coins, found |-> NoWall])
  BY DEF StartGift
<1>2. /\ job[h] = Idle /\ job'[h].key = k /\ dropped' = dropped /\ gifts' = gifts
      /\ \A i \in Handlers \ {h} : job'[i] = job[i]
  BY <1>1 DEF StartGift, Accept, Ready, giftVars, Typed, JobsTyped
<1>3. NotLogged(job[h]) /\ NotLogged(job'[h]) BY <1>1, <1>2 DEF NotLogged, Idle, Apart, GiftsDrawn
<1> QED BY <1>2, <1>3, OthersRest

\* The gift a request pays for.
NewGift(h) ==
  [id |-> job[h].key, from |-> job[h].from, to |-> job[h].to,
   room |-> job[h].room, coins |-> job[h].coins, before |-> Closed]

\* Paying logs a gift that is told to nobody yet, or nothing.
LEMMA PayRests ==
  ASSUME Typed, Apart, NEW h \in Handlers, Pay(h)
  PROVE  /\ AllRest /\ dropped' = dropped
         /\ \/ /\ gifts' = gifts \cup {NewGift(h)} /\ NewGift(h) \notin gifts
               /\ job' = [job EXCEPT ![h].at = "xpSender"] /\ Succeeds(GiftDebit(h))
            \/ gifts' = gifts /\ job' = [job EXCEPT ![h] = Idle] /\ ~Succeeds(GiftDebit(h))
<1>1. job[h].op = "gift" /\ job[h] \in GiftJob /\ job[h].at = "pay" /\ dropped' = dropped
  BY GiftJobs DEF Pay, Doing, Typed, Goto, Finish
<1>2. NotLogged(job[h]) BY <1>1 DEF NotLogged, Apart, KeysApart
<1>3. CASE ~Succeeds(GiftDebit(h))
 <2>1. gifts' = gifts /\ job' = [job EXCEPT ![h] = Idle] BY <1>3 DEF Pay, Finish
 <2>2. job'[h] = Idle /\ \A i \in Handlers \ {h} : job'[i] = job[i] BY <2>1 DEF Typed, JobsTyped
 <2>3. NotLogged(Idle) BY DEF NotLogged, Idle
 <2> QED BY <1>1, <1>2, <1>3, <2>1, <2>2, <2>3, OthersRest
<1>4. CASE Succeeds(GiftDebit(h))
 <2>1. gifts' = gifts \cup {NewGift(h)} /\ job' = [job EXCEPT ![h].at = "xpSender"]
   BY <1>4 DEF Pay, Goto, NewGift
 <2>2. NewGift(h).id = job[h].key BY DEF NewGift
 <2>3. NewGift(h) \notin gifts BY <1>1, <1>2, <2>2 DEF NotLogged
 <2>4. /\ job'[h].op = "gift" /\ job'[h].key = job[h].key /\ job'[h].at = "xpSender"
       /\ \A i \in Handlers \ {h} : job'[i] = job[i]
   BY <1>1, <2>1 DEF Typed, JobsTyped, GiftJob
 <2>5. ASSUME NEW S \in StageSets
       PROVE  Rests(S)
  <3>1. "xpSender" \in S BY DEF StageSets, EarlyStages, CoupleStages, WallStages, AllStages
  <3>2. \A g \in gifts : InFlight("gift", g.id, S)' <=> InFlight("gift", g.id, S)
    BY <1>1, <1>2, <2>4 DEF InFlight, NotLogged
  <3>3. \A g \in gifts' \ gifts : InFlight("gift", g.id, S)' BY <1>1, <2>1, <2>2, <2>4, <3>1 DEF InFlight
  <3> QED BY <1>1, <2>1, <3>2, <3>3 DEF Rests
 <2> QED BY <1>1, <1>4, <2>1, <2>3, <2>5 DEF AllRest
<1> QED BY <1>3, <1>4
-----------------------------
\* At first nothing is logged.
LEMMA LoggedInit == PartyInit => Logged
<1> SUFFICES ASSUME PartyInit PROVE Logged OBVIOUS
<1>1. gifts = {} /\ \A h \in Handlers : job[h].op # "gift" BY DEF PartyInit, HandlersInit, Idle
<1> QED BY <1>1, FS_EmptySet DEF Logged

\* A request stays about its gift while it goes on.
LEMMA LoggedOn ==
  ASSUME Logged, gifts' = gifts,
         \A i \in Handlers : \/ job'[i] = job[i] \/ job'[i].op # "gift"
                             \/ /\ job[i].op = "gift" /\ job[i].at # "pay" /\ SameGift(job'[i], job[i])
  PROVE  Logged'
<1>1. ASSUME NEW h \in Handlers, job'[h].op = "gift"
      PROVE  /\ job'[h].from # job'[h].to
             /\ job'[h].at # "pay" => \E g \in gifts : GiftOf(h, g)'
 <2>1. CASE job'[h] = job[h] BY <1>1, <2>1 DEF Logged, GiftOf
 <2>2. CASE job[h].op = "gift" /\ job[h].at # "pay" /\ SameGift(job'[h], job[h])
  <3>1. job[h].from # job[h].to BY <2>2 DEF Logged
  <3>2. PICK g \in gifts : GiftOf(h, g) BY <2>2 DEF Logged
  <3> QED BY <2>2, <3>1, <3>2 DEF SameGift, GiftOf
 <2> QED BY <1>1, <2>1, <2>2
<1> QED BY <1>1 DEF Logged

\* What a request walks to is about the same gift.
LEMMA WalkLogged ==
  ASSUME Typed, Logged, NEW h \in Handlers, NEW at, WalksTo(h, at)
  PROVE  Logged'
<1>1. PICK j : Walks(h, j) BY DEF WalksTo
<1>2. job'[h] = j /\ \A i \in Handlers \ {h} : job'[i] = job[i] BY <1>1 DEF Walks, Typed, JobsTyped
<1>3. Idle.op # "gift" BY DEF Idle
<1> QED BY <1>1, <1>2, <1>3, LoggedOn DEF Walks

\* Where each statement of a gift that is paid for leads.
Arrows ==
  {<<"xpSender", "xpReceiver">>, <<"xpReceiver", "couple">>, <<"couple", "cp">>,
   <<"couple", "notify">>, <<"cp", "notify">>, <<"notify", "openWall">>,
   <<"openWall", "findWall">>, <<"findWall", "contribute">>, <<"contribute", "battle">>,
   <<"battle", "end">>, <<"battle", "score">>, <<"battle", "over">>, <<"end", "over">>,
   <<"score", "over">>}

\* The request of h goes on, to where its statement leads.
GoesOn(h) == \E at : <<job[h].at, at>> \in Arrows /\ WalksTo(h, at)

\* Every step keeps the log and its requests together, and lets the gifts'
\* requests rest unless one of them goes on to its next stage.
LEMMA LogStep ==
  ASSUME Typed, Apart, Logged, [PartyNext]_partyVars
  PROVE  /\ Logged'
         /\ \/ AllRest
            \/ \E h \in Handlers : GiftStep(h) /\ ~Pay(h) /\ GoesOn(h)
<1>1. Idle.op # "gift" BY DEF Idle
<1>2. ASSUME NEW h \in Handlers, job' = [job EXCEPT ![h] = Idle], gifts' = gifts
      PROVE  Logged'
 <2>1. job'[h] = Idle /\ \A i \in Handlers \ {h} : job'[i] = job[i] BY <1>2 DEF Typed, JobsTyped
 <2> QED BY <1>1, <1>2, <2>1, LoggedOn
<1>3. ASSUME NEW h \in Handlers, GiftStep(h)
      PROVE  Logged' /\ (AllRest \/ (~Pay(h) /\ GoesOn(h)))
 <2>1. CASE Pay(h)
  <3>1. CASE gifts' = gifts /\ job' = [job EXCEPT ![h] = Idle] BY <1>2, <2>1, <3>1, PayRests
  <3>2. ASSUME NEW new, new = NewGift(h), gifts' = gifts \cup {new}, new \notin gifts,
               job' = [job EXCEPT ![h].at = "xpSender"]
        PROVE  Logged' /\ AllRest
   <4>1. job[h].op = "gift" /\ job[h] \in GiftJob /\ job[h].at = "pay"
     BY <2>1, GiftJobs DEF Pay, Doing, Typed
   <4>2. /\ SameGift(job'[h], job[h]) /\ \A i \in Handlers \ {h} : job'[i] = job[i]
     BY <3>2, <4>1 DEF Typed, JobsTyped, GiftJob, SameGift
   <4>3. /\ new.id = job[h].key /\ new.from = job[h].from
         /\ new.to = job[h].to /\ new.room = job[h].room
         /\ new.coins = job[h].coins
     BY <3>2 DEF NewGift
   <4>4. NotLogged(job[h]) /\ job[h].from # job[h].to BY <4>1 DEF NotLogged, Apart, KeysApart, Logged
   <4>5. IsFiniteSet(gifts') BY <3>2, FS_AddElement DEF Logged
   <4>6. /\ \A g, k \in gifts' : g.id = k.id => g = k
         /\ \A g \in gifts' : g.from # g.to
     BY <3>2, <4>1, <4>3, <4>4 DEF Logged, NotLogged
   <4>7. ASSUME NEW i \in Handlers, job'[i].op = "gift"
         PROVE  /\ job'[i].from # job'[i].to
                /\ job'[i].at # "pay" => \E g \in gifts' : GiftOf(i, g)'
    <5>1. CASE i = h
     <6>1. new \in gifts' BY <3>2
     <6> QED BY <4>1, <4>2, <4>3, <4>4, <5>1, <6>1 DEF GiftOf, SameGift
    <5>2. CASE i # h
     <6>1. job'[i] = job[i] /\ gifts \subseteq gifts' BY <3>2, <4>2, <5>2
     <6> QED BY <4>7, <6>1 DEF Logged, GiftOf
    <5> QED BY <5>1, <5>2
   <4> QED BY <2>1, <4>5, <4>6, <4>7, PayRests DEF Logged
  <3> QED BY <2>1, <3>1, <3>2, PayRests
 <2>2. CASE ~Pay(h)
  <3>1. ASSUME FindWall(h) \/ FindBattle(h)
        PROVE  Logged' /\ (AllRest \/ GoesOn(h))
   <4>1. CASE GoesOn(h) BY <4>1, WalkLogged DEF GoesOn
   <4>2. CASE FindWall(h) /\ Break(h) /\ AllRest BY <1>2, <4>2 DEF Break, FindWall, Paid, giftVars
   <4> QED BY <3>1, <4>1, <4>2, Endings DEF GoesOn, Arrows
  <3>2. ASSUME \/ XpSender(h) \/ XpReceiver(h) \/ FindCouple(h) \/ CoupleGains(h)
               \/ NotifyReceiver(h) \/ OpenRoomWall(h)
        PROVE  GoesOn(h)
    BY <3>2, Onwards DEF GoesOn, Arrows
  <3>3. ASSUME ContributeToWall(h) \/ EndExpired(h) \/ Score(h)
        PROVE  GoesOn(h)
    BY <3>3, Endings DEF GoesOn, Arrows
  <3> QED BY <1>3, <2>2, <3>1, <3>2, <3>3, WalkLogged DEF GiftStep, GoesOn
 <2> QED BY <2>1, <2>2
<1>4. ASSUME NEW h \in Handlers, NEW a \in Accounts, NEW b \in Accounts, NEW r \in Rooms,
             NEW coins \in Costs, StartGift(h, a, b, r, coins)
      PROVE  Logged' /\ AllRest
 <2>1. PICK k :
         Accept(h, [op |-> "gift", at |-> "pay", key |-> k, from |-> a, to |-> b,
                    room |-> r, coins |-> coins, found |-> NoWall])
   BY <1>4 DEF StartGift
 <2>2. /\ job'[h].from # job'[h].to /\ job'[h].at = "pay" /\ gifts' = gifts
       /\ \A i \in Handlers \ {h} : job'[i] = job[i]
   BY <1>4, <2>1 DEF StartGift, Accept, giftVars, Typed, JobsTyped
 <2>3. Logged' BY <2>2 DEF Logged, GiftOf
 <2> QED BY <1>4, <2>3, StartRests
<1>5. ASSUME Battling \/ Closing \/ Parting \/ Elsewhere \/ UNCHANGED partyVars
      PROVE  Logged' /\ AllRest
 <2>1. gifts' = gifts BY <1>5, AsideSteps
 <2>2. CASE Aside /\ dropped' = dropped
  <3>1. AllRest BY <2>1, <2>2, OthersRest DEF Aside, NotLogged
  <3>2. Logged' BY <2>1, <2>2, LoggedOn DEF Aside
  <3> QED BY <3>1, <3>2
 <2>3. ASSUME NEW h \in Handlers, Interrupted(h)
       PROVE  Logged' /\ AllRest
   BY <1>2, <2>1, <2>3, CutOff DEF Interrupted, Break
 <2> QED BY <1>5, <2>2, <2>3, AsideSteps
<1> QED BY <1>3, <1>4, <1>5 DEF PartyNext, Giving
-----------------------------
\* Gifts past the stages S, cut off or not.
Behind(S) == {g \in gifts : ~InFlight("gift", g.id, S)}

\* When requests rest, no gift more surely counts and none counts less.
LEMMA RestsPast ==
  ASSUME NEW S, Rests(S)
  PROVE  Past(S)' \subseteq Past(S) /\ Behind(S) \subseteq Behind(S)' /\ gifts \subseteq gifts'
<1>1. ASSUME NEW g \in gifts', g.id \notin dropped', ~InFlight("gift", g.id, S)'
      PROVE  g \in gifts /\ g.id \notin dropped /\ ~InFlight("gift", g.id, S)
  BY <1>1 DEF Rests
<1>2. Past(S)' \subseteq Past(S) BY <1>1 DEF Past
<1>3. Behind(S) \subseteq Behind(S)' BY DEF Behind, Rests
<1> QED BY <1>2, <1>3 DEF Rests

\* When a request leaves them, its gift does.
LEMMA PassesPast ==
  ASSUME NEW S, NEW g, Passes(S, g)
  PROVE  /\ Past(S)' \subseteq Past(S) \cup {g} /\ Behind(S) \cup {g} \subseteq Behind(S)'
         /\ g \notin Past(S) /\ g \notin Behind(S) /\ gifts' = gifts /\ g \in gifts
<1>1. ASSUME NEW k \in gifts, k # g
      PROVE  InFlight("gift", k.id, S)' <=> InFlight("gift", k.id, S)
  BY <1>1 DEF Passes
<1>2. Past(S)' \subseteq Past(S) \cup {g} BY <1>1 DEF Past, Passes
<1>3. Behind(S) \cup {g} \subseteq Behind(S)' BY <1>1 DEF Behind, Passes
<1> QED BY <1>2, <1>3 DEF Past, Behind, Passes

\* Logged gifts have a price.
LEMMA GiftsPriced ==
  ASSUME NEW G, G \subseteq GiftRow, IsFiniteSet(G)
  PROVE  Priced(G)
  BY CostsNat DEF GiftRow, Priced
-----------------------------
\* The gifts whose coins an account surely gained as experience, and those
\* whose coins it may have gained.
XpSure(a) ==
  {g \in Past({"xpSender"}) : g.from = a} \cup {g \in Past(EarlyStages) : g.to = a}
XpLikely(a) ==
  {g \in Behind({"xpSender"}) : g.from = a} \cup {g \in Behind(EarlyStages) : g.to = a}

\* So points lie between, and the level is the one they reach.
XpCounted ==
  /\ lvl \in [Accounts -> Nat]
  /\ \A a \in Accounts :
        Tally(XpSure(a), XpLikely(a), xp[a]) /\ LevelReached(lvl[a], XpFactor, xp[a])

\* Nothing given, nothing gained.
LEMMA XpInit == PartyInit => XpCounted
<1> SUFFICES ASSUME PartyInit PROVE XpCounted OBVIOUS
<1>1. gifts = {} /\ xp = [a \in Accounts |-> 0] /\ lvl = [a \in Accounts |-> 0] BY DEF PartyInit
<1>2. LevelReached(0, XpFactor, 0)
 <2>1. PICK n \in 0..0 : LevelReached(n, XpFactor, 0) BY LastLevel, XpFactorPositive
 <2> QED BY <2>1
<1>3. ASSUME NEW a \in Accounts
      PROVE  Tally(XpSure(a), XpLikely(a), 0)
 <2>1. XpSure(a) = {} /\ XpLikely(a) = {} BY <1>1 DEF XpSure, XpLikely, Past, Behind
 <2>2. Coins({}) = 0 BY SumOfNone DEF Coins
 <2> QED BY <2>1, <2>2 DEF Tally
<1> QED BY <1>1, <1>2, <1>3 DEF XpCounted

\* The two statements that add experience.
LEMMA XpWalks ==
  ASSUME Typed, Apart, Logged, NEW h \in Handlers
  PROVE  /\ XpSender(h) => \E g \in gifts : /\ GiftOf(h, g) /\ Passes({"xpSender"}, g)
                                            /\ Rests(EarlyStages)
         /\ XpReceiver(h) => \E g \in gifts : /\ GiftOf(h, g) /\ Rests({"xpSender"})
                                              /\ Passes(EarlyStages, g)
<1>1. {"xpSender"} \in StageSets /\ EarlyStages \in StageSets BY DEF StageSets
<1>2. ASSUME XpSender(h)
      PROVE  \E g \in gifts : GiftOf(h, g) /\ Passes({"xpSender"}, g) /\ Rests(EarlyStages)
 <2>1. job[h].at = "xpSender" /\ WalksTo(h, "xpReceiver") BY <1>2, Onwards
 <2>2. \E g \in gifts : GiftOf(h, g) /\ Passes({"xpSender"}, g) BY <1>1, <2>1, WalkRests
 <2>3. Rests(EarlyStages)
  <3>1. "xpSender" \in EarlyStages /\ "xpReceiver" \in EarlyStages BY DEF EarlyStages
  <3> QED BY <1>1, <2>1, <3>1, WalkRests
 <2> QED BY <2>2, <2>3
<1>3. ASSUME XpReceiver(h)
      PROVE  \E g \in gifts : GiftOf(h, g) /\ Rests({"xpSender"}) /\ Passes(EarlyStages, g)
 <2>1. job[h].at = "xpReceiver" /\ WalksTo(h, "couple") BY <1>3, Onwards
 <2>2. Rests({"xpSender"}) BY <1>1, <2>1, WalkRests
 <2>3. \E g \in gifts : GiftOf(h, g) /\ Passes(EarlyStages, g)
  <3>1. "xpReceiver" \in EarlyStages /\ "couple" \notin EarlyStages BY DEF EarlyStages
  <3> QED BY <1>1, <2>1, <3>1, WalkRests
 <2> QED BY <2>2, <2>3
<1> QED BY <1>2, <1>3

\* Other steps gain nobody experience.
LEMMA XpElse ==
  ASSUME Typed, Apart, Logged, [PartyNext]_partyVars,
         \A h \in Handlers : ~XpSender(h) /\ ~XpReceiver(h)
  PROVE  UNCHANGED <<xp, lvl>> /\ Rests({"xpSender"}) /\ Rests(EarlyStages)
<1>1. {"xpSender"} \in StageSets /\ EarlyStages \in StageSets BY DEF StageSets
<1>2. UNCHANGED <<xp, lvl>>
 <2>1. ASSUME NEW h \in Handlers, GiftStep(h)
       PROVE  UNCHANGED <<xp, lvl>>
   BY <2>1 DEF GiftStep, Pay, FindCouple, CoupleGains, NotifyReceiver, OpenRoomWall, FindWall,
      ContributeToWall, FindBattle, EndExpired, Score, Paid, giftVars
 <2>2. ASSUME NEW h \in Handlers, NEW a \in Accounts, NEW b \in Accounts, NEW r \in Rooms,
              NEW coins \in Costs, StartGift(h, a, b, r, coins)
       PROVE  UNCHANGED <<xp, lvl>>
   BY <2>2 DEF StartGift, giftVars
 <2> QED BY <2>1, <2>2, AsideSteps DEF PartyNext, Giving
<1>3. ASSUME NEW h \in Handlers, GiftStep(h), ~Pay(h), GoesOn(h)
      PROVE  Rests({"xpSender"}) /\ Rests(EarlyStages)
 <2>1. job[h].at \notin EarlyStages BY <1>3, Onwards, Endings DEF GiftStep, EarlyStages
 <2>2. PICK at : <<job[h].at, at>> \in Arrows /\ WalksTo(h, at) BY <1>3 DEF GoesOn
 <2>3. at \notin EarlyStages BY <2>1, <2>2 DEF Arrows, EarlyStages
 <2>4. job[h].at \notin {"xpSender"} /\ at \notin {"xpSender"} BY <2>1, <2>3 DEF EarlyStages
 <2> QED BY <1>1, <2>1, <2>2, <2>3, <2>4, WalkRests
<1> QED BY <1>1, <1>2, <1>3, LogStep DEF AllRest

\* Experience stays between the two.
LEMMA XpKept ==
  ASSUME Typed, Typed', Apart, Logged, Logged', Numbers, XpCounted, [PartyNext]_partyVars
  PROVE  XpCounted'
<1> DEFINE S1 == {"xpSender"}
<1>1. PICK G : G = gifts' OBVIOUS
<1>2. Priced(G) BY <1>1, GiftsPriced DEF Typed, Logged
<1>3. ASSUME NEW h \in Handlers, NEW a \in Accounts, NEW g \in gifts, GiftOf(h, g),
             NEW next, AddXp(h, a, next),
             Tally(XpSure(a)', XpLikely(a)', xp[a] + g.coins),
             \A b \in Accounts \ {a} : Tally(XpSure(b)', XpLikely(b)', xp[b])
      PROVE  XpCounted'
 <2>1. g.coins \in Nat /\ job[h].coins = g.coins BY <1>3, CostsNat DEF GiftOf, Typed, GiftRow
 <2>2. xp' = [xp EXCEPT ![a] = @ + g.coins] /\ xp \in [Accounts -> Nat] BY <1>3, <2>1 DEF AddXp, Numbers
 <2>3. PICK estimate \in 0..xp'[a] :
         lvl' = [lvl EXCEPT ![a] = LevelFrom(estimate, XpFactor, xp'[a])]
   BY <1>3 DEF AddXp
 <2>4. xp'[a] = xp[a] + g.coins /\ xp'[a] \in Nat /\ \A b \in Accounts \ {a} : xp'[b] = xp[b] BY <2>1, <2>2
 <2>5. /\ LevelFrom(estimate, XpFactor, xp'[a]) \in Nat
       /\ LevelReached(LevelFrom(estimate, XpFactor, xp'[a]), XpFactor, xp'[a])
   BY <2>3, <2>4, LevelIsReached, XpFactorPositive
 <2>6. /\ lvl' \in [Accounts -> Nat] /\ LevelReached(lvl'[a], XpFactor, xp'[a])
       /\ \A b \in Accounts \ {a} : lvl'[b] = lvl[b]
   BY <2>3, <2>5 DEF XpCounted
 <2>7. ASSUME NEW b \in Accounts
       PROVE  (Tally(XpSure(b), XpLikely(b), xp[b]) /\ LevelReached(lvl[b], XpFactor, xp[b]))'
  <3>1. CASE b = a BY <1>3, <2>4, <2>6, <3>1
  <3>2. CASE b # a BY <1>3, <2>4, <2>6, <3>2 DEF XpCounted
  <3> QED BY <3>1, <3>2
 <2> QED BY <2>6, <2>7 DEF XpCounted
<1>4. \A b \in Accounts : XpSure(b) \subseteq gifts /\ XpLikely(b) \subseteq gifts
        /\ XpLikely(b)' \subseteq gifts'
  BY DEF XpSure, XpLikely, Past, Behind
<1>5. ASSUME NEW h \in Handlers, XpSender(h)
      PROVE  XpCounted'
 <2>1. PICK g \in gifts : GiftOf(h, g) /\ Passes(S1, g) /\ Rests(EarlyStages) BY <1>5, XpWalks
 <2>2. PICK a \in Accounts : a = job[h].from /\ a = g.from /\ g.to # a /\ g \in G /\ gifts = G
   BY <1>1, <2>1 DEF GiftOf, Typed, GiftRow, Logged, Passes
 <2>3. /\ Past(S1)' \subseteq Past(S1) \cup {g} /\ Behind(S1) \cup {g} \subseteq Behind(S1)'
       /\ g \notin Past(S1) /\ g \notin Behind(S1)
       /\ Past(EarlyStages)' \subseteq Past(EarlyStages)
       /\ Behind(EarlyStages) \subseteq Behind(EarlyStages)'
   BY <2>1, PassesPast, RestsPast
 <2>4. ASSUME NEW b \in Accounts
       PROVE  /\ b # a => XpSure(b)' \subseteq XpSure(b) /\ XpLikely(b) \subseteq XpLikely(b)'
              /\ b = a => /\ XpSure(b)' \subseteq XpSure(b) \cup {g} /\ g \notin XpSure(b)
                          /\ XpLikely(b) \cup {g} \subseteq XpLikely(b)' /\ g \notin XpLikely(b)
   BY <2>2, <2>3 DEF XpSure, XpLikely
 <2>5. Tally(XpSure(a)', XpLikely(a)', xp[a] + g.coins)
  <3>1. Tally(XpSure(a), XpLikely(a), xp[a]) BY DEF XpCounted
  <3> QED BY <1>1, <1>2, <1>4, <2>2, <2>4, <3>1, TallyAdds
 <2>6. ASSUME NEW b \in Accounts \ {a}
       PROVE  Tally(XpSure(b)', XpLikely(b)', xp[b])
  <3>1. Tally(XpSure(b), XpLikely(b), xp[b]) BY DEF XpCounted
  <3> QED BY <1>1, <1>2, <1>4, <2>2, <2>4, <3>1, TallyKept
 <2>7. AddXp(h, a, "xpReceiver") BY <1>5, <2>2 DEF XpSender
 <2> QED BY <1>3, <2>1, <2>5, <2>6, <2>7
<1>6. ASSUME NEW h \in Handlers, XpReceiver(h)
      PROVE  XpCounted'
 <2>1. PICK g \in gifts : GiftOf(h, g) /\ Rests(S1) /\ Passes(EarlyStages, g) BY <1>6, XpWalks
 <2>2. PICK a \in Accounts : a = job[h].to /\ a = g.to /\ g.from # a /\ g \in G /\ gifts = G
   BY <1>1, <2>1 DEF GiftOf, Typed, GiftRow, Logged, Passes
 <2>3. /\ Past(EarlyStages)' \subseteq Past(EarlyStages) \cup {g}
       /\ Behind(EarlyStages) \cup {g} \subseteq Behind(EarlyStages)'
       /\ g \notin Past(EarlyStages) /\ g \notin Behind(EarlyStages)
       /\ Past(S1)' \subseteq Past(S1) /\ Behind(S1) \subseteq Behind(S1)'
   BY <2>1, PassesPast, RestsPast
 <2>4. ASSUME NEW b \in Accounts
       PROVE  /\ b # a => XpSure(b)' \subseteq XpSure(b) /\ XpLikely(b) \subseteq XpLikely(b)'
              /\ b = a => /\ XpSure(b)' \subseteq XpSure(b) \cup {g} /\ g \notin XpSure(b)
                          /\ XpLikely(b) \cup {g} \subseteq XpLikely(b)' /\ g \notin XpLikely(b)
   BY <2>2, <2>3 DEF XpSure, XpLikely
 <2>5. Tally(XpSure(a)', XpLikely(a)', xp[a] + g.coins)
  <3>1. Tally(XpSure(a), XpLikely(a), xp[a]) BY DEF XpCounted
  <3> QED BY <1>1, <1>2, <1>4, <2>2, <2>4, <3>1, TallyAdds
 <2>6. ASSUME NEW b \in Accounts \ {a}
       PROVE  Tally(XpSure(b)', XpLikely(b)', xp[b])
  <3>1. Tally(XpSure(b), XpLikely(b), xp[b]) BY DEF XpCounted
  <3> QED BY <1>1, <1>2, <1>4, <2>2, <2>4, <3>1, TallyKept
 <2>7. AddXp(h, a, "couple") BY <1>6, <2>2 DEF XpReceiver
 <2> QED BY <1>3, <2>1, <2>5, <2>6, <2>7
<1>7. CASE \A h \in Handlers : ~XpSender(h) /\ ~XpReceiver(h)
 <2>1. UNCHANGED <<xp, lvl>> /\ Rests(S1) /\ Rests(EarlyStages) BY <1>7, XpElse
 <2>2. /\ Past(S1)' \subseteq Past(S1) /\ Behind(S1) \subseteq Behind(S1)'
       /\ Past(EarlyStages)' \subseteq Past(EarlyStages)
       /\ Behind(EarlyStages) \subseteq Behind(EarlyStages)' /\ gifts \subseteq G
   BY <1>1, <2>1, RestsPast
 <2>3. ASSUME NEW b \in Accounts
       PROVE  (Tally(XpSure(b), XpLikely(b), xp[b]) /\ LevelReached(lvl[b], XpFactor, xp[b]))'
  <3>1. XpSure(b)' \subseteq XpSure(b) /\ XpLikely(b) \subseteq XpLikely(b)' BY <2>2 DEF XpSure, XpLikely
  <3>2. Tally(XpSure(b), XpLikely(b), xp[b]) BY DEF XpCounted
  <3>3. Tally(XpSure(b)', XpLikely(b)', xp[b]) BY <1>1, <1>2, <1>4, <2>2, <3>1, <3>2, TallyKept
  <3> QED BY <2>1, <3>3 DEF XpCounted
 <2> QED BY <2>1, <2>3 DEF XpCounted
<1> QED BY <1>5, <1>6, <1>7

\* So experience is paid for.
LEMMA XpPaid ==
  ASSUME Typed, Logged, Numbers, XpCounted
  PROVE  XpEarned
<1>1. PICK G : G = gifts /\ Priced(G) BY GiftsPriced DEF Typed, Logged
<1> SUFFICES ASSUME NEW a \in Accounts
             PROVE  /\ xp[a] <= Wealth(a) + Charm(a)
                    /\ xp[a] >= Coins({g \in gifts : a \in {g.from, g.to}} \cap Past(EarlyStages))
  BY Zenon DEF XpEarned
<1>2. Tally(XpSure(a), XpLikely(a), xp[a]) BY DEF XpCounted
<1>3. PICK L, U, T, W, R :
        /\ L = XpSure(a) /\ U = XpLikely(a)
        /\ T = {g \in gifts : a \in {g.from, g.to}} \cap Past(EarlyStages)
        /\ W = {g \in gifts : g.from = a} /\ R = {g \in gifts : g.to = a}
  OBVIOUS
<1>4. L \subseteq G /\ U \subseteq W \cup R /\ W \subseteq G /\ R \subseteq G
  BY <1>1, <1>3 DEF XpSure, XpLikely, Past, Behind
<1>5. T \subseteq L
 <2>1. \A g \in gifts : InFlight("gift", g.id, {"xpSender"}) => InFlight("gift", g.id, EarlyStages)
   BY DEF InFlight, EarlyStages
 <2> QED BY <1>3, <2>1 DEF XpSure, Past
<1>6. Coins(L) \in Nat /\ Coins(T) \in Nat /\ Coins(T) <= Coins(L) BY <1>1, <1>4, <1>5, CoinsLess
<1>7. Coins(W) \in Nat /\ Coins(R) \in Nat /\ Coins(U) \in Nat /\ Coins(U) <= Coins(W) + Coins(R)
  BY <1>1, <1>4, CoinsLess, CoinsShared
<1>8. xp[a] \in Nat /\ Coins(L) <= xp[a] /\ xp[a] <= Coins(U) BY <1>2, <1>3 DEF Tally
<1>9. xp[a] <= Coins(W) + Coins(R) /\ xp[a] >= Coins(T) BY <1>6, <1>7, <1>8
<1> QED BY <1>3, <1>9 DEF Wealth, Charm
-----------------------------
\* The statement that tells the wall of a gift.
LEMMA WallWalks ==
  ASSUME Typed, Apart, Logged, NEW h \in Handlers, ContributeToWall(h)
  PROVE  \E g \in gifts : GiftOf(h, g) /\ Passes(WallStages, g)
<1>1. job[h].at = "contribute" /\ WalksTo(h, "battle") BY Endings
<1>2. "contribute" \in WallStages /\ "battle" \notin WallStages /\ WallStages \in StageSets
  BY DEF WallStages, CoupleStages, EarlyStages, StageSets
<1> QED BY <1>1, <1>2, WalkRests

\* Other steps add to no wall.
LEMMA WallElse ==
  ASSUME Typed, Apart, Logged, [PartyNext]_partyVars, \A h \in Handlers : ~ContributeToWall(h)
  PROVE  UNCHANGED <<given, wallOf>> /\ Rests(WallStages)
<1>1. WallStages \in StageSets BY DEF StageSets
<1>2. UNCHANGED <<given, wallOf>>
 <2>1. ASSUME NEW h \in Handlers, GiftStep(h)
       PROVE  UNCHANGED <<given, wallOf>>
   BY <2>1 DEF GiftStep, Pay, XpSender, XpReceiver, AddXp, FindCouple, CoupleGains, NotifyReceiver,
      OpenRoomWall, FindWall, FindBattle, EndExpired, Score, wallVars
 <2>2. ASSUME NEW h \in Handlers, NEW a \in Accounts, NEW b \in Accounts, NEW r \in Rooms,
              NEW coins \in Costs, StartGift(h, a, b, r, coins)
       PROVE  UNCHANGED <<given, wallOf>>
   BY <2>2 DEF StartGift, wallVars
 <2>3. ASSUME Battling \/ Parting \/ Elsewhere \/ UNCHANGED partyVars
       PROVE  UNCHANGED <<given, wallOf>>
   BY <2>3 DEF Battling, Parting, Elsewhere, partyVars, wallVars
 <2>4. ASSUME Closing
       PROVE  UNCHANGED <<given, wallOf>>
   BY <2>4 DEF Closing, CloseWall, StartClose, wallVars
 <2> QED BY <2>1, <2>2, <2>3, <2>4 DEF PartyNext, Giving
<1>3. ASSUME NEW h \in Handlers, GiftStep(h), ~Pay(h), GoesOn(h)
      PROVE  Rests(WallStages)
 <2>1. job[h].at # "contribute" BY <1>3, Onwards, Endings DEF GiftStep
 <2>2. PICK at : <<job[h].at, at>> \in Arrows /\ WalksTo(h, at) BY <1>3 DEF GoesOn
 <2>3. job[h].at \in WallStages <=> at \in WallStages
   BY <2>1, <2>2 DEF Arrows, WallStages, CoupleStages, EarlyStages
 <2> QED BY <1>1, <2>2, <2>3, WalkRests
<1> QED BY <1>1, <1>2, <1>3, LogStep DEF AllRest

\* Only a payment logs a gift, and its gift is in no wall.
LEMMA GiftsGrow ==
  ASSUME Typed, Apart, [PartyNext]_partyVars
  PROVE  \/ gifts' = gifts
         \/ \E h \in Handlers : /\ Pay(h) /\ gifts' = gifts \cup {NewGift(h)} /\ NewGift(h) \notin gifts
                                /\ wallOf[NewGift(h).id] = NoWall
<1>1. ASSUME NEW h \in Handlers, GiftStep(h), ~Pay(h)
      PROVE  gifts' = gifts
  BY <1>1 DEF GiftStep, XpSender, XpReceiver, AddXp, FindCouple, CoupleGains, NotifyReceiver, OpenRoomWall,
     FindWall, ContributeToWall, FindBattle, EndExpired, Score, Paid, giftVars
<1>2. ASSUME NEW h \in Handlers, NEW a \in Accounts, NEW b \in Accounts, NEW r \in Rooms,
             NEW coins \in Costs, StartGift(h, a, b, r, coins)
      PROVE  gifts' = gifts
  BY <1>2 DEF StartGift, giftVars
<1>3. ASSUME NEW h \in Handlers, Pay(h)
      PROVE  wallOf[NewGift(h).id] = NoWall
  BY <1>3 DEF Pay, Doing, NewGift, Apart, KeysApart
<1> QED BY <1>1, <1>2, <1>3, PayRests, AsideSteps DEF PartyNext, Giving

\* The gifts of an account a wall counts.
Gave(w, a) == {g \in gifts : g.from = a /\ wallOf[g.id] = w}

\* A wall goes on adding up.
LEMMA WallKept ==
  ASSUME Typed, Apart, Logged, Numbers, WallAddsUp, [PartyNext]_partyVars
  PROVE  WallAddsUp'
<1>1. PICK G : G = gifts OBVIOUS
<1>2. Priced(G) BY <1>1, GiftsPriced DEF Typed, Logged
<1>3. ASSUME NEW w \in WallIds, NEW a \in Accounts
      PROVE  Gave(w, a) \subseteq G /\ given[w][a] = Coins(Gave(w, a))
  BY <1>1, <1>3 DEF Gave, WallAddsUp
<1>4. ASSUME UNCHANGED <<given, wallOf>>, Rests(WallStages)
      PROVE  WallAddsUp'
 <2>1. ASSUME NEW w \in WallIds, NEW a \in Accounts
       PROVE  Gave(w, a)' = Gave(w, a)
  <3>1. CASE gifts' = gifts BY <1>4, <3>1 DEF Gave
  <3>2. ASSUME NEW h \in Handlers, gifts' = gifts \cup {NewGift(h)}, wallOf[NewGift(h).id] = NoWall
        PROVE  Gave(w, a)' = Gave(w, a)
    BY <1>4, <3>2, WallsAreIds DEF Gave
  <3> QED BY <3>1, <3>2, GiftsGrow
 <2>2. \A g \in Past(WallStages)' : wallOf'[g.id] # NoWall BY <1>4, RestsPast DEF WallAddsUp
 <2>3. \A w \in WallIds, a \in Accounts : given'[w][a] = Coins(Gave(w, a)') BY <1>3, <1>4, <2>1
 <2> QED BY <2>2, <2>3 DEF WallAddsUp, Gave
<1>5. ASSUME NEW h \in Handlers, ContributeToWall(h)
      PROVE  WallAddsUp'
 <2>1. PICK g \in gifts : GiftOf(h, g) /\ Passes(WallStages, g) BY <1>5, WallWalks
 <2>2. /\ gifts' = gifts /\ Past(WallStages)' \subseteq Past(WallStages) \cup {g} BY <2>1, PassesPast
 <2>3. PICK v \in WallIds : v = job[h].found /\ Contribute(v, g.id, g.from, g.coins)
  <3>1. job[h].found \in WallIds BY <1>5 DEF ContributeToWall, Doing, Typed, JobsTyped, FoundTyped
  <3> QED BY <1>5, <2>1, <3>1 DEF ContributeToWall, GiftOf
 <2>4. g.id \in GiftIds /\ g.from \in Accounts /\ g \in G /\ g.coins \in Nat
   BY <1>1, <1>2, <2>1 DEF Typed, GiftRow, Priced
 <2>5. CASE wallOf[g.id] # NoWall
  <3>1. UNCHANGED <<given, wallOf>> BY <2>3, <2>5 DEF Contribute
  <3>2. \A k \in Past(WallStages)' : wallOf'[k.id] # NoWall BY <2>2, <2>5, <3>1 DEF WallAddsUp
  <3>3. \A w \in WallIds, a \in Accounts : Gave(w, a)' = Gave(w, a) BY <2>2, <3>1 DEF Gave
  <3>4. \A w \in WallIds, a \in Accounts : given'[w][a] = Coins(Gave(w, a)') BY <1>3, <3>1, <3>3
  <3> QED BY <3>2, <3>4 DEF WallAddsUp, Gave
 <2>6. CASE wallOf[g.id] = NoWall
  <3>1. /\ wallOf' = [wallOf EXCEPT ![g.id] = v]
        /\ given' = [given EXCEPT ![v][g.from] = @ + g.coins]
    BY <2>3, <2>6 DEF Contribute
  <3>2. \A k \in gifts : k # g => wallOf'[k.id] = wallOf[k.id] /\ k.id # g.id
    BY <2>1, <3>1 DEF Logged, Typed
  <3>3. wallOf'[g.id] = v /\ v # NoWall BY <2>3, <2>4, <3>1, WallsAreIds DEF Typed
  <3>4. \A k \in Past(WallStages)' : wallOf'[k.id] # NoWall
   <4>1. \A k \in Past(WallStages) : k \in gifts /\ wallOf[k.id] # NoWall BY DEF Past, WallAddsUp
   <4> QED BY <2>2, <3>2, <3>3, <4>1
  <3>5. ASSUME NEW w \in WallIds, NEW a \in Accounts
        PROVE  given'[w][a] = Coins(Gave(w, a)')
   <4>1. CASE w = v /\ a = g.from
    <5>1. Gave(w, a)' = Gave(w, a) \cup {g} /\ g \notin Gave(w, a)
      BY <2>1, <2>2, <2>3, <2>6, <3>2, <3>3, <4>1 DEF Gave
    <5>2. Coins(Gave(w, a) \cup {g}) = Coins(Gave(w, a)) + g.coins BY <1>2, <1>3, <2>4, <5>1, CoinsMore
    <5>3. given'[w][a] = given[w][a] + g.coins BY <3>1, <4>1 DEF Numbers
    <5> QED BY <1>3, <5>1, <5>2, <5>3
   <4>2. CASE ~(w = v /\ a = g.from)
    <5>1. Gave(w, a)' = Gave(w, a) BY <2>1, <2>2, <2>3, <2>6, <3>2, <3>3, <4>2, WallsAreIds DEF Gave
    <5>2. given'[w][a] = given[w][a] BY <3>1, <4>2 DEF Numbers
    <5> QED BY <1>3, <5>1, <5>2
   <4> QED BY <4>1, <4>2
  <3> QED BY <3>4, <3>5 DEF WallAddsUp, Gave
 <2> QED BY <2>5, <2>6
<1> QED BY <1>4, <1>5, WallElse

\* At first walls and log are empty.
LEMMA WallInit == PartyInit => WallAddsUp
<1> SUFFICES ASSUME PartyInit PROVE WallAddsUp OBVIOUS
<1>1. gifts = {} /\ \A w \in WallIds, a \in Accounts : given[w][a] = 0 BY DEF PartyInit, WallsInit
<1>2. Coins({}) = 0 BY SumOfNone DEF Coins
<1>3. \A w \in WallIds, a \in Accounts : {g \in gifts : g.from = a /\ wallOf[g.id] = w} = {} BY <1>1
<1>4. Past(WallStages) = {} BY <1>1 DEF Past
<1> QED BY <1>1, <1>2, <1>3, <1>4 DEF WallAddsUp
-----------------------------
\* Where a request that is about to add points, or to end a couple, comes from.
LEMMA JobChanges ==
  ASSUME Typed, [PartyNext]_partyVars, NEW i \in Handlers
  PROVE  \/ job'[i] = job[i]
         \/ job'[i].op \notin {"gift", "unpair"}
         \/ job'[i].op = "gift" /\ job'[i].at \notin {"cp", "score"}
         \/ FindCouple(i) /\ \E c : Remember(i, c, "cp")
         \/ FindBattle(i) /\ \E b : Remember(i, b, "score")
         \/ Parting /\ \E c \in CoupleIds : StartUnpair(i, c)
<1>1. ASSUME NEW h \in Handlers, NEW j, job' = [job EXCEPT ![h] = j],
             j.op \notin {"gift", "unpair"} \/ (j.op = "gift" /\ j.at \notin {"cp", "score"})
      PROVE  \/ job'[i] = job[i]
             \/ job'[i].op \notin {"gift", "unpair"}
             \/ job'[i].op = "gift" /\ job'[i].at \notin {"cp", "score"}
  BY <1>1 DEF Typed, JobsTyped
<1>2. Idle.op \notin {"gift", "unpair"} BY DEF Idle
<1>3. ASSUME NEW h \in Handlers, GiftStep(h)
      PROVE  \/ job'[i] = job[i]
             \/ job'[i].op \notin {"gift", "unpair"}
             \/ job'[i].op = "gift" /\ job'[i].at \notin {"cp", "score"}
             \/ FindCouple(i) /\ \E c : Remember(i, c, "cp")
             \/ FindBattle(i) /\ \E b : Remember(i, b, "score")
 <2>1. job[h].op = "gift" /\ job[h] \in GiftJob
   BY <1>3, GiftJobs DEF GiftStep, Pay, XpSender, XpReceiver, FindCouple, CoupleGains, NotifyReceiver,
      OpenRoomWall, FindWall, ContributeToWall, FindBattle, EndExpired, Score, Doing, Typed
 <2>2. ASSUME NEW at \in GiftAt \ {"cp", "score"}, job' = [job EXCEPT ![h].at = at]
       PROVE  \/ job'[i] = job[i] \/ (job'[i].op = "gift" /\ job'[i].at \notin {"cp", "score"})
  <3>1. job'[h].op = "gift" /\ job'[h].at = at /\ \A k \in Handlers \ {h} : job'[k] = job[k]
    BY <2>1, <2>2 DEF GiftJob, Typed, JobsTyped
  <3> QED BY <2>2, <3>1
 <2>3. CASE job' = [job EXCEPT ![h] = Idle] BY <1>1, <1>2, <2>3
 <2>4. ASSUME NEW at \in {"end", "contribute"}, NEW x, Remember(h, x, at)
       PROVE  \/ job'[i] = job[i] \/ (job'[i].op = "gift" /\ job'[i].at \notin {"cp", "score"})
  <3>1. job'[h].op = "gift" /\ job'[h].at = at /\ \A k \in Handlers \ {h} : job'[k] = job[k]
    BY <2>1, <2>4 DEF Remember, GiftJob, Typed, JobsTyped
  <3> QED BY <2>4, <3>1
 <2>5. CASE Pay(h) \/ XpSender(h) \/ XpReceiver(h)
   BY <2>2, <2>3, <2>5 DEF Pay, XpSender, XpReceiver, AddXp, Goto, Finish, GiftAt
 <2>6. CASE CoupleGains(h) \/ NotifyReceiver(h) \/ OpenRoomWall(h) \/ ContributeToWall(h)
   BY <2>2, <2>6 DEF CoupleGains, NotifyReceiver, OpenRoomWall, ContributeToWall, Goto, GiftAt
 <2>7. CASE EndExpired(h) \/ Score(h) BY <2>3, <2>7 DEF EndExpired, Score, Finish
 <2>8. CASE FindWall(h) BY <2>3, <2>4, <2>8 DEF FindWall, Break
 <2>9. CASE FindCouple(h)
  <3>1. Goto(h, "notify") \/ \E c : Remember(h, c, "cp") BY <2>9 DEF FindCouple
  <3>2. ASSUME NEW c, Remember(h, c, "cp"), i # h
        PROVE  job'[i] = job[i]
    BY <3>2 DEF Remember, Typed, JobsTyped
  <3> QED BY <2>2, <2>9, <3>1, <3>2 DEF Goto, GiftAt
 <2>10. CASE FindBattle(h)
  <3>1. Finish(h) \/ \E b : Remember(h, b, "end") \/ Remember(h, b, "score") BY <2>10 DEF FindBattle
  <3>2. ASSUME NEW b, Remember(h, b, "score"), i # h
        PROVE  job'[i] = job[i]
    BY <3>2 DEF Remember, Typed, JobsTyped
  <3> QED BY <2>3, <2>4, <2>10, <3>1, <3>2 DEF Finish
 <2> QED BY <1>3, <2>5, <2>6, <2>7, <2>8, <2>9, <2>10 DEF GiftStep
<1>4. ASSUME NEW h \in Handlers, NEW a \in Accounts, NEW b \in Accounts, NEW r \in Rooms,
             NEW coins \in Costs, StartGift(h, a, b, r, coins)
      PROVE  \/ job'[i] = job[i] \/ (job'[i].op = "gift" /\ job'[i].at \notin {"cp", "score"})
 <2>1. PICK k :
         job' = [job EXCEPT ![h] =
                   [op |-> "gift", at |-> "pay", key |-> k, from |-> a, to |-> b,
                    room |-> r, coins |-> coins, found |-> NoWall]]
   BY <1>4 DEF StartGift, Accept
 <2> QED BY <2>1 DEF Typed, JobsTyped
<1>5. ASSUME Battling \/ Closing \/ Elsewhere \/ UNCHANGED partyVars
      PROVE  \/ job'[i] = job[i] \/ job'[i].op \notin {"gift", "unpair"}
 <2>1. CASE Battling
  <3>1. ASSUME NEW h \in Handlers, NEW j, j.op \notin {"gift", "unpair"}, Accept(h, j)
        PROVE  job'[i] = job[i] \/ job'[i].op \notin {"gift", "unpair"}
    BY <3>1 DEF Accept, Typed, JobsTyped
  <3>2. ASSUME NEW h \in Handlers, Finish(h)
        PROVE  job'[i] = job[i] \/ job'[i].op \notin {"gift", "unpair"}
    BY <1>2, <3>2 DEF Finish, Typed, JobsTyped
  <3>3. ASSUME BattleRequest
        PROVE  job'[i] = job[i] \/ job'[i].op \notin {"gift", "unpair"}
    BY <3>1, <3>3 DEF BattleRequest, Challenge, StartAnswer, StartEnd
  <3>4. ASSUME NEW h \in Handlers, BattleStep(h)
        PROVE  job'[i] = job[i] \/ job'[i].op \notin {"gift", "unpair"}
    BY <3>2, <3>4 DEF BattleStep, Answer, EndBattle
  <3> QED BY <2>1, <3>3, <3>4 DEF Battling
 <2>2. CASE Closing BY <1>2, <2>2 DEF Closing, CloseWall, StartClose, Accept, Finish, Typed, JobsTyped
 <2>3. CASE Elsewhere BY <1>2, <2>3 DEF Elsewhere, Tick, Interrupted, Break, Typed, JobsTyped
 <2>4. CASE UNCHANGED partyVars BY <2>4 DEF partyVars, handlerVars
 <2> QED BY <1>5, <2>1, <2>2, <2>3, <2>4
<1>6. CASE Parting
 <2>1. ASSUME NEW h \in Handlers, NEW c \in CoupleIds, StartUnpair(h, c)
       PROVE  job'[i] = job[i] \/ StartUnpair(i, c)
   BY <2>1 DEF StartUnpair, Accept, Typed, JobsTyped
 <2>2. ASSUME NEW h \in Handlers, EndCouple(h)
       PROVE  job'[i] = job[i] \/ job'[i].op \notin {"gift", "unpair"}
   BY <1>2, <2>2 DEF EndCouple, Finish, Typed, JobsTyped
 <2> QED BY <1>6, <2>1, <2>2 DEF Parting, UnpairRequest, UnpairStep
<1> QED BY <1>3, <1>4, <1>5, <1>6 DEF PartyNext, Giving
-----------------------------
\* The partners a couple started with, and the gifts they gave each other.
Pair(c) == {CoupleSeed[c][1], CoupleSeed[c][2]}
Between(c) == {g \in gifts : {g.from, g.to} = Pair(c)}

\* The gifts that surely count for a couple, and those that may.
CpSure(c) == IF couples[c].status = "active" THEN Between(c) \cap Past(CoupleStages) ELSE {}
CpLikely(c) == Between(c) \cap Behind(CoupleStages)

\* Couples are those of the start, with their partners.
CouplesSeeded ==
  /\ couples \in [CoupleIds -> {NoCouple} \cup CoupleRow]
  /\ \A c \in CoupleIds : couples[c] # NoCouple =>
        /\ c \in DOMAIN CoupleSeed
        /\ couples[c].first = CoupleSeed[c][1] /\ couples[c].second = CoupleSeed[c][2]

\* A request that adds points found the couple of its sender and receiver, and
\* one that ends a couple found one.
CouplesFound ==
  \A h \in Handlers :
     /\ job[h].op = "gift" /\ job[h].at = "cp" =>
          /\ job[h].found \in CoupleIds /\ couples[job[h].found] # NoCouple
          /\ {job[h].from, job[h].to} = Pair(job[h].found)
     /\ job[h].op = "unpair" => couples[job[h].key] # NoCouple

\* A couple's points lie between what is sure and what is likely.
CpCounted ==
  \A c \in CoupleIds : couples[c] # NoCouple =>
     Tally(CpSure(c), CpLikely(c), couples[c].cp) /\ LevelReached(couples[c].level, CpFactor, couples[c].cp)

CouplesCounted == CouplesSeeded /\ CouplesFound /\ CpCounted

\* A couple that is there has a full row.
LEMMA CoupleThereRow ==
  ASSUME CouplesSeeded, NEW c \in CoupleIds, couples[c] # NoCouple
  PROVE  couples[c] \in CoupleRow /\ {couples[c].first, couples[c].second} = Pair(c)
  BY DEF CouplesSeeded, Pair

\* Nobody is in two couples.
LEMMA PairsApart ==
  ASSUME NEW c \in DOMAIN CoupleSeed, NEW d \in DOMAIN CoupleSeed, NEW a, a \in Pair(c), a \in Pair(d)
  PROVE  c = d
  BY SeedCouplesKnown DEF Pair

\* Couples start without points.
LEMMA CouplesStart == PartyInit => CouplesCounted
<1> SUFFICES ASSUME PartyInit PROVE CouplesCounted OBVIOUS
<1>1. /\ gifts = {} /\ \A h \in Handlers : job[h] = Idle
      /\ couples = [c \in CoupleIds |->
           IF c \in DOMAIN CoupleSeed
           THEN [status |-> "active", cp |-> 0, level |-> 0,
                 first |-> CoupleSeed[c][1], second |-> CoupleSeed[c][2]]
           ELSE NoCouple]
  BY DEF PartyInit, HandlersInit
<1>2. CouplesSeeded
 <2>1. ASSUME NEW c \in DOMAIN CoupleSeed
       PROVE  CoupleSeed[c][1] \in Accounts /\ CoupleSeed[c][2] \in Accounts
   BY SeedCouplesKnown
 <2> QED BY <1>1, <2>1 DEF CouplesSeeded, CoupleRow
<1>3. CouplesFound BY <1>1 DEF CouplesFound, Idle
<1>4. CpCounted
 <2>1. LevelReached(0, CpFactor, 0)
  <3>1. PICK n \in 0..0 : LevelReached(n, CpFactor, 0) BY LastLevel, CpFactorPositive
  <3> QED BY <3>1
 <2>2. Coins({}) = 0 BY SumOfNone DEF Coins
 <2>3. ASSUME NEW c \in CoupleIds, couples[c] # NoCouple
       PROVE  /\ couples[c].cp = 0 /\ couples[c].level = 0
              /\ CpSure(c) = {} /\ CpLikely(c) = {}
   BY <1>1, <2>3 DEF CpSure, CpLikely, Between
 <2> QED BY <2>1, <2>2, <2>3 DEF CpCounted, Tally
<1> QED BY <1>2, <1>3, <1>4 DEF CouplesCounted

\* A request that looks for a couple finds its own, or there is none.
LEMMA CoupleLooked ==
  ASSUME Typed, Logged, CouplesSeeded, NEW h \in Handlers, FindCouple(h)
  PROVE  /\ \A c : Remember(h, c, "cp") => c \in CoupleIds /\ couples[c] # NoCouple
                                           /\ {job[h].from, job[h].to} = Pair(c)
         /\ Goto(h, "notify") =>
              \A d \in CoupleIds : couples[d].status = "active" => {job[h].from, job[h].to} # Pair(d)
<1>1. job[h].op = "gift" /\ job[h] \in GiftJob /\ job[h].at = "couple" /\ job[h].from # job[h].to
  BY GiftJobs DEF FindCouple, Doing, Typed, Logged
<1>2. ASSUME NEW d \in CoupleIds, couples[d].status = "active"
      PROVE  /\ couples[d] # NoCouple /\ d \in DOMAIN CoupleSeed
             /\ {couples[d].first, couples[d].second} = Pair(d)
  BY <1>2, CoupleThereRow DEF NoCouple, CouplesSeeded
<1>3. ASSUME NEW at, NEW x, Remember(h, x, at)
      PROVE  job'[h].found = x /\ job'[h].at = at
  BY <1>1, <1>3 DEF Remember, Typed, JobsTyped, GiftJob
<1>4. ASSUME Goto(h, "notify")
      PROVE  job'[h].at = "notify"
  BY <1>1, <1>4 DEF Goto, Typed, JobsTyped, GiftJob
<1>5. ASSUME NEW x, Remember(h, x, "cp")
      PROVE  x \in CoupleIds /\ couples[x] # NoCouple /\ {job[h].from, job[h].to} = Pair(x)
 <2>1. job'[h].found = x /\ job'[h].at = "cp" BY <1>3, <1>5
 <2>2. ~Goto(h, "notify") BY <1>4, <2>1
 <2>3. PICK c \in CouplesOf(job[h].from) :
         job[h].to \in {couples[c].first, couples[c].second} /\ Remember(h, c, "cp")
   BY <2>2 DEF FindCouple
 <2>4. c = x BY <1>3, <2>1, <2>3
 <2>5. x \in CoupleIds /\ couples[x].status = "active"
         /\ job[h].from \in {couples[x].first, couples[x].second}
         /\ job[h].to \in {couples[x].first, couples[x].second}
   BY <2>3, <2>4 DEF CouplesOf, Active
 <2> QED BY <1>1, <1>2, <2>5
<1>6. ASSUME Goto(h, "notify"), NEW d \in CoupleIds, couples[d].status = "active",
             {job[h].from, job[h].to} = Pair(d)
      PROVE  FALSE
 <2>1. d \in CouplesOf(job[h].from) BY <1>2, <1>6 DEF CouplesOf, Active
 <2>2. job'[h].at = "notify" BY <1>4, <1>6
 <2>3. \A c : ~Remember(h, c, "cp") BY <1>3, <2>2
 <2>4. PICK c \in CouplesOf(job[h].from) : job[h].to \notin {couples[c].first, couples[c].second}
   BY <2>1, <2>3 DEF FindCouple
 <2>5. c \in CoupleIds /\ couples[c].status = "active" /\ job[h].from \in Pair(c)
         /\ job[h].to \notin Pair(c)
   BY <1>2, <2>4 DEF CouplesOf, Active
 <2>6. c = d BY <1>2, <1>6, <2>5, PairsApart
 <2> QED BY <1>6, <2>5, <2>6
<1> QED BY <1>5, <1>6

\* The two ways out of the stages of a couple.
LEMMA CoupleWalks ==
  ASSUME Typed, Apart, Logged, NEW h \in Handlers
  PROVE  /\ CoupleGains(h) => \E g \in gifts : GiftOf(h, g) /\ Passes(CoupleStages, g)
         /\ FindCouple(h) => \/ (\E c : Remember(h, c, "cp")) /\ Rests(CoupleStages)
                             \/ /\ Goto(h, "notify")
                                /\ \E g \in gifts : GiftOf(h, g) /\ Passes(CoupleStages, g)
<1>1. CoupleStages \in StageSets /\ {"couple", "cp"} \subseteq CoupleStages /\ "notify" \notin CoupleStages
  BY DEF StageSets, CoupleStages, EarlyStages
<1>2. CoupleGains(h) => \E g \in gifts : GiftOf(h, g) /\ Passes(CoupleStages, g) BY <1>1, Onwards, WalkRests
<1>3. ASSUME FindCouple(h)
      PROVE  \/ (\E c : Remember(h, c, "cp")) /\ Rests(CoupleStages)
             \/ Goto(h, "notify") /\ \E g \in gifts : GiftOf(h, g) /\ Passes(CoupleStages, g)
 <2>1. job[h].at = "couple" /\ (WalksTo(h, "cp") \/ WalksTo(h, "notify")) BY <1>3, Onwards
 <2>2. WalksTo(h, "cp") => Rests(CoupleStages) BY <1>1, <2>1, WalkRests
 <2>3. WalksTo(h, "notify") => \E g \in gifts : GiftOf(h, g) /\ Passes(CoupleStages, g)
   BY <1>1, <2>1, WalkRests
 <2>4. ASSUME NEW at, WalksTo(h, at), at # "over"
       PROVE  job'[h].at = at
   BY <2>4 DEF WalksTo, Walks, Typed, JobsTyped
 <2>5. job[h].op = "gift" /\ job[h] \in GiftJob BY <1>3, GiftJobs DEF FindCouple, Doing, Typed
 <2>6. Goto(h, "notify") => job'[h].at = "notify" BY <2>5 DEF Goto, Typed, JobsTyped, GiftJob
 <2>7. \A c : Remember(h, c, "cp") => job'[h].at = "cp" BY <2>5 DEF Remember, Typed, JobsTyped, GiftJob
 <2>8. Goto(h, "notify") \/ \E c : Remember(h, c, "cp") BY <1>3 DEF FindCouple
 <2> QED BY <2>1, <2>2, <2>3, <2>4, <2>6, <2>7, <2>8
<1> QED BY <1>2, <1>3

\* Other steps change no couple.
LEMMA CpElse ==
  ASSUME Typed, Apart, Logged, [PartyNext]_partyVars, ~Parting,
         \A h \in Handlers : ~FindCouple(h) /\ ~CoupleGains(h)
  PROVE  couples' = couples /\ Rests(CoupleStages)
<1>1. CoupleStages \in StageSets BY DEF StageSets
<1>2. couples' = couples
 <2>1. ASSUME NEW h \in Handlers, GiftStep(h)
       PROVE  couples' = couples
   BY <2>1 DEF GiftStep, Pay, XpSender, XpReceiver, AddXp, NotifyReceiver, OpenRoomWall, FindWall,
      ContributeToWall, FindBattle, EndExpired, Score, coupleVars
 <2>2. ASSUME NEW h \in Handlers, NEW a \in Accounts, NEW b \in Accounts, NEW r \in Rooms,
              NEW coins \in Costs, StartGift(h, a, b, r, coins)
       PROVE  couples' = couples
   BY <2>2 DEF StartGift, coupleVars
 <2>3. ASSUME Battling \/ Closing \/ Elsewhere \/ UNCHANGED partyVars
       PROVE  couples' = couples
   BY <2>3 DEF Battling, Closing, Elsewhere, partyVars, coupleVars
 <2> QED BY <2>1, <2>2, <2>3 DEF PartyNext, Giving
<1>3. ASSUME NEW h \in Handlers, GiftStep(h), ~Pay(h), GoesOn(h)
      PROVE  Rests(CoupleStages)
 <2>1. job[h].at \notin {"couple", "cp"} BY <1>3, Onwards, Endings DEF GiftStep
 <2>2. PICK at : <<job[h].at, at>> \in Arrows /\ WalksTo(h, at) BY <1>3 DEF GoesOn
 <2>3. job[h].at \in CoupleStages <=> at \in CoupleStages
   BY <2>1, <2>2 DEF Arrows, CoupleStages, EarlyStages
 <2> QED BY <1>1, <2>2, <2>3, WalkRests
<1> QED BY <1>1, <1>2, <1>3, LogStep DEF AllRest

\* What adding points does to the couples.
LEMMA CoupleGain ==
  ASSUME CouplesSeeded, NEW c \in CoupleIds, couples[c] # NoCouple, NEW coins \in Nat, AddCp(c, coins)
  PROVE  /\ CouplesSeeded' /\ couples'[c] # NoCouple
         /\ couples'[c].cp = couples[c].cp + coins /\ couples'[c].status = couples[c].status
         /\ LevelReached(couples'[c].level, CpFactor, couples'[c].cp)
         /\ \A d \in CoupleIds \ {c} : couples'[d] = couples[d]
<1> DEFINE cp == couples[c].cp + coins
<1>1. couples[c] \in CoupleRow /\ cp \in Nat BY CoupleThereRow DEF CoupleRow
<1>2. PICK estimate \in 0..cp :
        couples' = [couples EXCEPT ![c].cp = cp, ![c].level = LevelFrom(estimate, CpFactor, cp)]
  BY DEF AddCp
<1>3. PICK level : level = LevelFrom(estimate, CpFactor, cp) OBVIOUS
<1>4. level \in Nat /\ LevelReached(level, CpFactor, cp)
  BY <1>1, <1>2, <1>3, LevelIsReached, CpFactorPositive
<1> DEFINE row == [[couples[c] EXCEPT !.cp = cp] EXCEPT !.level = level]
<1>5. /\ row \in CoupleRow /\ row.cp = cp /\ row.level = level /\ row.status = couples[c].status
      /\ row.first = couples[c].first /\ row.second = couples[c].second
  BY <1>1, <1>4 DEF CoupleRow
<1>6. couples' = [couples EXCEPT ![c] = row] BY <1>2, <1>3 DEF CouplesSeeded
<1>7. row # NoCouple BY <1>5 DEF CoupleRow, NoCouple
<1> HIDE DEF row
<1>8. couples'[c] = row /\ \A d \in CoupleIds \ {c} : couples'[d] = couples[d] BY <1>6 DEF CouplesSeeded
<1>9. CouplesSeeded' BY <1>5, <1>6, <1>8 DEF CouplesSeeded
<1> QED BY <1>4, <1>5, <1>7, <1>8, <1>9

\* And ending one.
LEMMA CoupleEnds ==
  ASSUME CouplesSeeded, NEW c \in CoupleIds, couples[c] # NoCouple,
         couples' = [couples EXCEPT ![c].status = "ended"]
  PROVE  /\ CouplesSeeded' /\ couples'[c] # NoCouple
         /\ couples'[c].cp = couples[c].cp /\ couples'[c].level = couples[c].level
         /\ couples'[c].status = "ended"
         /\ \A d \in CoupleIds \ {c} : couples'[d] = couples[d]
<1>1. couples[c] \in CoupleRow BY CoupleThereRow
<1> DEFINE row == [couples[c] EXCEPT !.status = "ended"]
<1>2. /\ row \in CoupleRow /\ row.cp = couples[c].cp /\ row.level = couples[c].level
      /\ row.status = "ended" /\ row.first = couples[c].first /\ row.second = couples[c].second
  BY <1>1 DEF CoupleRow
<1>3. row # NoCouple /\ couples' = [couples EXCEPT ![c] = row] BY <1>2 DEF CoupleRow, NoCouple
<1> HIDE DEF row
<1>4. couples'[c] = row /\ \A d \in CoupleIds \ {c} : couples'[d] = couples[d] BY <1>3 DEF CouplesSeeded
<1>5. CouplesSeeded' BY <1>2, <1>3, <1>4 DEF CouplesSeeded
<1> QED BY <1>2, <1>3, <1>4, <1>5

\* Steps that end a couple, or ask to.
LEMMA PartingStep ==
  ASSUME Typed, CouplesFound, Parting
  PROVE  \/ couples' = couples
         \/ \E c \in CoupleIds : /\ couples[c] # NoCouple
                                 /\ couples' = [couples EXCEPT ![c].status = "ended"]
<1>1. ASSUME NEW h \in Handlers, EndCouple(h)
      PROVE  \E c \in CoupleIds : /\ couples[c] # NoCouple
                                  /\ couples' = [couples EXCEPT ![c].status = "ended"]
 <2>1. job[h] \in UnpairJob
   BY <1>1 DEF EndCouple, Doing, Typed, JobsTyped, Jobs, Idle, GiftJob, AnswerJob, CloseJob, EndJob
 <2> QED BY <1>1, <2>1 DEF EndCouple, Doing, UnpairJob, CouplesFound
<1>2. ASSUME NEW h \in Handlers, NEW c \in CoupleIds, StartUnpair(h, c)
      PROVE  couples' = couples
  BY <1>2 DEF StartUnpair, coupleVars
<1> QED BY <1>1, <1>2 DEF Parting, UnpairRequest, UnpairStep

\* Couples keep their partners, and what requests found.
LEMMA CouplesFoundKept ==
  ASSUME Typed, Logged, CouplesSeeded, CouplesFound, [PartyNext]_partyVars,
         \A c \in CoupleIds : couples[c] # NoCouple => couples'[c] # NoCouple
  PROVE  CouplesFound'
<1> SUFFICES ASSUME NEW i \in Handlers
             PROVE  (/\ job[i].op = "gift" /\ job[i].at = "cp" =>
                          /\ job[i].found \in CoupleIds /\ couples[job[i].found] # NoCouple
                          /\ {job[i].from, job[i].to} = Pair(job[i].found)
                     /\ job[i].op = "unpair" => couples[job[i].key] # NoCouple)'
  BY DEF CouplesFound
<1>1. CASE job'[i] = job[i]
 <2>1. job[i].op = "unpair" => job[i].key \in CoupleIds
   BY DEF Typed, JobsTyped, Jobs, Idle, GiftJob, AnswerJob, CloseJob, EndJob, UnpairJob
 <2> QED BY <1>1, <2>1 DEF CouplesFound, Pair
<1>2. ASSUME NEW c, FindCouple(i), Remember(i, c, "cp")
      PROVE  (/\ job[i].op = "gift" /\ job[i].found = c /\ job[i].at = "cp"
              /\ c \in CoupleIds /\ couples[c] # NoCouple
              /\ {job[i].from, job[i].to} = Pair(c))'
 <2>1. c \in CoupleIds /\ couples[c] # NoCouple /\ {job[i].from, job[i].to} = Pair(c) BY <1>2, CoupleLooked
 <2>2. job[i].op = "gift" /\ job[i] \in GiftJob BY <1>2, GiftJobs DEF FindCouple, Doing, Typed
 <2>3. /\ job'[i].op = "gift" /\ job'[i].found = c /\ job'[i].at = "cp"
       /\ job'[i].from = job[i].from /\ job'[i].to = job[i].to
   BY <1>2, <2>2 DEF Remember, Typed, JobsTyped, GiftJob
 <2> QED BY <2>1, <2>3 DEF Pair
<1>3. ASSUME NEW c \in CoupleIds, StartUnpair(i, c)
      PROVE  job'[i].op = "unpair" /\ job'[i].key = c /\ couples[c] # NoCouple
  BY <1>3 DEF StartUnpair, Accept, Active, NoCouple, Typed, JobsTyped
<1>4. ASSUME NEW b, FindBattle(i), Remember(i, b, "score")
      PROVE  job'[i].op = "gift" /\ job'[i].at = "score"
 <2>1. job[i].op = "gift" /\ job[i] \in GiftJob BY <1>4, GiftJobs DEF FindBattle, Doing, Typed
 <2> QED BY <1>4, <2>1 DEF Remember, Typed, JobsTyped, GiftJob
<1> QED BY <1>1, <1>2, <1>3, <1>4, JobChanges

\* A couple's points stay between the two.
LEMMA CouplesKept ==
  ASSUME Typed, Typed', Apart, Logged, Logged', CouplesCounted, [PartyNext]_partyVars
  PROVE  CouplesCounted'
<1>1. PICK G : G = gifts' OBVIOUS
<1>2. Priced(G) /\ gifts \subseteq G
 <2>1. gifts \subseteq gifts' BY GiftsGrow
 <2> QED BY <1>1, <2>1, GiftsPriced DEF Typed, Logged
<1>3. \A c \in CoupleIds : CpSure(c) \subseteq gifts /\ CpLikely(c) \subseteq gifts
        /\ CpLikely(c)' \subseteq G
  BY <1>1 DEF CpSure, CpLikely, Between, Past, Behind
<1>4. ASSUME NEW c \in CoupleIds, couples[c] # NoCouple, couples'[c] # NoCouple,
             couples'[c].cp = couples[c].cp, couples'[c].level = couples[c].level,
             CpSure(c)' \subseteq CpSure(c), CpLikely(c) \subseteq CpLikely(c)'
      PROVE  (Tally(CpSure(c), CpLikely(c), couples[c].cp)
              /\ LevelReached(couples[c].level, CpFactor, couples[c].cp))'
 <2>1. Tally(CpSure(c), CpLikely(c), couples[c].cp) /\ CpSure(c) \subseteq G
   BY <1>2, <1>3, <1>4 DEF CouplesCounted, CpCounted
 <2>2. Tally(CpSure(c)', CpLikely(c)', couples[c].cp) BY <1>2, <1>3, <1>4, <2>1, TallyKept
 <2>3. LevelReached(couples[c].level, CpFactor, couples[c].cp) BY <1>4 DEF CouplesCounted, CpCounted
 <2> QED BY <1>4, <2>2, <2>3
<1>5. CASE couples' = couples /\ Rests(CoupleStages)
 <2>1. CouplesSeeded' /\ CouplesFound' BY <1>5, CouplesFoundKept DEF CouplesCounted, CouplesSeeded
 <2>2. /\ Past(CoupleStages)' \subseteq Past(CoupleStages)
       /\ Behind(CoupleStages) \subseteq Behind(CoupleStages)'
       /\ \A g \in gifts' : ~InFlight("gift", g.id, CoupleStages)' => g \in gifts
   BY <1>5, RestsPast DEF Rests
 <2>3. ASSUME NEW c \in CoupleIds
       PROVE  CpSure(c)' \subseteq CpSure(c) /\ CpLikely(c) \subseteq CpLikely(c)'
  <3>1. Between(c)' \cap Past(CoupleStages)' \subseteq Between(c) \cap Past(CoupleStages)
    BY <2>2 DEF Between, Past, Pair
  <3>2. Between(c) \subseteq Between(c)' BY <1>1, <1>2 DEF Between, Pair
  <3> QED BY <1>5, <2>2, <3>1, <3>2 DEF CpSure, CpLikely
 <2> QED BY <1>4, <1>5, <2>1, <2>3 DEF CouplesCounted, CpCounted
<1>6. ASSUME NEW h \in Handlers, FindCouple(h)
      PROVE  CouplesCounted'
 <2>1. couples' = couples BY <1>6 DEF FindCouple, coupleVars
 <2>2. CASE Goto(h, "notify") /\ \E g \in gifts : GiftOf(h, g) /\ Passes(CoupleStages, g)
  <3>1. PICK g \in gifts : GiftOf(h, g) /\ Passes(CoupleStages, g) BY <2>2
  <3>2. /\ Past(CoupleStages)' \subseteq Past(CoupleStages) \cup {g}
        /\ Behind(CoupleStages) \subseteq Behind(CoupleStages)' /\ gifts' = gifts
    BY <3>1, PassesPast
  <3>3. \A d \in CoupleIds : couples[d].status = "active" => {g.from, g.to} # Pair(d)
    BY <1>6, <2>2, <3>1, CoupleLooked DEF CouplesCounted, GiftOf
  <3>4. ASSUME NEW c \in CoupleIds
        PROVE  CpSure(c)' \subseteq CpSure(c) /\ CpLikely(c) \subseteq CpLikely(c)'
   <4>1. Between(c)' = Between(c) BY <3>2 DEF Between, Pair
   <4>2. couples[c].status = "active" => g \notin Between(c) BY <3>3 DEF Between
   <4> QED BY <2>1, <3>2, <4>1, <4>2 DEF CpSure, CpLikely
  <3>5. CouplesSeeded' /\ CouplesFound' BY <2>1, CouplesFoundKept DEF CouplesCounted, CouplesSeeded
  <3> QED BY <1>4, <2>1, <3>4, <3>5 DEF CouplesCounted, CpCounted
 <2> QED BY <1>5, <1>6, <2>1, <2>2, CoupleWalks
<1>7. ASSUME NEW h \in Handlers, CoupleGains(h)
      PROVE  CouplesCounted'
 <2>1. PICK g \in gifts : GiftOf(h, g) /\ Passes(CoupleStages, g) BY <1>7, CoupleWalks
 <2>2. /\ Past(CoupleStages)' \subseteq Past(CoupleStages) \cup {g}
       /\ Behind(CoupleStages) \cup {g} \subseteq Behind(CoupleStages)' /\ gifts' = gifts
       /\ g \notin Past(CoupleStages) /\ g \notin Behind(CoupleStages)
   BY <2>1, PassesPast
 <2>3. PICK c \in CoupleIds : /\ couples[c] # NoCouple /\ {g.from, g.to} = Pair(c)
                              /\ AddCp(c, g.coins)
  <3>1. job[h].op = "gift" /\ job[h].at = "cp" BY <1>7 DEF CoupleGains, Doing
  <3> QED BY <1>7, <2>1, <3>1 DEF CoupleGains, CouplesCounted, CouplesFound, GiftOf
 <2>4. g.coins \in Nat /\ g \in G /\ c \in DOMAIN CoupleSeed
   BY <1>2, <2>1, <2>3 DEF Priced, CouplesCounted, CouplesSeeded
 <2>5. /\ CouplesSeeded' /\ couples'[c] # NoCouple
       /\ couples'[c].cp = couples[c].cp + g.coins /\ couples'[c].status = couples[c].status
       /\ LevelReached(couples'[c].level, CpFactor, couples'[c].cp)
       /\ \A d \in CoupleIds \ {c} : couples'[d] = couples[d]
   BY <2>3, <2>4, CoupleGain DEF CouplesCounted
 <2>6. CouplesFound' BY <2>5, CouplesFoundKept DEF CouplesCounted
 <2>7. \A d \in CoupleIds : Between(d)' = Between(d) BY <2>2 DEF Between, Pair
 <2>8. ASSUME NEW d \in CoupleIds, d # c, couples[d] # NoCouple
       PROVE  CpSure(d)' \subseteq CpSure(d) /\ CpLikely(d) \subseteq CpLikely(d)'
  <3>1. d \in DOMAIN CoupleSeed BY <2>8 DEF CouplesCounted, CouplesSeeded
  <3>2. g \notin Between(d) BY <2>3, <2>4, <2>8, <3>1, PairsApart DEF Between
  <3> QED BY <2>2, <2>5, <2>7, <2>8, <3>2 DEF CpSure, CpLikely
 <2>9. Tally(CpSure(c)', CpLikely(c)', couples[c].cp + g.coins)
  <3>1. g \in Between(c) BY <2>1, <2>3 DEF Between
  <3>2. /\ CpSure(c)' \subseteq CpSure(c) \cup {g} /\ g \notin CpSure(c)
        /\ CpLikely(c) \cup {g} \subseteq CpLikely(c)' /\ g \notin CpLikely(c)
    BY <2>2, <2>5, <2>7, <3>1 DEF CpSure, CpLikely
  <3>3. Tally(CpSure(c), CpLikely(c), couples[c].cp) /\ CpSure(c) \subseteq G
    BY <1>2, <1>3, <2>3 DEF CouplesCounted, CpCounted
  <3> QED BY <1>2, <1>3, <2>4, <3>2, <3>3, TallyAdds
 <2>10. ASSUME NEW d \in CoupleIds, couples'[d] # NoCouple
        PROVE  (Tally(CpSure(d), CpLikely(d), couples[d].cp)
                /\ LevelReached(couples[d].level, CpFactor, couples[d].cp))'
  <3>1. CASE d = c BY <2>5, <2>9, <3>1
  <3>2. CASE d # c BY <1>4, <2>5, <2>8, <2>10, <3>2
  <3> QED BY <3>1, <3>2
 <2> QED BY <2>5, <2>6, <2>10 DEF CouplesCounted, CpCounted
<1>8. ASSUME Parting
      PROVE  CouplesCounted'
 <2>1. AllRest /\ gifts' = gifts
  <3>1. gifts' = gifts BY <1>8, AsideSteps
  <3>2. ASSUME NEW h \in Handlers, Interrupted(h)
        PROVE  AllRest
    BY <3>1, <3>2, CutOff
  <3>3. Aside /\ dropped' = dropped => AllRest BY <3>1, OthersRest DEF Aside, NotLogged
  <3> QED BY <1>8, <3>1, <3>2, <3>3, AsideSteps
 <2>2. Rests(CoupleStages) BY <2>1 DEF AllRest, StageSets
 <2>3. CASE couples' = couples BY <1>5, <2>2, <2>3
 <2>4. ASSUME NEW c \in CoupleIds, couples[c] # NoCouple,
              couples' = [couples EXCEPT ![c].status = "ended"]
       PROVE  CouplesCounted'
  <3>1. /\ CouplesSeeded' /\ couples'[c] # NoCouple
        /\ couples'[c].cp = couples[c].cp /\ couples'[c].level = couples[c].level
        /\ couples'[c].status = "ended"
        /\ \A d \in CoupleIds \ {c} : couples'[d] = couples[d]
    BY <2>4, CoupleEnds DEF CouplesCounted
  <3>2. CouplesFound' BY <3>1, CouplesFoundKept DEF CouplesCounted
  <3>3. /\ Past(CoupleStages)' \subseteq Past(CoupleStages)
        /\ Behind(CoupleStages) \subseteq Behind(CoupleStages)'
        /\ \A d \in CoupleIds : Between(d)' = Between(d)
    BY <2>1, <2>2, RestsPast DEF Between, Pair
  <3>4. ASSUME NEW d \in CoupleIds
        PROVE  CpSure(d)' \subseteq CpSure(d) /\ CpLikely(d) \subseteq CpLikely(d)'
    BY <3>1, <3>3 DEF CpSure, CpLikely
  <3>5. \A d \in CoupleIds : couples'[d] # NoCouple =>
          /\ couples[d] # NoCouple
          /\ couples'[d].cp = couples[d].cp /\ couples'[d].level = couples[d].level
    BY <2>4, <3>1
  <3> QED BY <1>4, <3>1, <3>2, <3>4, <3>5 DEF CouplesCounted, CpCounted
 <2> QED BY <1>8, <2>3, <2>4, PartingStep DEF CouplesCounted
<1> QED BY <1>5, <1>6, <1>7, <1>8, CpElse

\* So a couple's points are its partners' coins.
LEMMA CpPaid ==
  ASSUME Typed, Logged, CouplesCounted
  PROVE  /\ CpEarned
         /\ \A c \in CoupleIds : couples[c] # NoCouple =>
              LevelReached(couples[c].level, CpFactor, couples[c].cp)
<1>1. PICK G : G = gifts /\ Priced(G) BY GiftsPriced DEF Typed, Logged
<1>2. ASSUME NEW c \in CoupleIds, couples[c] # NoCouple
      PROVE  LET between == {g \in gifts : {g.from, g.to} = {couples[c].first, couples[c].second}} IN
             /\ couples[c].cp <= Coins(between)
             /\ couples[c].status = "active" => couples[c].cp >= Coins(between \cap Past(CoupleStages))
 <2>1. Tally(CpSure(c), CpLikely(c), couples[c].cp) BY <1>2 DEF CouplesCounted, CpCounted
 <2>2. PICK B : B = Between(c) OBVIOUS
 <2>3. B = {g \in gifts : {g.from, g.to} = {couples[c].first, couples[c].second}}
   BY <1>2, <2>2, CoupleThereRow DEF CouplesCounted, Between
 <2>4. B \subseteq G /\ CpLikely(c) \subseteq B BY <1>1, <2>2 DEF Between, CpLikely
 <2>5. Coins(CpLikely(c)) \in Nat /\ Coins(B) \in Nat /\ Coins(CpLikely(c)) <= Coins(B)
   BY <1>1, <2>4, CoinsLess
 <2>6. couples[c].cp \in Nat /\ couples[c].cp <= Coins(B) BY <2>1, <2>5 DEF Tally
 <2>7. couples[c].status = "active" => couples[c].cp >= Coins(B \cap Past(CoupleStages))
  <3>1. Coins(B \cap Past(CoupleStages)) \in Nat
   <4>1. B \cap Past(CoupleStages) \subseteq B OBVIOUS
   <4> QED BY <1>1, <2>4, <4>1, CoinsLess
  <3> QED BY <2>1, <2>2, <3>1 DEF CpSure, Tally
 <2> QED BY <2>3, <2>6, <2>7
<1> QED BY <1>2 DEF CpEarned, CouplesCounted, CpCounted
-----------------------------
\* The gifts an account was given in a room that may have scored.
ScoreLikely(r, a) == {g \in Behind(AllStages) : g.room = r /\ g.to = a}

\* A room's scores are of such gifts, and a request that is to score has a
\* battle of its gift's room.
ScoresCounted ==
  /\ \A r \in Rooms, a \in Accounts : Tally({}, ScoreLikely(r, a), ScoreIn(r, a))
  /\ \A h \in Handlers : job[h].op = "gift" /\ job[h].at = "score" =>
        /\ job[h].found \in BattleIds /\ battles[job[h].found] # NoBattle
        /\ battles[job[h].found].room = job[h].room

\* Battles that are there stay as they were, but for their status and outcome,
\* and a new one has no points.
ScoresStay ==
  \A b \in BattleIds :
     IF battles[b] # NoBattle
     THEN /\ battles'[b] # NoBattle
          /\ battles'[b].room = battles[b].room /\ battles'[b].score = battles[b].score
          /\ battles'[b].host = battles[b].host /\ battles'[b].opponent = battles[b].opponent
     ELSE battles'[b] = NoBattle \/ \A side \in Sides : battles'[b].score[side] = 0

\* All sides of all battles are finitely many.
LEMMA AllSidesFinite == IsFiniteSet(BattleIds \X Sides)
<1>1. IsFiniteSet({"host"})
 <2>1. {"host"} = {} \cup {"host"} OBVIOUS
 <2> QED BY <2>1, FS_EmptySet, FS_AddElement
<1>2. Sides = {"host"} \cup {"opponent"} BY DEF Sides
<1>3. IsFiniteSet(Sides) BY <1>1, <1>2, FS_AddElement
<1> QED BY <1>3, GiftsFinite, FS_Product

\* The sides of an account in a room are finitely many, with a score each.
LEMMA SidesScored ==
  ASSUME Typed, NEW r, NEW a
  PROVE  /\ IsFiniteSet(SidesIn(r, a))
         /\ \A p \in SidesIn(r, a) : p[1] \in BattleIds /\ p[2] \in Sides
                                     /\ battles[p[1]].score[p[2]] \in Nat
<1>1. IsFiniteSet(BattleIds \X Sides) BY AllSidesFinite
<1>2. SidesIn(r, a) \subseteq BattleIds \X Sides BY DEF SidesIn
<1>3. ASSUME NEW p \in SidesIn(r, a)
      PROVE  p[1] \in BattleIds /\ p[2] \in Sides /\ battles[p[1]].score[p[2]] \in Nat
 <2>1. p[1] \in BattleIds /\ p[2] \in Sides /\ battles[p[1]] # NoBattle BY DEF SidesIn
 <2>2. battles[p[1]] \in BattleRow BY <2>1, RowThere
 <2> QED BY <2>1, <2>2 DEF BattleRow
<1> QED BY <1>1, <1>2, <1>3, FS_Subset

\* So what it scored there stays.
LEMMA ScoreStays ==
  ASSUME Typed, Typed', ScoresStay, NEW r, NEW a
  PROVE  ScoreIn(r, a)' = ScoreIn(r, a)
<1>1. PICK S, T, f, g :
        /\ S = SidesIn(r, a) /\ T = SidesIn(r, a)'
        /\ f = [p \in S |-> battles[p[1]].score[p[2]]]
        /\ g = [p \in T |-> battles'[p[1]].score[p[2]]]
  OBVIOUS
<1>2. ScoreIn(r, a) = SumFunctionOnSet(f, S) /\ ScoreIn(r, a)' = SumFunctionOnSet(g, T) BY <1>1 DEF ScoreIn
<1>3. IsFiniteSet(S) /\ \A p \in S : p[1] \in BattleIds /\ p[2] \in Sides /\ f[p] \in Nat
  BY <1>1, SidesScored
<1>4. IsFiniteSet(BattleIds \X Sides) BY AllSidesFinite
<1>5. IsFiniteSet(T) /\ \A p \in T : p[1] \in BattleIds /\ p[2] \in Sides /\ battles'[p[1]] # NoBattle
 <2>1. T \subseteq BattleIds \X Sides /\ \A p \in T : battles'[p[1]] # NoBattle BY <1>1 DEF SidesIn
 <2> QED BY <1>4, <2>1, FS_Subset
<1>6. S \subseteq T
 <2>1. ASSUME NEW p \in S
       PROVE  p \in T
  <3>1. /\ p \in BattleIds \X Sides /\ battles[p[1]] # NoBattle /\ battles[p[1]].room = r
        /\ p[2] \in SidesOf(p[1], a)
    BY <1>1, <2>1 DEF SidesIn
  <3>2. /\ battles'[p[1]] # NoBattle /\ battles'[p[1]].room = r /\ p[2] \in SidesOf(p[1], a)'
    BY <3>1 DEF ScoresStay, SidesOf
  <3> QED BY <1>1, <3>1, <3>2 DEF SidesIn
 <2> QED BY <2>1
<1>7. ASSUME NEW p \in S
      PROVE  g[p] = f[p]
 <2>1. battles[p[1]] # NoBattle BY <1>1, <1>7 DEF SidesIn
 <2> QED BY <1>1, <1>3, <1>6, <2>1 DEF ScoresStay
<1>8. ASSUME NEW p \in T \ S
      PROVE  g[p] = 0
 <2>1. CASE battles[p[1]] = NoBattle BY <1>1, <1>5, <2>1 DEF ScoresStay
 <2>2. CASE battles[p[1]] # NoBattle
  <3>1. p \in BattleIds \X Sides /\ battles'[p[1]].room = r /\ p[2] \in SidesOf(p[1], a)'
    BY <1>1 DEF SidesIn
  <3>2. battles[p[1]].room = r /\ p[2] \in SidesOf(p[1], a) BY <1>5, <2>2, <3>1 DEF ScoresStay, SidesOf
  <3> QED BY <1>1, <2>2, <3>1, <3>2 DEF SidesIn
 <2> QED BY <2>1, <2>2
<1>9. \A p \in T : g[p] \in Nat /\ g[p] \in Int BY <1>3, <1>7, <1>8
<1>10. SumFunctionOnSet(g, T) = SumFunctionOnSet(g, S) + SumFunctionOnSet(g, T \ S)
  BY <1>5, <1>6, <1>9, SumParts
<1>11. SumFunctionOnSet(g, T \ S) = 0
 <2>1. IsFiniteSet(T \ S) BY <1>5, FS_Subset
 <2> QED BY <1>8, <1>9, <2>1, SumNat
<1>12. SumFunctionOnSet(g, S) = SumFunctionOnSet(f, S) /\ SumFunctionOnSet(g, S) \in Nat
  BY <1>3, <1>7, SumSame, SumNat
<1> QED BY <1>2, <1>10, <1>11, <1>12

\* Gifts that may have scored are told so for ever.
LEMMA ScoreBehind ==
  ASSUME Typed, Apart, Logged, [PartyNext]_partyVars
  PROVE  Behind(AllStages) \subseteq Behind(AllStages)' /\ gifts \subseteq gifts'
<1>1. AllStages \in StageSets BY DEF StageSets
<1>2. CASE AllRest BY <1>1, <1>2, RestsPast DEF AllRest
<1>3. ASSUME NEW h \in Handlers, GoesOn(h)
      PROVE  Behind(AllStages) \subseteq Behind(AllStages)' /\ gifts \subseteq gifts'
 <2>1. PICK at : <<job[h].at, at>> \in Arrows /\ WalksTo(h, at) BY <1>3 DEF GoesOn
 <2>2. job[h].at \in AllStages BY <2>1 DEF Arrows, AllStages, WallStages, CoupleStages, EarlyStages
 <2>3. Rests(AllStages) \/ \E g \in gifts : Passes(AllStages, g) BY <1>1, <2>1, <2>2, WalkRests
 <2> QED BY <2>3, RestsPast, PassesPast
<1> QED BY <1>2, <1>3, LogStep

\* Only Score adds points.
LEMMA ScoreElse ==
  ASSUME Typed, DrawnOnce, [PartyNext]_partyVars, \A h \in Handlers : ~Score(h)
  PROVE  ScoresStay
<1>1. battles' = battles => ScoresStay BY DEF ScoresStay
<1>2. ASSUME NEW b \in BattleIds, battles[b].status \in {"pending", "active"},
             NEW status, NEW until, NEW winner,
             \/ battles' = [battles EXCEPT ![b].status = status, ![b].endsAt = until]
             \/ battles' = [battles EXCEPT ![b].status = status, ![b].winner = winner],
             status # "none"
      PROVE  ScoresStay
 <2>1. battles[b] \in BattleRow /\ battles[b] # NoBattle BY <1>2, RowThere DEF NoBattle
 <2>2. /\ battles'[b].room = battles[b].room /\ battles'[b].score = battles[b].score
       /\ battles'[b].host = battles[b].host /\ battles'[b].opponent = battles[b].opponent
       /\ battles'[b].status = status
   BY <1>2, <2>1 DEF BattleRow, Typed
 <2>3. battles'[b] # NoBattle BY <1>2, <2>2 DEF NoBattle
 <2>4. \A c \in BattleIds \ {b} : battles'[c] = battles[c] BY <1>2 DEF Typed
 <2> QED BY <2>1, <2>2, <2>3, <2>4 DEF ScoresStay
<1>3. ASSUME NEW b \in BattleIds, EndRow(b)
      PROVE  ScoresStay
  BY <1>1, <1>2, <1>3 DEF EndRow
<1>4. ASSUME NEW r \in Rooms, NEW a \in Accounts, Challenge(r, a)
      PROVE  ScoresStay
 <2>1. PICK b \in BattleIds \ issued :
         battles' = [battles EXCEPT ![b] =
            [room |-> r, host |-> Owner[r], opponent |-> a, status |-> "pending",
             score |-> [s \in Sides |-> 0], winner |-> Nobody, endsAt |-> 0]]
   BY <1>4 DEF Challenge
 <2>2. battles[b] = NoBattle BY <2>1 DEF DrawnOnce
 <2>3. \A side \in Sides : battles'[b].score[side] = 0 BY <2>1 DEF Typed
 <2>4. \A c \in BattleIds \ {b} : battles'[c] = battles[c] BY <2>1 DEF Typed
 <2> QED BY <2>2, <2>3, <2>4 DEF ScoresStay
<1>5. ASSUME NEW h \in Handlers, Answer(h)
      PROVE  ScoresStay
 <2>1. job[h] \in AnswerJob
   BY <1>5 DEF Answer, Doing, Typed, JobsTyped, Jobs, Idle, GiftJob, EndJob, CloseJob, UnpairJob
 <2>2. CASE battles[job[h].key].status # "pending" BY <1>1, <1>5, <2>2 DEF Answer
 <2>3. CASE battles[job[h].key].status = "pending"
  <3>1. job[h].key \in BattleIds /\ job[h].answer # "none" BY <2>1 DEF AnswerJob
  <3> DEFINE until == IF job[h].answer = "active" THEN time + Round ELSE battles[job[h].key].endsAt
  <3>2. battles' = [battles EXCEPT ![job[h].key].status = job[h].answer, ![job[h].key].endsAt = until]
    BY <1>5, <2>3, <3>1 DEF Answer, Typed
  <3> HIDE DEF until
  <3> QED BY <1>2, <2>3, <3>1, <3>2
 <2> QED BY <2>2, <2>3
<1>6. ASSUME NEW h \in Handlers, EndBattle(h)
      PROVE  ScoresStay
 <2>1. job[h] \in EndJob
   BY <1>6 DEF EndBattle, Doing, Typed, JobsTyped, Jobs, Idle, GiftJob, AnswerJob, CloseJob, UnpairJob
 <2> QED BY <1>3, <1>6, <2>1 DEF EndBattle, EndJob
<1>7. ASSUME NEW h \in Handlers, EndExpired(h)
      PROVE  ScoresStay
 <2>1. job[h].found \in BattleIds BY <1>7 DEF EndExpired, Doing, Typed, JobsTyped, FoundTyped
 <2> QED BY <1>3, <1>7, <2>1 DEF EndExpired
<1>8. ASSUME NEW h \in Handlers, GiftStep(h), ~Score(h), ~EndExpired(h)
      PROVE  battles' = battles
  BY <1>8 DEF GiftStep, Pay, XpSender, XpReceiver, AddXp, FindCouple, CoupleGains, NotifyReceiver,
     OpenRoomWall, FindWall, ContributeToWall, FindBattle
<1>9. ASSUME NEW h \in Handlers, NEW a \in Accounts, NEW b \in Accounts, NEW r \in Rooms,
             NEW coins \in Costs, StartGift(h, a, b, r, coins)
      PROVE  battles' = battles
  BY <1>9 DEF StartGift
<1>10. ASSUME Closing \/ Parting \/ Elsewhere \/ UNCHANGED partyVars
       PROVE  battles' = battles
  BY <1>10 DEF Closing, Parting, Elsewhere, partyVars
<1>11. CASE Battling
 <2>1. ASSUME NEW h \in Handlers, NEW b \in BattleIds,
              \/ \E answer \in {"active", "declined", "cancelled"} : StartAnswer(h, b, answer)
              \/ StartEnd(h, b)
       PROVE  battles' = battles
   BY <2>1 DEF StartAnswer, StartEnd
 <2> QED BY <1>1, <1>4, <1>5, <1>6, <1>11, <2>1 DEF Battling, BattleRequest, BattleStep
<1> QED BY <1>1, <1>7, <1>8, <1>9, <1>10, <1>11 DEF PartyNext, Giving

\* A request that scores found a battle of its room.
LEMMA BattleLooked ==
  ASSUME Typed, NEW h \in Handlers, FindBattle(h), NEW b, Remember(h, b, "score")
  PROVE  b \in BattleIds /\ battles[b] # NoBattle /\ battles[b].room = job[h].room
<1>1. job[h].op = "gift" /\ job[h] \in GiftJob BY GiftJobs DEF FindBattle, Doing, Typed
<1>2. job'[h].op = "gift" /\ job'[h].at = "score" /\ job'[h].found = b
  BY <1>1 DEF Remember, Typed, JobsTyped, GiftJob
<1>3. ~Finish(h) BY <1>2 DEF Finish, Idle, Typed, JobsTyped
<1>4. ASSUME NEW x, Remember(h, x, "end")
      PROVE  FALSE
 <2>1. job'[h].at = "end" BY <1>1, <1>4 DEF Remember, Typed, JobsTyped, GiftJob
 <2> QED BY <1>2, <2>1
<1>5. PICK c \in OpenIn(job[h].room) : battles[c].status = "active" /\ Remember(h, c, "score")
  BY <1>3, <1>4 DEF FindBattle
<1>6. c = b BY <1>1, <1>2, <1>5 DEF Remember, Typed, JobsTyped, GiftJob
<1> QED BY <1>5, <1>6 DEF OpenIn, NoBattle

\* A score stays covered by the gifts that may have scored.
LEMMA ScoresKept ==
  ASSUME Typed, Typed', Apart, Logged, Logged', DrawnOnce, ScoresCounted, [PartyNext]_partyVars
  PROVE  ScoresCounted'
<1>1. PICK G : G = gifts' OBVIOUS
<1>2. Priced(G) /\ gifts \subseteq G /\ Behind(AllStages) \subseteq Behind(AllStages)'
  BY <1>1, GiftsPriced, ScoreBehind DEF Typed, Logged
<1>3. ASSUME NEW r, NEW a
      PROVE  /\ ScoreLikely(r, a) \subseteq ScoreLikely(r, a)' /\ ScoreLikely(r, a)' \subseteq G
             /\ ScoreLikely(r, a) \subseteq gifts
  BY <1>1, <1>2 DEF ScoreLikely, Behind
<1>4. ASSUME NEW r \in Rooms, NEW a \in Accounts, ScoreIn(r, a)' = ScoreIn(r, a)
      PROVE  Tally({}, ScoreLikely(r, a), ScoreIn(r, a))'
 <2>1. Tally({}, ScoreLikely(r, a), ScoreIn(r, a)) BY DEF ScoresCounted
 <2>2. Tally({}, ScoreLikely(r, a)', ScoreIn(r, a)) BY <1>2, <1>3, <2>1, TallyKept
 <2> QED BY <1>4, <2>2
<1>5. ASSUME \A b \in BattleIds : battles[b] # NoBattle =>
               battles'[b] # NoBattle /\ battles'[b].room = battles[b].room,
             NEW h \in Handlers, job'[h].op = "gift", job'[h].at = "score"
      PROVE  (/\ job[h].found \in BattleIds /\ battles[job[h].found] # NoBattle
              /\ battles[job[h].found].room = job[h].room)'
 <2>1. CASE job'[h] = job[h] BY <1>5, <2>1 DEF ScoresCounted
 <2>2. ASSUME NEW b, FindBattle(h), Remember(h, b, "score")
       PROVE  (/\ job[h].found \in BattleIds /\ battles[job[h].found] # NoBattle
               /\ battles[job[h].found].room = job[h].room)'
  <3>1. b \in BattleIds /\ battles[b] # NoBattle /\ battles[b].room = job[h].room BY <2>2, BattleLooked
  <3>2. job[h].op = "gift" /\ job[h] \in GiftJob BY <2>2, GiftJobs DEF FindBattle, Doing, Typed
  <3>3. job'[h].found = b /\ job'[h].room = job[h].room
    BY <2>2, <3>2 DEF Remember, Typed, JobsTyped, GiftJob
  <3> QED BY <1>5, <3>1, <3>3
 <2>3. ASSUME NEW c, FindCouple(h), Remember(h, c, "cp")
       PROVE  FALSE
  <3>1. job[h].op = "gift" /\ job[h] \in GiftJob BY <2>3, GiftJobs DEF FindCouple, Doing, Typed
  <3> QED BY <1>5, <2>3, <3>1 DEF Remember, Typed, JobsTyped, GiftJob
 <2>4. ASSUME NEW c, StartUnpair(h, c)
       PROVE  FALSE
   BY <1>5, <2>4 DEF StartUnpair, Accept, Typed, JobsTyped
 <2> QED BY <1>5, <2>1, <2>2, <2>3, <2>4, JobChanges
<1>6. ASSUME ScoresStay
      PROVE  ScoresCounted'
 <2>1. \A r \in Rooms, a \in Accounts : Tally({}, ScoreLikely(r, a), ScoreIn(r, a))'
   BY <1>4, <1>6, ScoreStays
 <2>2. \A b \in BattleIds : battles[b] # NoBattle =>
              battles'[b] # NoBattle /\ battles'[b].room = battles[b].room
   BY <1>6 DEF ScoresStay
 <2> QED BY <1>5, <2>1, <2>2 DEF ScoresCounted
<1>7. ASSUME NEW h \in Handlers, Score(h)
      PROVE  ScoresCounted'
 <2>1. PICK g \in gifts : GiftOf(h, g) /\ Passes(AllStages, g)
  <3>1. job[h].at = "score" /\ WalksTo(h, "over") BY <1>7, Endings
  <3>2. "score" \in AllStages /\ "over" \notin AllStages /\ AllStages \in StageSets
    BY DEF AllStages, WallStages, CoupleStages, EarlyStages, StageSets
  <3> QED BY <3>1, <3>2, WalkRests
 <2>2. PICK b, side : b = job[h].found /\ side \in SidesOf(b, g.to) /\ AddScore(b, side, g.coins)
   BY <1>7, <2>1 DEF Score, GiftOf
 <2>3. b \in BattleIds /\ battles[b] # NoBattle /\ battles[b].room = g.room /\ side \in Sides
   BY <1>7, <2>1, <2>2 DEF Score, Doing, ScoresCounted, GiftOf, SidesOf
 <2>4. CASE battles[b].status # "active"
  <3>1. battles' = battles BY <2>2, <2>4 DEF AddScore
  <3> QED BY <1>6, <3>1 DEF ScoresStay
 <2>5. CASE battles[b].status = "active"
  <3>1. battles' = [battles EXCEPT ![b].score[side] = @ + g.coins] BY <2>2, <2>5 DEF AddScore
  <3>2. battles[b] \in BattleRow /\ g.coins \in Nat /\ g \in G BY <1>2, <2>1, <2>3, RowThere DEF Priced
  <3>3. /\ battles'[b].room = battles[b].room /\ battles'[b].status = battles[b].status
        /\ battles'[b].host = battles[b].host /\ battles'[b].opponent = battles[b].opponent
        /\ battles'[b].score[side] = battles[b].score[side] + g.coins
        /\ \A s \in Sides \ {side} : battles'[b].score[s] = battles[b].score[s]
    BY <2>3, <3>1, <3>2 DEF BattleRow, Typed
  <3>4. \A c \in BattleIds \ {b} : battles'[c] = battles[c] BY <3>1 DEF Typed
  <3>5. battles'[b] # NoBattle BY <2>5, <3>3 DEF NoBattle
  <3>6. ASSUME NEW r \in Rooms, NEW a \in Accounts
        PROVE  SidesIn(r, a)' = SidesIn(r, a)
    BY <2>3, <3>3, <3>4, <3>5 DEF SidesIn, SidesOf
  <3>7. ASSUME NEW r \in Rooms, NEW a \in Accounts
        PROVE  Tally({}, ScoreLikely(r, a), ScoreIn(r, a))'
   <4>1. PICK S, f, k :
           /\ S = SidesIn(r, a)
           /\ f = [p \in S |-> battles[p[1]].score[p[2]]]
           /\ k = [p \in S |-> battles'[p[1]].score[p[2]]]
     OBVIOUS
   <4>2. ScoreIn(r, a) = SumFunctionOnSet(f, S) /\ ScoreIn(r, a)' = SumFunctionOnSet(k, S)
     BY <3>6, <4>1 DEF ScoreIn
   <4>3. IsFiniteSet(S) /\ \A p \in S : p[1] \in BattleIds /\ p[2] \in Sides /\ f[p] \in Nat
     BY <4>1, SidesScored
   <4>4. \A p \in S : p # <<b, side>> => k[p] = f[p]
    <5>1. ASSUME NEW p \in S, p # <<b, side>>
          PROVE  k[p] = f[p]
     <6>1. p = <<p[1], p[2]>> BY <4>1 DEF SidesIn
     <6> QED BY <3>3, <3>4, <4>1, <4>3, <5>1, <6>1
    <5> QED BY <5>1
   <4>5. CASE r = g.room /\ a = g.to
    <5>1. PICK x : x = <<b, side>> OBVIOUS
    <5>2. x \in S /\ k[x] = f[x] + g.coins
     <6>1. x \in S BY <2>2, <2>3, <4>1, <4>5, <5>1 DEF SidesIn
     <6> QED BY <3>3, <4>1, <5>1, <6>1
    <5>3. \A p \in S : f[p] \in Int /\ k[p] \in Int BY <3>2, <4>3, <4>4, <5>1, <5>2
    <5>4. SumFunctionOnSet(k, S) = SumFunctionOnSet(f, S) - f[x] + k[x]
      BY <4>3, <4>4, <5>1, <5>2, <5>3, SumExcept
    <5>5. ScoreIn(r, a)' = ScoreIn(r, a) + g.coins
     <6>1. SumFunctionOnSet(f, S) \in Int BY <4>3, <5>3, SumInt
     <6> QED BY <3>2, <4>2, <5>2, <5>3, <5>4, <6>1
    <5>6. /\ g \notin ScoreLikely(r, a) /\ ScoreLikely(r, a) \cup {g} \subseteq ScoreLikely(r, a)'
      BY <2>1, <4>5, PassesPast DEF ScoreLikely
    <5>7. Tally({}, ScoreLikely(r, a), ScoreIn(r, a)) BY DEF ScoresCounted
    <5>8. Tally({}, ScoreLikely(r, a)', ScoreIn(r, a) + g.coins)
     <6>1. PICK L : L = {} OBVIOUS
     <6>2. L \subseteq G /\ L \subseteq L \cup {g} /\ g \notin L BY <6>1
     <6> QED BY <1>2, <1>3, <3>2, <5>6, <5>7, <6>1, <6>2, TallyAdds
    <5> QED BY <5>5, <5>8
   <4>6. CASE ~(r = g.room /\ a = g.to)
    <5>1. <<b, side>> \notin S BY <2>2, <2>3, <4>1, <4>6 DEF SidesIn, SidesOf
    <5>2. SumFunctionOnSet(k, S) = SumFunctionOnSet(f, S) BY <4>3, <4>4, <5>1, SumSame
    <5> QED BY <1>4, <4>2, <5>2
   <4> QED BY <4>5, <4>6
  <3>8. \A c \in BattleIds : battles[c] # NoBattle =>
             battles'[c] # NoBattle /\ battles'[c].room = battles[c].room
    BY <3>3, <3>4, <3>5
  <3> QED BY <1>5, <3>7, <3>8 DEF ScoresCounted
 <2> QED BY <2>4, <2>5
<1> QED BY <1>6, <1>7, ScoreElse

\* Without battles nobody scored.
LEMMA ScoresStart == PartyInit => ScoresCounted
<1> SUFFICES ASSUME PartyInit PROVE ScoresCounted OBVIOUS
<1>1. gifts = {} /\ (\A h \in Handlers : job[h] = Idle) /\ \A b \in BattleIds : battles[b] = NoBattle
  BY DEF PartyInit, HandlersInit, BattlesInit
<1>2. Coins({}) = 0 BY SumOfNone DEF Coins
<1>3. ASSUME NEW r \in Rooms, NEW a \in Accounts
      PROVE  Tally({}, ScoreLikely(r, a), ScoreIn(r, a))
 <2>1. SidesIn(r, a) = {} /\ ScoreLikely(r, a) = {} BY <1>1 DEF SidesIn, ScoreLikely, Behind
 <2>2. ScoreIn(r, a) = 0 BY <2>1, SumOfNone DEF ScoreIn
 <2> QED BY <1>2, <2>1, <2>2 DEF Tally
<1> QED BY <1>1, <1>3 DEF ScoresCounted, Idle

\* So points come from gifts.
LEMMA ScoresPaid ==
  ASSUME Typed, Logged, ScoresCounted
  PROVE  ScoresEarned
<1>1. PICK G : G = gifts /\ Priced(G) BY GiftsPriced DEF Typed, Logged
<1>2. ASSUME NEW r \in Rooms, NEW a \in Accounts
      PROVE  ScoreIn(r, a) <= Coins({g \in gifts : g.room = r /\ g.to = a})
 <2>1. PICK T, U : T = ScoreLikely(r, a) /\ U = {g \in gifts : g.room = r /\ g.to = a} OBVIOUS
 <2>2. T \subseteq U /\ U \subseteq G BY <1>1, <2>1 DEF ScoreLikely, Behind
 <2>3. Coins(T) \in Nat /\ Coins(U) \in Nat /\ Coins(T) <= Coins(U) BY <1>1, <2>2, CoinsLess
 <2>4. Tally({}, T, ScoreIn(r, a)) BY <1>2, <2>1 DEF ScoresCounted
 <2>5. ScoreIn(r, a) \in Nat /\ ScoreIn(r, a) <= Coins(T) BY <2>4 DEF Tally
 <2>6. ScoreIn(r, a) <= Coins(U) BY <2>3, <2>5
 <2> QED BY <2>1, <2>6
<1> QED BY <1>2 DEF ScoresEarned
-----------------------------
\* The ledger and the log of gifts agree: every debit under a gift's key is
\* for a gift, and an account spent what its gifts cost.
GivenBy(a) == {g \in gifts : g.from = a}

SpentIsGiven ==
  /\ Books
  /\ \A row \in CoinRows : row.key \in GiftIds => \E g \in gifts : g.id = row.key
  /\ \A a \in Accounts :
        /\ IsFiniteSet(DebitsOf(a)) /\ (DebitsOf(a) = {} <=> GivenBy(a) = {})
        /\ Spent(a) = Coins(GivenBy(a))

\* The seeds are no gifts' debits.
LEMMA SpentInit == PartyInit => SpentIsGiven
<1> SUFFICES ASSUME PartyInit PROVE SpentIsGiven OBVIOUS
<1>1. SeededLedger /\ Books /\ gifts = {} BY BooksInit DEF PartyInit
<1>2. \A row \in CoinRows : row.key \notin GiftIds
 <2>1. ASSUME NEW row \in CoinRows
       PROVE  row.key = SeedKey
  <3>1. PICK a \in Accounts : \E i \in DOMAIN ledger[a]["coins"] : row = ledger[a]["coins"][i] BY InCoins
  <3>2. ledger[a]["coins"] = SeedRows(a) BY <1>1, CoinsAreCurrency DEF SeededLedger
  <3> QED BY <3>1, <3>2 DEF SeedRows
 <2> QED BY <2>1, SeedKeyFree, GiftsAreKeys
<1>3. ASSUME NEW a \in Accounts
      PROVE  /\ IsFiniteSet(DebitsOf(a)) /\ DebitsOf(a) = {} /\ GivenBy(a) = {}
             /\ Spent(a) = Coins(GivenBy(a))
 <2>1. DebitsOf(a) = {} /\ GivenBy(a) = {} BY <1>1, <1>2 DEF DebitsOf, GivenBy
 <2>2. Spent(a) = 0 /\ Coins({}) = 0 BY <2>1, SumOfNone DEF Spent, Coins
 <2> QED BY <2>1, <2>2, FS_EmptySet
<1> QED BY <1>1, <1>2, <1>3 DEF SpentIsGiven

\* Steps that charge nobody and log nothing keep the two together.
LEMMA SpentStill ==
  ASSUME SpentIsGiven, Books', CoinRows' = CoinRows, gifts' = gifts
  PROVE  SpentIsGiven'
<1>1. ASSUME NEW a \in Accounts
      PROVE  DebitsOf(a)' = DebitsOf(a) /\ Spent(a)' = Spent(a) /\ GivenBy(a)' = GivenBy(a)
  BY DEF DebitsOf, Spent, GivenBy
<1> QED BY <1>1 DEF SpentIsGiven

\* A payment charges the sender one row of what the gift costs.
LEMMA PayCharges ==
  ASSUME Typed, Apart, SpentIsGiven, NEW h \in Handlers, Pay(h)
  PROVE  /\ Books'
         /\ ~Succeeds(GiftDebit(h)) => CoinRows' = CoinRows
         /\ Succeeds(GiftDebit(h)) => \E row : /\ CoinRows' = CoinRows \cup {row} /\ row \notin CoinRows
                                               /\ row.key = job[h].key /\ row.amount = job[h].coins
                                               /\ row.account = job[h].from
<1>1. job[h].op = "gift" /\ job[h] \in GiftJob /\ job[h].at = "pay" BY GiftJobs DEF Pay, Doing, Typed
<1>2. PICK r : r = GiftDebit(h) OBVIOUS
<1>3. CoinMove(r) /\ r.key = job[h].key /\ r.account = job[h].from /\ r.amount = job[h].coins
 <2>1. job[h].key \in Keys /\ job[h].key # SeedKey /\ job[h].coins \in Amounts
   BY <1>1, GiftsAreKeys, SeedKeyFree, CostsAreAmounts DEF GiftJob
 <2> QED BY <1>1, <1>2, <2>1, CoinsAreCurrency DEF GiftDebit, CoinMove, Request, Directions, GiftJob
<1>4. /\ Books' /\ Entered(r)
      /\ Succeeds(r) => Moved(r)'
      /\ ~Succeeds(r) => CoinRows' = CoinRows
 <2>1. Books /\ Settle(r) BY <1>2 DEF Pay, SpentIsGiven
 <2> QED BY <1>3, <2>1, Settled
<1>5. ASSUME Succeeds(r)
      PROVE  \E row : /\ CoinRows' = CoinRows \cup {row} /\ row \notin CoinRows
                      /\ row.key = job[h].key /\ row.amount = job[h].coins
                      /\ row.account = job[h].from
 <2>1. PICK row \in CoinRows' : row = RowOf(r, row.balanceAfter) BY <1>4, <1>5 DEF Moved
 <2>2. row.key = job[h].key /\ row.amount = job[h].coins /\ row.account = job[h].from
   BY <1>3, <2>1 DEF RowOf
 <2>3. row \notin CoinRows
  <3>1. job[h].key \in GiftIds /\ \A g \in gifts : g.id # job[h].key BY <1>1 DEF GiftJob, Apart, KeysApart
  <3> QED BY <2>2, <3>1 DEF SpentIsGiven
 <2>4. ASSUME NEW x \in CoinRows' \ CoinRows
       PROVE  x = row
  <3>1. x = RowOf(r, x.balanceAfter) BY <1>4 DEF Entered
  <3>2. x.account = row.account /\ x.key = row.key BY <1>3, <2>2, <3>1 DEF RowOf
  <3>3. \A y, z \in CoinRows' : y.account = z.account /\ y.key = z.key => y = z BY <1>4 DEF Books
  <3> QED BY <3>2, <3>3
 <2>5. CoinRows' = CoinRows \cup {row} BY <1>4, <2>1, <2>4 DEF Entered
 <2> QED BY <2>2, <2>3, <2>5
<1> QED BY <1>2, <1>4, <1>5

\* The ledger and the log stay together.
LEMMA SpentKept ==
  ASSUME Typed, Apart, Logged, SpentIsGiven, [PartyNext]_partyVars
  PROVE  SpentIsGiven'
<1>1. ASSUME UNCHANGED <<balance, ledger>>
      PROVE  Books' /\ CoinRows' = CoinRows
  BY <1>1 DEF SpentIsGiven, Books, CoinRows
<1>2. CASE UNCHANGED <<balance, ledger>> /\ gifts' = gifts BY <1>1, <1>2, SpentStill
<1>3. ASSUME NEW h \in Handlers, Pay(h)
      PROVE  SpentIsGiven'
 <2>1. CASE gifts' = gifts /\ ~Succeeds(GiftDebit(h)) BY <1>3, <2>1, PayCharges, SpentStill
 <2>2. ASSUME NEW new, new = NewGift(h), gifts' = gifts \cup {new}, new \notin gifts,
              Succeeds(GiftDebit(h))
       PROVE  SpentIsGiven'
  <3>1. new.id = job[h].key /\ new.from = job[h].from /\ new.coins = job[h].coins BY <2>2 DEF NewGift
  <3>2. PICK row : /\ CoinRows' = CoinRows \cup {row} /\ row \notin CoinRows
                   /\ row.key = new.id /\ row.amount = new.coins /\ row.account = new.from
    BY <1>3, <2>2, <3>1, PayCharges
  <3>3. Books' BY <1>3, PayCharges
  <3>4. new.coins \in Nat /\ new.id \in GiftIds
   <4>1. job[h] \in GiftJob BY <1>3, GiftJobs DEF Pay, Doing, Typed
   <4> QED BY <3>1, <4>1, CostsNat DEF GiftJob
  <3>5. \A x \in CoinRows' : x.key \in GiftIds => \E g \in gifts' : g.id = x.key
    BY <2>2, <3>2 DEF SpentIsGiven
  <3>6. ASSUME NEW a \in Accounts
        PROVE  /\ IsFiniteSet(DebitsOf(a)') /\ (DebitsOf(a)' = {} <=> GivenBy(a)' = {})
               /\ Spent(a)' = Coins(GivenBy(a)')
   <4>1. PICK D, E, G, K :
           /\ D = DebitsOf(a) /\ E = DebitsOf(a)' /\ G = GivenBy(a) /\ K = GivenBy(a)'
     OBVIOUS
   <4>2. IsFiniteSet(D) /\ (D = {} <=> G = {}) /\ Spent(a) = Coins(G) BY <4>1 DEF SpentIsGiven
   <4>3. CASE a # new.from
    <5>1. E = D /\ K = G BY <2>2, <3>2, <4>1, <4>3 DEF DebitsOf, GivenBy
    <5>2. Spent(a)' = Spent(a) BY <4>1, <5>1 DEF Spent
    <5> QED BY <4>1, <4>2, <5>1, <5>2
   <4>4. CASE a = new.from
    <5>1. E = D \cup {row} /\ row \notin D /\ K = G \cup {new} /\ new \notin G
      BY <2>2, <3>2, <3>4, <4>1, <4>4 DEF DebitsOf, GivenBy
    <5>2. IsFiniteSet(E) BY <4>2, <5>1, FS_AddElement
    <5>3. Coins(K) = Coins(G) + new.coins
     <6>1. IsFiniteSet(gifts') BY <2>2, FS_AddElement DEF Logged
     <6>2. \A g \in gifts' : g.coins \in Nat BY <2>2, <3>4, CostsNat DEF Typed, GiftRow
     <6>3. PICK all : all = gifts' /\ Priced(all) BY <6>1, <6>2 DEF Priced
     <6>4. G \subseteq all /\ new \in all \ G BY <2>2, <4>1, <5>1, <6>3 DEF GivenBy
     <6> QED BY <5>1, <6>3, <6>4, CoinsMore
    <5>4. Spent(a)' = Spent(a) + new.coins
     <6>1. PICK f, k : f = [x \in D |-> x.amount] /\ k = [x \in E |-> x.amount] OBVIOUS
     <6>2. Spent(a) = SumFunctionOnSet(f, D) /\ Spent(a)' = SumFunctionOnSet(k, E) BY <4>1, <6>1 DEF Spent
     <6>3. \A x \in E : k[x] \in Int
      <7>1. \A x \in D : x.amount \in Int
       <8>1. ASSUME NEW x \in D
             PROVE  x.amount \in Int
        <9>1. x \in CoinRows BY <4>1, <8>1 DEF DebitsOf
        <9>2. x.amount \in Amounts BY <9>1, CoinRowsTyped DEF SpentIsGiven, Row
        <9>3. Amounts \subseteq Int BY AmountsPositive
        <9> QED BY <9>2, <9>3
       <8> QED BY <8>1
      <7> QED BY <3>2, <3>4, <5>1, <6>1, <7>1
     <6>4. SumFunctionOnSet(k, E) = k[row] + SumFunctionOnSet(k, E \ {row}) BY <5>1, <5>2, <6>3, SumSplit
     <6>5. E \ {row} = D /\ k[row] = new.coins /\ \A x \in D : k[x] = f[x] BY <3>2, <5>1, <6>1
     <6>6. SumFunctionOnSet(k, D) = SumFunctionOnSet(f, D) BY <4>2, <6>5, SumSame
     <6>7. SumFunctionOnSet(f, D) \in Int BY <4>2, <5>1, <6>3, <6>5, SumInt
     <6>8. SumFunctionOnSet(k, E) = new.coins + Spent(a) /\ Spent(a) \in Int
       BY <6>2, <6>4, <6>5, <6>6, <6>7, Zenon
     <6>9. PICK s, t : s = Spent(a) /\ t = Spent(a)' /\ t = new.coins + s /\ s \in Int BY <6>2, <6>8
     <6>10. t = s + new.coins BY <3>4, <6>9
     <6> QED BY <6>9, <6>10
    <5> QED BY <4>1, <4>2, <5>1, <5>2, <5>3, <5>4
   <4> QED BY <4>3, <4>4
  <3> QED BY <3>3, <3>5, <3>6 DEF SpentIsGiven
 <2> QED BY <1>3, <2>1, <2>2, PayRests
<1>4. ASSUME \A h \in Handlers : ~Pay(h)
      PROVE  UNCHANGED <<balance, ledger>> /\ gifts' = gifts
 <2>1. ASSUME NEW h \in Handlers, GiftStep(h)
       PROVE  UNCHANGED <<balance, ledger>>
   BY <1>4, <2>1 DEF GiftStep, XpSender, XpReceiver, AddXp, FindCouple, CoupleGains, NotifyReceiver,
      OpenRoomWall, FindWall, ContributeToWall, FindBattle, EndExpired, Score, Paid, ledgerVars
 <2>2. ASSUME NEW h \in Handlers, NEW a \in Accounts, NEW b \in Accounts, NEW r \in Rooms,
              NEW coins \in Costs, StartGift(h, a, b, r, coins)
       PROVE  UNCHANGED <<balance, ledger>>
   BY <2>2 DEF StartGift, ledgerVars
 <2>3. ASSUME Battling \/ Closing \/ Parting \/ Elsewhere \/ UNCHANGED partyVars
       PROVE  UNCHANGED <<balance, ledger>>
   BY <2>3 DEF Battling, Closing, Parting, Elsewhere, partyVars, ledgerVars
 <2>4. gifts' = gifts BY <1>4, GiftsGrow
 <2> QED BY <2>1, <2>2, <2>3, <2>4 DEF PartyNext, Giving
<1> QED BY <1>2, <1>3, <1>4
-----------------------------
\* Gifts are not free, so a sum of them is zero only if there are none.
LEMMA SomeCoins ==
  ASSUME NEW G, G \subseteq GiftRow, IsFiniteSet(G), NEW S, S \subseteq G
  PROVE  Coins(S) \in Nat /\ (Coins(S) = 0 <=> S = {})
<1>1. Priced(G) BY GiftsPriced
<1>2. Coins(S) \in Nat BY <1>1, CoinsLess
<1>3. Coins({}) = 0 BY SumOfNone DEF Coins
<1>4. ASSUME NEW g \in S
      PROVE  Coins(S) # 0
 <2>1. PICK T : T = {} \cup {g} OBVIOUS
 <2>2. g.coins \in Nat \ {0} BY CostsAreAmounts, AmountsPositive DEF GiftRow
 <2>3. g \in G \ {} /\ {} \subseteq G OBVIOUS
 <2>4. Coins(T) = Coins({}) + g.coins BY <1>1, <2>1, <2>3, CoinsMore
 <2>5. T \subseteq S BY <2>1
 <2>6. Coins(T) <= Coins(S) BY <1>1, <2>5, CoinsLess
 <2> QED BY <1>2, <1>3, <2>2, <2>4, <2>6
<1> QED BY <1>2, <1>3, <1>4

\* One is ranked exactly if one has a total, and a greater total is a better
\* rank.
LEMMA RanksFollow ==
  ASSUME NEW total \in [Accounts -> Nat], NEW a \in Accounts, NEW b \in Accounts,
         total[a] > total[b]
  PROVE  /\ Cardinality({d \in Accounts : total[d] > total[a]}) \in Nat
         /\ Cardinality({d \in Accounts : total[d] > total[b]}) \in Nat
         /\ Cardinality({d \in Accounts : total[d] > total[a]})
              < Cardinality({d \in Accounts : total[d] > total[b]})
<1>1. PICK A, B : A = {d \in Accounts : total[d] > total[a]} /\ B = {d \in Accounts : total[d] > total[b]}
  OBVIOUS
<1>2. A \subseteq B /\ a \in B \ A BY <1>1
<1>3. IsFiniteSet(B) BY <1>1, GiftsFinite, FS_Subset
<1>4. IsFiniteSet(A) /\ Cardinality(A) <= Cardinality(B) /\ (Cardinality(B) = Cardinality(A) => B = A)
  BY <1>2, <1>3, FS_Subset
<1>5. Cardinality(A) \in Nat /\ Cardinality(B) \in Nat BY <1>3, <1>4, FS_CardinalityType
<1>6. Cardinality(A) < Cardinality(B) BY <1>2, <1>4, <1>5
<1> QED BY <1>1, <1>5, <1>6

\* So the rankings show what the ledger was charged.
LEMMA RanksPaid ==
  ASSUME Typed, Logged, SpentIsGiven
  PROVE  RankingsPaid
<1> DEFINE wealth == [b \in Accounts |-> Wealth(b)]
           charm == [b \in Accounts |-> Charm(b)]
<1>1. ASSUME NEW a \in Accounts
      PROVE  Wealth(a) \in Nat /\ Charm(a) \in Nat
  BY SomeCoins DEF Wealth, Charm, Typed, Logged
<1>2. wealth \in [Accounts -> Nat] /\ charm \in [Accounts -> Nat] BY <1>1
<1>3. ASSUME NEW a \in Accounts
      PROVE  /\ Wealth(a) = 0 <=> DebitsOf(a) = {}
             /\ Wealth(a) = Spent(a)
             /\ Charm(a) # 0 => \E b \in Accounts \ {a} : DebitsOf(b) # {}
 <2>1. /\ Coins(GivenBy(a)) = 0 <=> GivenBy(a) = {}
       /\ Wealth(a) = Coins(GivenBy(a))
  <3>1. GivenBy(a) \subseteq gifts BY DEF GivenBy
  <3> QED BY <3>1, SomeCoins DEF Wealth, GivenBy, Typed, Logged
 <2>2. ASSUME Charm(a) # 0
       PROVE  \E b \in Accounts \ {a} : DebitsOf(b) # {}
  <3>1. PICK g \in gifts : g.to = a BY <2>2, SomeCoins DEF Charm, Typed, Logged
  <3>2. g.from \in Accounts \ {a} BY <3>1 DEF Typed, GiftRow, Logged
  <3>3. GivenBy(g.from) # {} BY DEF GivenBy
  <3> QED BY <3>2, <3>3 DEF SpentIsGiven
 <2> QED BY <2>1, <2>2 DEF SpentIsGiven
<1>4. ASSUME NEW a \in Accounts
      PROVE  /\ MyRank("wealth", a) # 0 <=> DebitsOf(a) # {}
             /\ MyRank("charm", a) # 0 => \E b \in Accounts \ {a} : DebitsOf(b) # {}
 <2>1. ASSUME NEW total \in [Accounts -> Nat]
       PROVE  Cardinality({b \in Accounts : total[b] > total[a]}) \in Nat
   BY GiftsFinite, FS_Subset, FS_CardinalityType
 <2>2. Wealth(a) # 0 <=> MyRank("wealth", a) # 0
  <3>1. wealth[a] = Wealth(a) OBVIOUS
  <3>2. MyRank("wealth", a) =
          IF wealth[a] = 0 THEN 0 ELSE 1 + Cardinality({b \in Accounts : wealth[b] > wealth[a]})
    BY DEF MyRank
  <3> HIDE DEF wealth
  <3>3. PICK n \in Nat : n = Cardinality({b \in Accounts : wealth[b] > wealth[a]}) BY <1>2, <2>1, Zenon
  <3>4. MyRank("wealth", a) = IF wealth[a] = 0 THEN 0 ELSE 1 + n BY <3>2, <3>3
  <3>5. 1 + n # 0 BY <3>3
  <3> QED BY <3>1, <3>4, <3>5
 <2>3. MyRank("charm", a) # 0 => Charm(a) # 0
  <3>1. charm[a] = Charm(a) OBVIOUS
  <3>2. MyRank("charm", a) =
          IF charm[a] = 0 THEN 0 ELSE 1 + Cardinality({b \in Accounts : charm[b] > charm[a]})
    BY DEF MyRank
  <3> HIDE DEF charm
  <3> QED BY <3>1, <3>2
 <2> QED BY <1>3, <2>2, <2>3
<1>5. ASSUME NEW a \in Accounts, NEW b \in Accounts, DebitsOf(b) # {}, Spent(a) > Spent(b)
      PROVE  MyRank("wealth", a) < MyRank("wealth", b)
 <2>1. wealth[a] > wealth[b] /\ wealth[b] # 0 /\ wealth[a] # 0
  <3>1. Wealth(a) > Wealth(b) /\ Wealth(b) # 0 BY <1>3, <1>5
  <3> QED BY <1>1, <3>1
 <2>2. /\ MyRank("wealth", a) =
            IF wealth[a] = 0 THEN 0 ELSE 1 + Cardinality({c \in Accounts : wealth[c] > wealth[a]})
       /\ MyRank("wealth", b) =
            IF wealth[b] = 0 THEN 0 ELSE 1 + Cardinality({c \in Accounts : wealth[c] > wealth[b]})
   BY DEF MyRank
 <2> HIDE DEF wealth
 <2>3. /\ Cardinality({c \in Accounts : wealth[c] > wealth[a]}) \in Nat
       /\ Cardinality({c \in Accounts : wealth[c] > wealth[b]}) \in Nat
       /\ Cardinality({c \in Accounts : wealth[c] > wealth[a]})
            < Cardinality({c \in Accounts : wealth[c] > wealth[b]})
   BY <1>2, <2>1, RanksFollow, Zenon
 <2> QED BY <2>1, <2>2, <2>3
<1> HIDE DEF wealth, charm
<1> QED BY <1>4, <1>5, Zenon DEF RankingsPaid
-----------------------------
\* What is kept of the gifts, all together.
Counted ==
  Logged /\ XpCounted /\ WallAddsUp /\ CouplesCounted /\ ScoresCounted /\ SpentIsGiven

\* At first nothing is given and nothing counted.
LEMMA CountedInit == PartyInit => Counted
  BY LoggedInit, XpInit, WallInit, CouplesStart, ScoresStart, SpentInit DEF Counted

\* Every step keeps the counts.
LEMMA CountedKept ==
  ASSUME Typed, Typed', Rows, Apart, Numbers, Counted, [PartyNext]_partyVars
  PROVE  Counted'
<1>1. Logged' /\ XpCounted' /\ WallAddsUp' /\ CouplesCounted' /\ ScoresCounted' /\ SpentIsGiven'
 <2>1. Logged' BY LogStep DEF Counted
 <2> QED BY <2>1, XpKept, WallKept, CouplesKept, ScoresKept, SpentKept DEF Counted, Rows
<1> QED BY <1>1 DEF Counted

\* The counts are what the tables must show.
LEMMA CountsShown == Typed /\ Numbers /\ Counted => GiftsCounted
<1> SUFFICES ASSUME Typed, Numbers, Counted
             PROVE  GiftsCounted
  OBVIOUS
<1>1. PartyTypeOK BY TypesShown
<1>2. XpEarned /\ RankingsPaid /\ CpEarned /\ WallAddsUp /\ ScoresEarned
  BY XpPaid, RanksPaid, CpPaid, ScoresPaid DEF Counted
<1>3. LevelsReached BY CpPaid DEF Counted, XpCounted, LevelsReached
<1> QED BY <1>1, <1>2, <1>3 DEF GiftsCounted

\* However requests, walls, rounds and couples interleave and wherever they are
\* cut off, experience, levels, couples' points, wall contributions, scores and
\* rankings are the coins of the gifts that were paid for.
THEOREM GiftsAreCounted == PartySpec => []GiftsCounted
<1>1. PartyInit => Typed /\ Rows /\ Apart /\ Numbers /\ Counted
  BY TypedInit, RowsInit, ApartInit, NumbersInit, CountedInit
<1>2. Typed /\ Rows /\ Apart /\ Numbers /\ Counted /\ [PartyNext]_partyVars
        => (Typed /\ Rows /\ Apart /\ Numbers /\ Counted)'
  BY Step, RowsKept, ApartKept, NumbersKept, CountedKept
<1> QED BY <1>1, <1>2, CountsShown, PTL DEF PartySpec
=============================
