-------- MODULE Gifts --------
(***************************************************************************)
(* gifts.service.js: sendGift pays for a gift in one transaction and then  *)
(* tells, one after the other, everybody who counts gifts: experience      *)
(* points, the couple, the receiver, the room's wall, the room's battle.   *)
(* An error at any of them is the sender's error, and those after it are   *)
(* never told.  (The missions told in between are those of Rewards.)       *)
(***************************************************************************)
EXTENDS WalletSeed, Battles, Couples, FiniteSets, Functions

\* The wall (gift-wall.service.js and PostgresGiftWallRepository): what each
\* account has given in a room since the host last closed the wall.  A session is
\* opened by the first gift that finds none, found again by a second statement,
\* and written to by a transaction of its own.
CONSTANTS WallIds,   \* ids wall sessions may draw
          NoWall

ASSUME WallsAreIds == WallIds \subseteq Ids /\ NoWall \notin WallIds

VARIABLES walls,     \* the table gift_wall_sessions
          given,     \* gift_wall_contributions: session -> gifter -> coins
          wallOf     \* gift_wall_applied_gifts: gift -> session

wallVars == <<walls, given, wallOf>>

WallsInit(gifts) ==
  /\ walls = [w \in WallIds |-> [status |-> "none"]]
  /\ given = [w \in WallIds |-> [a \in Accounts |-> 0]]
  /\ wallOf = [g \in gifts |-> NoWall]

\* The sessions gift_wall_sessions_one_active_per_room allows one of.
ActiveIn(r) == {w \in WallIds : walls[w].status = "active" /\ walls[w].room = r}

Closed == {w \in WallIds : walls[w].status = "closed"}

\* INSERT ... ON CONFLICT (room_id) WHERE status = 'active' DO NOTHING.
OpenWall(r) ==
  IF ActiveIn(r) # {} THEN UNCHANGED <<walls, issued>>
  ELSE \E w \in WallIds \ issued :
         /\ walls' = [walls EXCEPT ![w] = [status |-> "active", room |-> r]]
         /\ issued' = issued \cup {w}

\* addContribution: the gift's row and the running total, or neither.
Contribute(w, g, gifter, coins) ==
  /\ IF wallOf[g] # NoWall THEN UNCHANGED <<wallOf, given>>
     ELSE /\ wallOf' = [wallOf EXCEPT ![g] = w]
          /\ given' = [given EXCEPT ![w][gifter] = @ + coins]
  /\ UNCHANGED walls

\* The host closes the wall: the session is found, its totals are read for
\* the answer, and the UPDATE closes it if it is still active.
StartClose(h, r) ==
  /\ \E w \in ActiveIn(r) : Accept(h, [op |-> "close", at |-> "update", key |-> w])
  /\ UNCHANGED <<issued, wallVars>>

CloseWall(h) ==
  /\ Doing(h, "close", "update")
  /\ walls' = [walls EXCEPT ![job[h].key].status = "closed"]
  /\ Finish(h)
  /\ UNCHANGED <<given, wallOf>>
-----------------------------
CONSTANTS GiftIds,      \* ids gifts may draw, and the keys of their debits
          XpFactor,     \* XP_PER_LEVEL_FACTOR
          Costs,        \* unitCostCoins * quantity of the gifts on offer
          CoupleSeed    \* couple -> its two partners when the run starts

ASSUME GiftsAreKeys == GiftIds \subseteq Ids \cap Keys
ASSUME CostsAreAmounts == Costs \subseteq Amounts
ASSUME SeedKeyFree == SeedKey \notin Ids
\* Couples there from the start have two partners and share none.
ASSUME SeedCouplesKnown ==
  /\ DOMAIN CoupleSeed \subseteq CoupleIds
  /\ CoupleSeed \in [DOMAIN CoupleSeed -> {p \in Accounts \X Accounts : p[1] # p[2]}]
  /\ \A c, d \in DOMAIN CoupleSeed : c # d =>
       {CoupleSeed[c][1], CoupleSeed[c][2]} \cap {CoupleSeed[d][1], CoupleSeed[d][2]} = {}
ASSUME GiftsFinite == IsFiniteSet(Accounts) /\ IsFiniteSet(BattleIds)
ASSUME XpFactorPositive == XpFactor \in Nat \ {0}

VARIABLES gifts,   \* the table gifts_log
          xp,      \* accounts.xp
          lvl      \* accounts.lvl

giftVars == <<gifts, xp, lvl>>
partyVars == <<ledgerVars, handlerVars, battles, wallVars, coupleVars, giftVars>>

GiftDebit(h) ==
  [account |-> job[h].from, currency |-> "coins", direction |-> "debit",
   amount |-> job[h].coins, key |-> job[h].key]

PartyInit ==
  /\ SeededLedger
  /\ HandlersInit(DOMAIN CoupleSeed)
  /\ BattlesInit
  /\ WallsInit(GiftIds)
  /\ couples = [c \in CoupleIds |->
       IF c \in DOMAIN CoupleSeed
       THEN [status |-> "active", cp |-> 0, level |-> 0,
             first |-> CoupleSeed[c][1], second |-> CoupleSeed[c][2]]
       ELSE NoCouple]
  /\ invites = [i \in InviteIds |-> NoInvite]
  /\ gifts = {}
  /\ xp = [a \in Accounts |-> 0]
  /\ lvl = [a \in Accounts |-> 0]
-----------------------------
StartGift(h, a, b, r, coins) ==
  /\ a # b
  /\ \E g \in GiftIds \ issued :
        /\ Accept(h, [op |-> "gift", at |-> "pay", key |-> g, from |-> a, to |-> b,
                      room |-> r, coins |-> coins, found |-> NoWall])
        /\ issued' = issued \cup {g}
  /\ UNCHANGED <<ledgerVars, battles, wallVars, coupleVars, giftVars>>

\* createWithDebit: the debit, its row and the gift's row commit together.
\* before records which walls were closed by then.
Pay(h) ==
  LET j == job[h] IN
  /\ Doing(h, "gift", "pay")
  /\ Settle(GiftDebit(h))
  /\ IF Succeeds(GiftDebit(h))
     THEN /\ gifts' = gifts \cup {[id |-> j.key, from |-> j.from, to |-> j.to,
                                   room |-> j.room, coins |-> j.coins, before |-> Closed]}
          /\ Goto(h, "xpSender")
     ELSE Finish(h) /\ UNCHANGED gifts
  /\ UNCHANGED <<battles, wallVars, coupleVars, xp, lvl>>

\* addXp: one transaction that locks the account's row.
AddXp(h, a, next) ==
  /\ xp' = [xp EXCEPT ![a] = @ + job[h].coins]
  /\ \E estimate \in 0..xp'[a] :
       lvl' = [lvl EXCEPT ![a] = LevelFrom(estimate, XpFactor, xp'[a])]
  /\ Goto(h, next)
  /\ UNCHANGED <<ledgerVars, battles, wallVars, coupleVars, gifts>>

\* Mutant: the sender is credited in the receiver's place.
XpSenderAgain(h) == Doing(h, "gift", "xpReceiver") /\ AddXp(h, job[h].from, "couple")

XpSender(h) == Doing(h, "gift", "xpSender") /\ AddXp(h, job[h].from, "xpReceiver")
XpReceiver(h) == Doing(h, "gift", "xpReceiver") /\ AddXp(h, job[h].to, "couple")

\* The statements below leave the money and the gift alone.
Paid(h) == UNCHANGED <<ledgerVars, giftVars>>

\* What a step finds out is kept until the statement that uses it.
Remember(h, x, at) ==
  /\ job' = [job EXCEPT ![h].found = x, ![h].at = at]
  /\ UNCHANGED <<accepted, issued, dropped, time, notices>>

\* recordGift: the sender's couple, if the receiver is the other half ...
FindCouple(h) ==
  /\ Doing(h, "gift", "couple")
  /\ IF CouplesOf(job[h].from) = {} THEN Goto(h, "notify")
     ELSE \E c \in CouplesOf(job[h].from) :
            IF job[h].to \in {couples[c].first, couples[c].second}
            THEN Remember(h, c, "cp") ELSE Goto(h, "notify")
  /\ Paid(h) /\ UNCHANGED <<battles, wallVars, coupleVars>>

\* ... gains the coins.
CoupleGains(h) ==
  /\ Doing(h, "gift", "cp")
  /\ AddCp(job[h].found, job[h].coins)
  /\ Goto(h, "notify")
  /\ Paid(h) /\ UNCHANGED <<battles, wallVars>>

NotifyReceiver(h) ==
  /\ Doing(h, "gift", "notify")
  /\ notices' = [notices EXCEPT ![job[h].key] = @ + 1]
  /\ job' = [job EXCEPT ![h].at = "openWall"]
  /\ UNCHANGED <<accepted, issued, dropped, time>>
  /\ Paid(h) /\ UNCHANGED <<battles, wallVars, coupleVars>>

\* getOrCreateActiveSession: an INSERT that yields to an active session ...
OpenRoomWall(h) ==
  /\ Doing(h, "gift", "openWall")
  /\ OpenWall(job[h].room)
  /\ job' = [job EXCEPT ![h].at = "findWall"]
  /\ UNCHANGED <<accepted, dropped, time, notices, given, wallOf>>
  /\ Paid(h) /\ UNCHANGED <<battles, coupleVars>>

\* Mutant: any session of the room will do.
FindAnyWall(h) ==
  /\ Doing(h, "gift", "findWall")
  /\ \E w \in WallIds : /\ walls[w].status # "none"
                        /\ walls[w].room = job[h].room
                        /\ Remember(h, w, "contribute")
  /\ Paid(h) /\ UNCHANGED <<battles, wallVars, coupleVars>>

\* ... and a SELECT that finds nothing when the wall was closed in between:
\* the id of undefined is read, which ends the request.
FindWall(h) ==
  /\ Doing(h, "gift", "findWall")
  /\ IF ActiveIn(job[h].room) = {} THEN Break(h)
     ELSE \E w \in ActiveIn(job[h].room) : Remember(h, w, "contribute")
  /\ Paid(h) /\ UNCHANGED <<battles, wallVars, coupleVars>>

ContributeToWall(h) ==
  /\ Doing(h, "gift", "contribute")
  /\ Contribute(job[h].found, job[h].key, job[h].from, job[h].coins)
  /\ Goto(h, "battle")
  /\ Paid(h) /\ UNCHANGED <<battles, coupleVars>>

\* recordGiftPoints: the room's open battle, ended if it is past its time.
FindBattle(h) ==
  /\ Doing(h, "gift", "battle")
  /\ \/ /\ \A b \in OpenIn(job[h].room) : battles[b].status = "pending"
        /\ Finish(h)
     \/ \E b \in OpenIn(job[h].room) :
          /\ battles[b].status = "active"
          /\ IF Expired(b) THEN Remember(h, b, "end")
             ELSE IF SidesOf(b, job[h].to) = {} THEN Finish(h)
             ELSE Remember(h, b, "score")
  /\ Paid(h) /\ UNCHANGED <<battles, wallVars, coupleVars>>

EndExpired(h) ==
  /\ Doing(h, "gift", "end")
  /\ EndRow(job[h].found)
  /\ Finish(h)
  /\ Paid(h) /\ UNCHANGED <<wallVars, coupleVars>>

Score(h) ==
  /\ Doing(h, "gift", "score")
  /\ \E side \in SidesOf(job[h].found, job[h].to) : AddScore(job[h].found, side, job[h].coins)
  /\ Finish(h)
  /\ Paid(h) /\ UNCHANGED <<wallVars, coupleVars>>

GiftStep(h) ==
  \/ Pay(h) \/ XpSender(h) \/ XpReceiver(h)
  \/ FindCouple(h) \/ CoupleGains(h) \/ NotifyReceiver(h)
  \/ OpenRoomWall(h) \/ FindWall(h) \/ ContributeToWall(h)
  \/ FindBattle(h) \/ EndExpired(h) \/ Score(h)
-----------------------------
Giving ==
  \E h \in Handlers :
     \/ GiftStep(h)
     \/ /\ Ready(h)
        /\ \E a, b \in Accounts, r \in Rooms, coins \in Costs : StartGift(h, a, b, r, coins)

Battling ==
  /\ BattleRequest \/ \E h \in Handlers : BattleStep(h)
  /\ UNCHANGED <<ledgerVars, wallVars, coupleVars, giftVars>>

Closing ==
  /\ \E h \in Handlers : CloseWall(h) \/ \E r \in Rooms : StartClose(h, r)
  /\ UNCHANGED <<ledgerVars, battles, coupleVars, giftVars>>

Parting ==
  /\ UnpairRequest \/ \E h \in Handlers : UnpairStep(h)
  /\ UNCHANGED <<ledgerVars, battles, wallVars, giftVars>>

Elsewhere ==
  /\ Tick \/ \E h \in Handlers : Interrupted(h)
  /\ UNCHANGED <<ledgerVars, battles, wallVars, coupleVars, giftVars>>

PartyNext == Giving \/ Battling \/ Closing \/ Parting \/ Elsewhere

PartySpec == PartyInit /\ [][PartyNext]_partyVars
-----------------------------
\* Coins of the gifts in S.
Coins(S) == SumFunctionOnSet([g \in S |-> g.coins], S)

\* The rankings of all time: who gave most, and who was given most.
Wealth(a) == Coins({g \in gifts : g.from = a})
Charm(a) == Coins({g \in gifts : g.to = a})

\* Where a stands, 0 being not ranked; the order of equals is the database's.
MyRank(type, a) ==
  LET total == [b \in Accounts |-> IF type = "wealth" THEN Wealth(b) ELSE Charm(b)]
  IN IF total[a] = 0 THEN 0 ELSE 1 + Cardinality({b \in Accounts : total[b] > total[a]})

\* Gifts whose request is past the steps in stages, and was not cut off.
Past(stages) ==
  {g \in gifts : g.id \notin dropped /\ ~InFlight("gift", g.id, stages)}
EarlyStages == {"xpSender", "xpReceiver"}
CoupleStages == EarlyStages \cup {"couple", "cp"}
WallStages == CoupleStages \cup {"notify", "openWall", "findWall", "contribute"}

PartyTypeOK ==
  /\ balance \in [Accounts -> [Currencies -> Nat]]
  /\ \A h \in Handlers : job[h] = Idle \/ job[h].key \in Ids
  /\ issued \cup dropped \subseteq Ids
  /\ \A b \in BattleIds : battles[b] # NoBattle =>
       /\ battles[b].room \in Rooms
       /\ {battles[b].host, battles[b].opponent} \subseteq Accounts
       /\ battles[b].status \in {"pending", "active", "declined", "cancelled", "ended"}
       /\ battles[b].winner \in Accounts \cup {Nobody}
       /\ battles[b].score \in [Sides -> Nat]
  /\ given \in [WallIds -> [Accounts -> Nat]]
  /\ wallOf \in [GiftIds -> WallIds \cup {NoWall}]
  /\ \A c \in CoupleIds : couples[c].status \in {"none", "active", "ended"}
  /\ xp \in [Accounts -> Nat]

\* Experience is paid for: both sides of a gift gain its coins, no more than
\* once, and neither is forgotten unless the request was cut off before it
\* (gifts.service.js:103-106).
XpEarned ==
  \A a \in Accounts :
     LET involved == {g \in gifts : a \in {g.from, g.to}} IN
     /\ xp[a] <= Wealth(a) + Charm(a)
     /\ xp[a] >= Coins(involved \cap Past(EarlyStages))

\* What the ledger took from a for gifts, row by row and together.
DebitsOf(a) == {row \in CoinRows : row.key \in GiftIds /\ row.account = a}
Spent(a) == SumFunctionOnSet([row \in DebitsOf(a) |-> row.amount], DebitsOf(a))

\* Rankings are bought: an account is ranked as a giver if the ledger took
\* coins from it for gifts, and before another if it took more; and an account
\* is ranked as a receiver only if another paid (ranking.service.js:3-8).
RankingsPaid ==
  \A a \in Accounts :
     /\ MyRank("wealth", a) # 0 <=> DebitsOf(a) # {}
     /\ MyRank("charm", a) # 0 => \E b \in Accounts \ {a} : DebitsOf(b) # {}
     /\ \A b \in Accounts : DebitsOf(b) # {} /\ Spent(a) > Spent(b)
                              => MyRank("wealth", a) < MyRank("wealth", b)

\* A couple's points are coins its partners gave each other, and all of them
\* if it stayed together (couple.service.js:28-35).
CpEarned ==
  \A c \in CoupleIds : couples[c] # NoCouple =>
     LET between == {g \in gifts : {g.from, g.to} = {couples[c].first, couples[c].second}} IN
     /\ couples[c].cp <= Coins(between)
     /\ couples[c].status = "active" => couples[c].cp >= Coins(between \cap Past(CoupleStages))

\* The level of an account and of a couple is the one its points reach,
\* wherever the floating-point estimate of it started from
\* (level-curve.js:31-33).
LevelsReached ==
  /\ \A a \in Accounts : LevelReached(lvl[a], XpFactor, xp[a])
  /\ \A c \in CoupleIds : couples[c] # NoCouple =>
       LevelReached(couples[c].level, CpFactor, couples[c].cp)

\* "the wall amount can never drift from the real sum of gifts_log"
\* (schema/022): every session holds, per gifter, the coins of the gifts
\* applied to it, and a gift that was told to the wall is in one.
WallAddsUp ==
  /\ \A w \in WallIds, a \in Accounts :
        given[w][a] = Coins({g \in gifts : g.from = a /\ wallOf[g.id] = w})
  /\ \A g \in Past(WallStages) : wallOf[g.id] # NoWall

\* "contributions must never leak between one broadcast and the next"
\* (schema/022): a gift counts in a session of its own room, and in none
\* that was closed before the gift was paid for.
WallsDoNotLeak ==
  \A g \in gifts : wallOf[g.id] # NoWall =>
     walls[wallOf[g.id]].room = g.room /\ wallOf[g.id] \notin g.before

\* One open battle and one active wall in a room, however requests overlap
\* (schema/024, schema/022): the gift's points have one place to go.
OneOpenPerRoom ==
  \A r \in Rooms : Cardinality(OpenIn(r)) <= 1 /\ Cardinality(ActiveIn(r)) <= 1

\* The sides an account stands on in the battles of a room, and what they
\* scored.
SidesIn(r, a) ==
  {p \in BattleIds \X Sides : /\ battles[p[1]] # NoBattle /\ battles[p[1]].room = r
                              /\ p[2] \in SidesOf(p[1], a)}
ScoreIn(r, a) ==
  SumFunctionOnSet([p \in SidesIn(r, a) |-> battles[p[1]].score[p[2]]], SidesIn(r, a))

\* Points come from gifts: what an account scored in a room over all its
\* battles is covered by the coins it was given there
\* (battle.service.js:17-29).
ScoresEarned ==
  \A r \in Rooms, a \in Accounts : ScoreIn(r, a) <= Coins({g \in gifts : g.room = r /\ g.to = a})

\* The winner of an ended battle is what its final score says; gifts that
\* land while the battle is being ended do not move the score any more
\* (battle.repository.js:239-265).
WinnerFollowsScore ==
  \A b \in BattleIds : battles[b] # NoBattle =>
     battles[b].winner = IF battles[b].status = "ended" THEN Winner(b) ELSE Nobody

\* What is counted for a gift, wherever it counts, is what the gift cost.
GiftsCounted ==
  /\ PartyTypeOK
  /\ XpEarned /\ RankingsPaid /\ CpEarned /\ LevelsReached
  /\ WallAddsUp /\ ScoresEarned

\* A battle is the only one of its room, and its score decides it.
BattleSound == OneOpenPerRoom /\ WinnerFollowsScore

\* A battle only goes forward: an answer that arrives after another one
\* changes nothing, and a battle that is over stays as it is.
BattleForward ==
  [][\A b \in BattleIds :
       battles[b] # NoBattle /\ battles'[b].status # battles[b].status =>
         \/ battles[b].status = "pending" /\ battles'[b].status # "ended"
         \/ battles[b].status = "active" /\ battles'[b].status = "ended"]_battles

\* "a score can never accrue past the round it was earned in"
\* (battle.service.js:53-54).
ScoreWithinRound ==
  [][\A b \in BattleIds :
       Expired(b) => battles'[b].score = battles[b].score]_battles
=============================
