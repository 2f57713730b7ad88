# Formal models of the SPP1 backend

SPP1 is a voice-room application: a Node/Express server (`src/Backend/src`), a PostgreSQL schema
(`src/Backend/src/database/schema`), and a mobile web client. This directory holds TLA+
specifications of the server's own logic, the TLC configurations that model-check them, and
machine-checked proofs about what everything else rests on.

The server is one Node process. A request runs as an `async` handler: between two `await`s every
other handler may run, and PostgreSQL may run statements of several of them at once. Nearly every
service follows one shape, *read what the rules are about, decide, then write*, and what keeps it
right under concurrency is a handful of unique indexes, conditional `UPDATE`s, row locks and
idempotency keys. The models take the code apart at exactly those points: one step per statement,
any interleaving between steps, and an error, a broken connection or a restart possible after each.

The repositories come in two versions, in-memory and PostgreSQL. The models are of the PostgreSQL
versions, which the server runs with `STAGE3_ENABLE_POSTGRES=true` (`database/index.js`). The one
exception is deliberate: the in-memory wallet, one synchronous function, is the atomic specification
that the PostgreSQL wallet is shown to implement.

Contents: 1 Inventory · 2 Plan · 3 Modules · 4 Runs · 5 Proofs · 6 What the models say beyond the
properties · 7 Not modelled, and why · 8 Running

## 1. Inventory

| Component (code) | State | Operations | What is hard | What makes it correct |
|---|---|---|---|---|
| **Wallet** (`wallet.repository.js`, `wallet.model.js`) | `wallet_balances`, `wallet_transactions`; connections of the pool | `credit`, `debit`, `getBalance` | concurrent transactions of one account; repeated keys; connections that break or are returned dirty; 64-bit against 53-bit integers | balance = sum of history; a key applied once; an answered transaction is durable; no lock outlives its call |
| **Recharge** (`recharge.service.js`, `recharge.repository.js`) | orders, `lifetime_diamonds_recharged`, tiers | create, complete (verify, credit, mark, count, notify) | overlapping and repeated completions; loss of the tail | a completed order is paid for; the counter counts each order |
| **Store** (`store.service.js`, `inventory.repository.js`, `inventory-admin.service.js`, `staff.js`) | inventory items, audit log | purchase (debit, grant), grants and balance changes by staff | two transactions, one fails | no item without a debit, no debit without an item, no gift of staff without its entry |
| **Guards** (`guard.service.js`, `guard.repository.js`) | one row per (fan, host) | purchase / renew | two first purchases race; renewals overlap; the clock | totals and expiry are what was paid for |
| **Events** (`event.service.js`, `event.repository.js`) | progress rows | share, increment, claim; the end of the event | write-back of a stale count over a claim; claim marked before it is paid | a reward paid once and only for a claimed mission |
| **Referral** (`referral.service.js`, `myCode`) | codes and redemptions (feature records) | `myCode`, `redeem` | check-then-insert | a reward has its redemption, its code and its completion |
| **Gifts** (`gifts.service.js`, `gift.repository.js`, `ranking.service.js`) | `gifts_log`, `accounts.xp` and level | `sendGift`; rankings of all time | one transaction, then six services told in turn | what each service counted is what gifts paid |
| **Gift wall** (`gift-wall.service.js`, repository) | sessions, contributions, applied gifts | contribute, close | the wall closes between look-up and contribution | totals never drift; nothing leaks into another session |
| **Battles** (`battle.service.js`, repository) | battles | challenge, accept, decline, cancel, end, score | answers that race; the end of the round | forward only; one open per room; the winner follows the score |
| **Couples** (`couple.service.js`, repository) | couples, invitations | invite, accept, decline, cancel, unpair, add points | check-then-insert with an index per column | one partner; points are gifts between partners |
| **Families** (`family.service.js`, repository, `family.model.js`) | families, memberships, invitations | create, invite, accept, decline, revoke, leave, kick, ban, unban, promote, demote, transfer, donate | roles read and used later; ownership moved in three statements | one family; an owner always; banned stays out; donations add up |
| **Feature store** (`feature-platform.js`, `feature-record.repository.js`) | rows of `feature_records` | add, find, list, update | an update is a read, a merge and a write of the whole row; nothing is unique but the id | no lost update, no double record, unless requests overlapped |
| **Social graph, profiles, search** (`feature-platform.js`) | follows, friend requests, blocks, mutes, profiles | follow, request, answer, block, mute; look, list, search; privacy settings | check-then-write; answers made of several reads | a block cuts every tie; nobody is shown what was forbidden before the request began |
| **Chat** (`chat.service.js`, repository) | conversations, messages, presence | open, send, read, delete, report, heartbeat | blocks and privacy are read before the message is stored | nothing from or to the blocked; every message announced |
| **Notifications and push** (`notification.service.js`, `push.service.js`) | notifications, devices, preferences | notify, read, prefer, register | a category switched off while a notice is on its way | switched-off categories stay silent, security ones never do |
| **Rooms, seats, moderation, breakouts** (`feature-platform.js`, `platform.guards.js`) | rooms, memberships, seats, bans, mutes, logs | join, leave, disconnect, reconnect, seats, kick, mute, ban, unban, settings, open / close breakout | counting before adding; ban, eviction and log in separate statements | capacity; one membership; banned and closed keep out |
| **Music** (`feature-platform.js`) | DJs, tracks, the player | add, remove, reorder, play, pause, next, stop, volume | the player and its track are two records; positions are counts | what plays is what the player shows; the queue is a queue |
| **Support and moderation** (`feature-platform.js`) | tickets, reports, reviews, appeals | open, reply, escalate, close; report, review, decide, appeal | replies appended to an array that was read | replies stay; closed stays closed; overturned reviews are overturned |
| **Authentication, sessions, accounts** (`auth.store.js`, `auth.repository.js`, `auth.routes.js`, `session-middleware.js`) | codes, identities, accounts, sessions | request and verify a code, provider login, log out, delete; the middleware | attempts counted by read-and-write; first logins race; a login overlapping a deletion | a bounded number of attempts; one login per code; nobody served after deletion |
| **Administration and audit** (`account-admin.service.js`, `admin-panel.service.js`, `audit.service.js`, `staff.js`) | suspensions, closed rooms, audit log | suspend, lift, close a room, adjust a balance | the deed and its entry are two statements | the log, replayed, is the state |
| **Game matches** (`game-match.service.js`, repository) | `game_matches` | create, join, leave, cancel, start, finish | state read before it is written | who sits, what phase, which result, each once |
| **Game engines** (`ludo`, `snakes-ladders`, `domino`, `carrom`, `eight-ball`, `quiz`, `chess` services and boards) | tables in the memory of the process | every move; looks that advance the clock | long legal sequences; clocks without timers; restarts that forget the table | results follow play; pieces, tiles, scores and answers are accounted for |
| Word filter, analytics, anti-fraud, configuration, flags, voice tokens, rate limits, headers, migrations, client, design system, localization | – | reads, pure functions, library middleware, presentation | – | – |

How they interact: routes (`platform.routes.js`) call services; services call repositories and each
other in the process (`index.js` wires them). `gifts.service` calls accounts, events, couples,
notifications, the wall and battles after its transaction; recharge, store, guards, events,
referral, families and gifts move coins through the wallet with a key of their own; chat, social
graph, rooms and support all live in the one table of feature records and tell the notification
service; game engines call `finishMatch` of the match service; staff close rooms through the same
records the rooms' owners write. Repositories share one `pg` pool. Nothing is queued, and there are
no background jobs: what a request does not do before it ends is never done, and clocks are looked
at only by requests.

`PROJECT.json` lists every component with its status, and under `hazards` the lines where each of
these behaviours bites, with the properties that would catch it going wrong.

## 2. Plan

Order: money first, then what money buys, then who belongs with whom, then rooms, messages and
games. Modelled and checked: all of the components above, with the exceptions of section 7. Proved:
the wallet; the money flows; families and couples; gifts, walls and battles; the game center; of the
platform, all properties but what is seen, what a room promises, the player's track, and that a
profile keeps its privacy (`PrivacyKept`). Next to prove: those, and the soundness of chess
positions.

## 3. Modules

| Module | Models |
|---|---|
| `AccountIds` | the accounts, levels reached by points, shared by modules with and without wallets |
| `RequestHandlers` | async handlers: jobs, steps, interruption, the clock, ids, notifications |
| **Money** | |
| `WalletModel` | requests, rows and histories of the wallet: the validation of `wallet.model.js` as the set of requests, `SameOperation` as the comparison a replay makes |
| `WalletLedger` | the atomic contract: `credit`/`debit` as one step (`InMemoryWalletRepository._apply`): replay, conflict, refusal, application |
| `WalletPg` | `PostgresWalletRepository._apply`, statement by statement, on pooled connections |
| `WalletSeed` | wallets already credited, the initial state of the services that spend |
| `Staff` | the roles of `STAFF_ROLES`, what they add up to |
| `Recharge`, `Store`, `Guards`, `Rewards` | one service and repository each; in `Rewards` those of events and of referrals |
| `Payments` | the five of them composed over one ledger |
| `Battles`, `Couples` | one service and repository each |
| `Gifts` | `sendGift` and the gift wall, composed with battles and couples over one ledger |
| `Families` | the family service and repository, donations included |
| `Groups` | families and couples: who belongs with whom |
| **Platform** | |
| `FeatureStore` | the table of feature records: add, read, merge-and-write, and the history of which request wrote what |
| `Notifications`, `Chat` (with the social graph), `Rooms` (with the music), `Views`, `Support`, `Sessions`, `Admin` | one service each, on the feature store or on tables of their own |
| `Platform` | all of them composed, with the properties |
| **Games** | |
| `MatchContract` | the abstract lobby: rosters, phases, results, no requests |
| `GameMatches` | the match service and repository, and what the engines share: tables, turns, clocks, restarts |
| `BoardGames`, `TimedGames`, `Chess` | snakes and ladders, ludo and domino; carrom, eight-ball and the quiz; the rules of chess as functions of a position, and the chess match |
| `Games` | lobby and engines composed, with the properties and the refinement of `MatchContract` |
| **Proofs** | `GiftProofs`, `PaymentProofs`, `GroupProofs`, `GameProofs`, `PlatformProofs`; `SumProofs` (sums, smallest sets) and `LedgerProofs` (the ledger) have the lemmas they share, and `PlatformRows` those about the store of records |
| **Instances** | `MCWalletPg`, `MCPayments`, `MCGifts`, `MCGroups`, `MCGames`, `MCPlatform` |

### The wallet in detail

`WalletPg` has one action per statement of `_apply`: `Begin`, `EnsureRow` (`INSERT ... ON CONFLICT
DO NOTHING`), `Move` (the `UPDATE` that waits for the row lock and re-reads the balance), `Insert`,
`Commit`, and their exceptional exits: `RejectStranger` (foreign key), `Refuse` (`ROLLBACK`, 409),
`Overflow` (`bigintToSafeNumber` throws *after* the `UPDATE`), `OutOfRange`, `Conflict` and `Replay`
(the key is taken: `ROLLBACK`, then the original row is read *on another connection of the pool
while this one is still held*). `ConnectionLost` may happen at any step.

State: `committed` is what other transactions see, `tip` is what the holder of `lock[a]` made of
`a`'s balance, `pend` the uncommitted row, `session` whether a transaction is open or aborted on the
connection. `acked` and `overflowed` are history: the rows callers have been answered with, and the
accounts a credit pushed past `Number.MAX_SAFE_INTEGER`. After such an overflow no `ROLLBACK` runs:
the connection goes back to the pool with the lock and the change, and whichever repository uses it
next commits or discards them (`ForeignCommit`, `ForeignRollback`). The properties therefore speak
of accounts outside `overflowed`, and this is the only exception they make.

### Handlers

Everywhere else a request is a record in `job[h]`: its operation, the step it is at, the id it is
about, and *what it has read and will use*. `Start...` actions make the handler's first read (its
guard is the code's early return: a request that is refused there changes nothing and is not
modelled further), each later action is one statement or one call of another service. A wallet call
is the atomic step `Settle` of `WalletLedger`, justified by the refinement proved of `WalletPg`. A
transaction of several statements that reads nothing it does not lock (`createFamily`,
`addContribution`, `addXp`, `addCp`, `createWithDebit`) is one action.

`Interrupted(h)` ends any request between any two steps and records its id in `dropped`; `Break`
does the same for an error the code meets but does not handle. Properties about a flow's end say
"unless the request is still at it, or its id is in `dropped`": that makes them precise about which
loss is possible and that *only* a cut-off request causes it. `contended` (families) records
families two of whose requests were at work at the same time; `before` (gifts) the walls that were
closed when a gift was paid for. None of these history variables influences a step.

### The feature store

A record's id is its place in `records`, which is in the order of `created_at`, so "the oldest" and
"the newest" are the first and the last. `add` is one step; `update` is two, `ReadRow` (the
`SELECT`) and `WriteRow` (the merge of the patch into *what was read*, written back whole), and
updates awaited together run in any order. The code relies on reading before adding to keep records
single, and on nobody else writing between the two halves of an update; the models let both go wrong
and say exactly when they do. `trace` records for every row the span of each request that wrote it:
when it began, when it wrote. `Overtook`, `Disordered(i)` and `Raced(i, k)` are read off the spans,
and a property such as `OneRecord` then says: *two active records of one relation exist only if the
requests that made them overlapped.* A bug that doubles, loses or resurrects a record without an
overlap violates it.

A run of `Platform` follows one service at a time (`serving`, drawn in the initial state), from a
state that earlier requests may have left (`Seeds`); services that do share records are composed:
chat reads the social graph and profiles, views read rooms and relations, staff close the rooms
others are joining, everything notifies.

### Games

An engine runs from its read of the match's row to its end without a pause, except that it awaits
`finishMatch`; so a move is one action, and a move that ends the game leaves a job whose `FinishRow`
comes later, or never (a cut-off, a restart). Dice, strikes and deals are drawn by the server: every
outcome is a disjunct, the rolls of the strike games one from each side of every band's border.
Boards are small instances of parameterised boards (`TrackLength`, `HomeColumn`, `BoardSize`,
`Hops`, `MaxPip`, `HandSize`, `StartPieces`, `BallsPerGroup`, `Questions`); the real values are in
the comments of the CONSTANTS. Chess has the real board; what is bounded is how many moves a match
is followed from each opening. A table holds the time since the turn, question or move began;
`TimePasses` advances it, and only a request (`Looks`) notices that it ran out, which is what the
services do in place of timers.

## 4. Runs

`expect: pass`

| Run | Instance | What it shows |
|---|---|---|
| `wallet` | one account, a stranger, two connections, six calls sharing three keys, `MaxSafe` 3, `MaxBigint` 5 | the transaction implements the atomic wallet (`ImplementsLedger`); history and balance agree; a key is applied once, also across currencies; answers are durable; no lock outlives its call; a waiter is served |
| `payments` | two accounts, two handlers, three requests, one unit of time, a staff member | five flows over the same wallets. `RechargeSound`: orders settle, the lifetime counter and the tiers miss nothing. `DeliveriesPaid`: nothing is free, debits are delivered, what staff hand out is in the audit log and the log says nothing else. `GuardSound`: guards hold the coins and last the days paid for. `RewardsPaid`: claims paid once, shares counted, redemptions accounted for. `RequestsEnd`: every request ends |
| `gifts` | three accounts, one room, two gifts, two battles, two wall sessions, one couple, two handlers, five requests, one unit of time | `GiftsCounted`: xp, levels, rankings, couple, wall and battle count exactly what was paid. `WallsDoNotLeak`. `BattleSound`: one open battle, the winner follows the score. `BattleForward` |
| `groups` | three accounts, an existing family and one that may be founded, two ids each for invitations and couples, two handlers, four requests | `FamilySound`: one family at a time, the owner in place, donations and levels add up. `InvitesSound`: accepted invitations came true, couples are distinct. `BannedStaysOut` |
| `games` | one match of each of six games, three accounts, two handlers, three requests to the lobby, one restart; tracks of five squares, hands of one or two tiles, two balls, two questions | `LobbyKeepsContract`: the lobby implements `MatchContract`. `ResultFollowsPlay`: the recorded result is the one the engine came to. `RacesSound`, `TilesAccounted`, `PocketsSound`, `AnswersCounted`: each engine's own invariants |
| `clocks` | chess from four kinds of opening (the initial position; towers with rights to castle; pawns that pass, are taken in passing, promote; a king in the corner), two moves deep, and a quiz | `ChessSound`: positions stay sound (attack and capture agree, castling rights are real, en passant squares are), results are what the position or the clock says. `ClockedGamesEnd`: a game with a clock ends if somebody goes on looking at it |
| `platform` | thirteen services, two to four requests each, two at a time, one of which may be cut off, from states earlier requests left; two accounts and two staff | see below |

The properties of `platform`: `OneRecord` (of what is looked for before it is added, a relation, a
ban, a membership, a profile, a review, a breakout, a DJ, the player, there is one, unless requests
overlapped); `BlockRespected` (no tie and no message by a request that began after the block; no
conversation with one who takes none); `SeenAsAllowed` (profiles, lists, search and the home feed
show what the newest settings allow, and leave out nothing else); `NoticesRight` (the muted and the
switched-off are silent, security is not, every message is announced); `PrivacyKept` (a write of a
profile changes the setting it was about); `RoomSound` (a logged ban keeps out, a closed room stays
closed, capacity); `BreakoutSound`; `PlayerSound` (what plays is what the player shows);
`SupportSound` (replies, closing, appeals); `LoginsSound` (nobody is served after revocation or
deletion, one login and `MaxTries` attempts per code, one account per phone); `AuditTruthful` (the
log, replayed, is the state). Each says *unless requests overlapped or were cut off*, in terms of
the spans in `trace`, and so names the only way the code can go wrong.

`expect: violation`, each a disagreement between the code and what it says of itself (quoted in
`PROJECT.json`, `findings`)

| Run | Property | What happens |
|---|---|---|
| `wallet_replay` | `ReplayNeverRefused` | a debit that was applied, repeated with its key after the balance fell, is answered with *insufficient balance* instead of its row: the balance is moved before the key is looked up |
| `referral_twice` | `RefereeCreditedOnce` | two redemptions by one account overlap: both find none before them, each draws a key of its own, the referrer is credited twice |
| `recharge_lifetime` | `LifetimeNotDoubled` | two completions of one order overlap: coins once, counter twice |
| `game_cancelled_finished` | `CancelledStays` | a look at a cancelled quiz sets up its table; the timers run out and the match goes from cancelled to finished |
| `ticket_reply_lost` | `RepliesVisible` | two replies overlap, both are answered with success, the ticket keeps one |

**Bounds.** `MaxRequests` (for the platform `Load`, per service) bounds the requests of a run,
`MaxTime` the clock, `MaxRestarts` and `MaxCuts` the faults, `MaxMoves` the moves of chess, the sets
of ids what can be created. They are chosen so that the interesting cases happen: two of everything
that can collide, a wallet that affords some but not all of what is bought, a guard that can lapse,
a round that can end, four requests in `groups` because a member who leaves, is invited back, banned
and then accepts needs that many, and so do two invitations and their two acceptances. Two handlers
suffice for every hazard listed: each is one request overtaking another. What would take many
requests to reach is a seed instead: a queue that is playing, a review and its appeal, a friendship,
a room with a member on a seat. `groups` never mixes requests to the two services, which share no
row (`serving`), and `platform` none of services that share none. A track of five squares has a safe
square, a capture, a home column and an exact roll; a second lap adds nothing, since squares are
relative to each player's start. Chess is not bounded to few pieces only: the initial position is
followed too.

**Symmetry.** `gifts`, `groups`, `games`, `platform` and `game_cancelled_finished` are checked up to
permutations of handlers, of the ids the server draws at random and, where they have no roles, of
accounts; none of their properties is a liveness property.

**Deadlock** is not checked where `CHECK_DEADLOCK FALSE` is given: the number of requests is
bounded, so those systems stop when the last one ends. `payments` checks instead that every request
ends (`RequestsEnd`), `clocks` that every clocked game does. The wallet's run checks deadlock.

**Fairness.** `wallet`: weak fairness on each connection's statement (the database answers what it
is sent) and strong fairness on the one that waits for a row lock (PostgreSQL queues waiters),
nothing about new calls, and no fairness for broken connections. `payments`: weak fairness per
handler (a promise that is awaited is settled or rejected). `games` and `clocks`: weak fairness of
time, of the statements under way and of *looks*: the clients poll the state of a game they are in,
and no timer would end it otherwise; none of moves. The other runs check safety and state none.

Every property of a passing run has a mutant in `PROJECT.json`: a definition of the model changed
the way a plausible bug would change the code, under which TLC finds the property violated.

## 5. Proofs

### The wallet (`PaymentProofs`, first part)

For *every* set of accounts, calls, currencies, connections and amounts and every pair of integer
widths:

| Theorem | Property |
|---|---|
| `TypeCorrect` | `TypeOK` |
| `BalancesAddUp` | `LedgerBalances` |
| `AppliedOnce` | `KeyAppliedOnce` |
| `Acknowledged` | `AckedDurable` |
| `PoolClean` | `PooledHoldsNothing` |
| `Refinement` | `ImplementsLedger`: each step is a step of `WalletLedger` or leaves its variables alone |
| `Inductive` | the inductive invariant `IInv` |

None of the properties is inductive alone: `Commit` appends a row computed two statements earlier,
so a proof must know what no transaction changed in between. `IInv` is `TypeOK` with

- `Stages`: what is true of a call at each of its statements, in particular that at `commit` the
  pending row is the call's row at `tip`'s balance;
- `Locking`: outside `overflowed` a lock belongs to a call at `insert` or `commit`, and `tip`
  differs from `committed` by exactly that call's amount; without a lock they are equal;
- `FreshKeys`: a row about to be committed has an unused key — this holds because a key is looked up
  under the lock on the account's balance;
- `Housed`: rows stand in the history of their own account;
- and `LedgerBalances`, `KeyAppliedOnce`, `AckedDurable` themselves.

The step is proved part by part (`TypeStep`, `StagesStep`, `LockingStep`, `HistoryStep`,
`AnswersStep`), each with a case per action; lemmas about the two ends of a transaction (`Undo`,
`Publish`) are shared among them. `Refinement` adds that a `Commit` of a non-overflowed account is
the atomic wallet's application, and that no other action touches a table. The assumptions are those
`WalletModel` and `WalletPg` name: model values that stand for "none" are not members of the sets
they complement, calls are validated requests, amounts are positive, strangers are not accounts,
`MaxSafe < MaxBigint`. TLC evaluates them in every run.

### Gifts, walls and battles (`GiftProofs`)

For every set of accounts, rooms, gifts, battles, walls and couples, and any number of handlers and
requests:

| Theorem | Property |
|---|---|
| `BattlesForward` | `BattleForward`: an answer, an end or a score changes the status of a battle forward only |
| `BattlesSound` | `BattleSound`: one open battle and one active wall per room; the winner follows the final score |
| `BroadcastsApart` | `WallsDoNotLeak`: a gift counts in a wall of its own room that was not closed before it was paid for |
| `GiftsAreCounted` | `GiftsCounted`: `PartyTypeOK`, `XpEarned`, `RankingsPaid`, `CpEarned`, `LevelsReached`, `WallAddsUp` and `ScoresEarned` |
| `PartyTypeCorrect` | `PartyTypeOK` alone, from the layers below the sums |
| `RowsSound` | the invariant `Typed /\ Rows` behind the first two |

The argument has four layers. `Typed` says what a job of each kind carries, so that what a request
found (`found`) is what its next statement takes it for. Every step is then *classified*: it is a
`BattleMove` (one row is challenged, answered, scored or ended, under the guard its `UPDATE` or
unique index gives) and a `WallMove`, whatever request it belongs to; `Rows` (open battles and
active walls alone in their room, winners by score, ids drawn once) is kept by any such move. For
the walls that is not enough, since a gift finds its wall in one statement and adds to it in a later
one: `Apart` says that a gift's key is its own, that it pays before it looks for a wall, and that
the wall a request holds in `found` belongs to its room and was not closed before the gift was paid
for (`FoundFits`). Steps that neither pay nor find a wall are *eased* and keep it by one lemma;
payment, opening, finding, contributing and closing each have their own.

The fourth layer is what a gift is *counted as*. A total lies between the coins of the gifts surely
counted and those of the gifts that may be, and the two differ by the requests under way and the
ones cut off: `Tally(sure, likely, total)`. What is sure and what is likely is a matter of stages: a
gift is `Past(S)` if its request has left the statements `S` and was not cut off, `Behind(S)` if it
has left them or was cut off. `Logged` ties a request to its row of `gifts_log` and makes gifts of
one id one gift; `LogStep` sorts every step into those that leave both sets alone for the five sets
`S` that matter (`AllRest`) and those that take the one gift of one request along one arrow of
`Arrows` (`GoesOn`). With that, each counter has a lemma for the statement that adds and one for all
others: `XpCounted` (sender's and receiver's points, and the level the points reach), `WallAddsUp`
itself, `CouplesCounted` (with `CouplesSeeded` and `CouplesFound`: which couple a request holds, and
that it is still of the two who gave and were given) and `ScoresCounted` (a room's scores of all its
battles, which needs `DrawnOnce`: a new battle starts from nothing). `SpentIsGiven` pairs debits
with gifts one by one, which makes a rank by gifts a rank by payments (`RankingsPaid`).

Besides what the modules of the ledger assume, this takes that accounts and battles are finitely
many (`GiftsFinite`: they are summed over), that the factors of the two level curves are positive
(`XpFactorPositive`, `CpFactorPositive`), that the couples there from the start are pairs of
different accounts that share none (`SeedCouplesKnown`), that gifts cost amounts (`CostsAreAmounts`)
and that the seeds' key is no gift's (`SeedKeyFree`).

### The money flows (`PaymentProofs`, second part)

For every set of accounts, ids, handlers, tiers and prices:

| Theorem | Property |
|---|---|
| `DeliveriesArePaid` | `DeliveriesPaid`: `NothingFree`, `DebitsDelivered` and `HandoutsNoted` |
| `RewardsArePaid` | `RewardsPaid`: `ClaimsPaid`, `SharesCounted` and `RedemptionsAccounted` |
| `RechargesSound` | `RechargeSound`: `TypeOK`, `OrderSettled` and `LifetimeCovers` |
| `GuardsSound` | `GuardSound`: `GuardTotals` and `DaysPaidFor` |
| `OrdersSettled` | `OrderSettled` alone, from the invariant the other flows use |

Five flows share one ledger, one pool of handlers and one counter of notifications, so the argument
is a rely-guarantee one. `Ground` is what they all stand on: requests and tables have their types
(`Typed`), rows of coins stand under their own account and one key (`Books`), and nothing is told,
or about to be told, of coins that are not in the ledger (`Announced`). Each flow has books of its
own on top (`OrderBooks`, `StoreBooks`, `EventBooks`, `RedeemBooks`), which relate where its
requests are to the rows they left: a request that has not called the wallet finds no row under its
key, one past the call finds exactly its own. A step of a flow is `Within` it (it adds rows for keys
of its kind and moves one request); `WithinIsApart` turns that into what the other flows rely on,
`Apart`: their rows are untouched and their requests move only by being cut off. So for each flow
there is a lemma that its own steps keep its books and one that everybody else's do, and
`PaymentsStep` puts them together. Counting shares needs more: `CountedOnce` bounds the count by the
shares made *less the requests still about to count one*, since a count that was read is written
back later.

The counters are a second layer (`CountersInv`), proved on top of the first. `WhoseStep` sorts the
steps once more, into those of recharges, those of guards and those that leave both tables alone.
`Lifetimes` says that an account's counter is at least the price of the orders that ought to be in
it (`Counted`: completed, not under way between mark and count, not cut off) and that its tiers are
those of the counter; `TierRises` is the lemma that a tier of more diamonds is not a lower one. For
guards, no equation survives every interleaving, since a payment becomes a row one statement after
it becomes a debit: `Balanced` keeps what is on record for a fan between the price of the debits
whose request is done and not cut off, and the price of those that are past the write or cut off.
`BoughtTimes` names the number *n* of purchases behind a row: its total is *n* prices, its days at
least *n* periods and at most *n* periods from now. That bounds the days without a division, and
`DaysPaidFor` follows. Both count with the lemmas about sums of `LedgerProofs`.

`KindsApart` is the assumption that carries the weight: an id drawn by one flow is never one drawn
by another, as the prefixes of the ids (`rchg_`, `pur_`, `grdpur_`, ...) make it. The others are
that prices are amounts (`PricesAreAmounts`), that different accounts have different reward keys
(`RewardKeysDiffer`), that a mission asks for something (`TargetPositive`), that the codes there
from the start have known owners (`CodeOwnersKnown`), that accounts, orders and guard purchases are
finitely many (`PaymentsFinite`: their rows are summed), that either ladder of tiers starts at zero
(`StepsFromZero`), that a tier lasts a number of days (`TierDaysType`) and that the seeds' key is
nobody's (`SeedKeyFree`).

### Families and couples (`GroupProofs`)

For every set of accounts, families, couples, ids and handlers, every donation price and growth
factor, and every family there is at the start (`FamiliesSeeded`):

| Theorem | Property |
|---|---|
| `FamiliesSound` | `FamilySound`: `GroupsTypeOK`, `OneFamily`, `OwnerInPlace` and `DonationsCount` |
| `InvitationsSound` | `InvitesSound`: `AcceptedCameTrue` and `CouplesDistinct` |
| `BannedStaysBanned` | `BannedStaysOut`, a property of steps |
| `GroupsKeep` | the invariant `GroupsInv` behind the three |

`FamilyInv` has five parts. `FamilyJobsTyped` and `JobFounded` say what a request of each kind
carries and that the rows it has found are still there (rows are never deleted); `JobFresh`, that
what it is yet to insert is not there and nobody else was given its id. `Uncontended` is the heart:
in a family no two requests of which ever overlapped, the one request at work, if any, *still sees
what it read* (`StillSo`), and the owners are those its place in the three statements of a transfer
says (`OwnersAre`) — the owner of the family's row, then the old owner's, then both. `PointsCount`
and `GivenIsPaid` are the sums: a family's xp is what its members gave and its level the one the xp
reaches; what an account gave lies between the price of its debits that were dealt with and the
price of those not about to be added. For couples `CoupleInv` relates an invitation under way to the
rows it looks at: a request at `accepted` has the couple it is about to announce. Donations move
coins by `Settle`, so `Books` of the money flows is reused.

The step goes in two moves. `Takes`, `Reads` and the lemmas named `...Writes` say what one statement
does to one request and one row (`Effect`, `GoesOn`); then each part of the invariant is shown to
stay, separately for the request that moves (`Own...`) and for all others (`Others...`). That splits
some thirty actions times ten conjuncts into thirty plus ten.

### The game center (`GameProofs`)

For every set of accounts, matches and handlers, every limit of players, every board, track, set of
tiles, number of pieces, balls and questions, and every opening of chess:

| Theorem | Property |
|---|---|
| `ContractKept` | `LobbyKeepsContract`: each step of the lobby and of the engines is a step of `MatchContract` or leaves its variables alone |
| `ResultsFollow` | `ResultFollowsPlay`: the recorded result is the one the engine came to |
| `RacesAreSound` | `RacesSound`: ludo, snakes and ladders |
| `TilesAreAccounted` | `TilesAccounted`: dominoes |
| `PocketsAreSound` | `PocketsSound`: carrom, eight ball |
| `AnswersAreCounted` | `AnswersCounted`: the quiz |
| `GamesTypeCorrect` | `GamesTypeOK` |
| `ChessResultsAreRight` | the half of `ChessSound` about results (`ResultRight`); that about positions is not proved |
| `GamesInductive` | the invariant `GamesSound` behind all of them |

`GamesSound` has four parts: `LobbyTyped` (rows, rosters and what requests carry), `TablesFair`
(every table is a `Fair` one of the match's game, with the match's players), `FinishFits` (a result
that is on its way to the row is the table's) and `ResultFollowsPlay` itself. The lobby needs no
tables: `RowMoves` names the five ways a row may change, every statement of the lobby is one (also
those that decided on a row read earlier, since each `UPDATE` repeats its condition), and
`MoveKeepsContract` turns each into an action of the contract. For the tables, `PlayMove(m, u)` says
what a step of an engine amounts to: *u* is `Fair`, has the same game and players, and if it is over
while the table before was not, its result is set off to be recorded in the same step. There is one
such lemma for each engine (`SnakesMoves`, `LudoMoves`, `DominoMoves`, `CarromMoves`, `EightMoves`,
`QuizMoves`, `ChessMoves`), one for time passing, and `PlayKeeps` for any `PlayMove`.

TLC finds `GamesSound` invariant on the instance of `games`, too. What the runs check of a table is
not inductive, so `Fair` adds to each property what its engine relies on:

- *Dominoes*: that a game is stuck is concluded from a count of passes, while the property speaks of
  hands. `PassedStuck` ties them together: who sits in one of the last `passes` seats before the one
  to move (`Before`) has no legal move, and there is nothing to draw, which stays true because a
  pass changes neither hands nor chain. That everybody passed means that everybody is stuck, and
  `OnlyBest` of the pips is then who won. That the tiles on the table pair up is a parity of sums:
  `Attach` turns one open end into another and adds a tile that has both.
- *Ludo*: `finished` counts tokens that are home; a token never leaves it, and a move onto a square
  that is not safe sends back all that stand there, on squares that are relative to each player's
  start and absolute when they meet.
- *Carrom*: a covered queen does not wait; the score is bounded by the pieces gone, a foul takes no
  more than there is.
- *Eight ball*: no groups yet and everything on the table, or one group each; whether the loser had
  cleared the group is asked before the turn passes.
- *Quiz*: a late answer counts for the next question, a question that closes fills in zeros, and the
  score stays the sum.
- *Chess*: a game that goes on `CanGoOn`: it has a move and material (`ResultRight` alone says so
  only of positions just reached). Generated moves start on a piece of who is to move (`MovesGo` and
  the lemmas after it), so the board after a move has chessmen again.

Its assumptions: `Nobody` is no account (`NobodyPlays`), ids of matches are ids (`MatchesAreIds`),
limits and faces are positive (`LimitsAreCounts`, `FacesAreNumbers`), hops of the board stay on it,
start neither on its last square nor where another ends (`HopsOnBoard`), a track has squares, a home
column and tokens (`TracksFit`), hands are not empty (`TilesDealt`), there are pieces, balls and
questions (`PiecesPositive`, `BallsPositive`, `QuestionsPositive`), time is limited
(`DurationPositive`, `RestartsBounded`) and openings have chessmen (`OpeningsPlayable`).

### The platform (`PlatformRows`, `PlatformProofs`)

For every set of accounts, phones, handlers and services, every bound, and whatever records there
are at the start that an earlier use could have left:

| Theorem | Property |
|---|---|
| `PlatformTypeCorrect` | `PlatformTypeOK` |
| `LoginsAreSound` | `LoginsSound`: `ServedOnlyLive` and `CodesSound` |
| `AuditIsTruthful` | `AuditTruthful` |
| `BlocksAreRespected` | `BlockRespected` |
| `NoticesAreRight` | `NoticesRight` |
| `RecordsAreSingle` | `OneRecord` |
| `SupportIsSound` | `SupportSound` |
| `BreakoutsAreSound` | `BreakoutSound` |

Some hundred actions write to one table of records, and a request may hold a copy of any record for
as long as it likes. `Inv1` is what all of them keep. `StoreTyped`: a record has the fields of its
kind (`WellFormed`) and refers to records that are there (`Refers`). `JobsTyped`: a request is where
its kind can be (`Fits`), carries what the steps ahead of it use (`Carries`), adds only the record
its kind adds (`NewRow`), and updates only records of the right kind with the fields that kind of
request changes (`Mends`); the copy it has read is an old version of the row it will write, with the
same kind and the same fields for what a record is *about* (`SameRow`). That is why a write of an
old copy never changes what a row is about, although it may undo what others wrote, and why nothing
has to be known of the order of writes. There is a lemma for each action that its request becomes
`Turned` (`...Turns`), one for each service that its steps are those of requests of its kinds
(`Acts`), and two for the steps of the store, `AddRowKeeps` and `WriteRowKeeps`, which no service
needs to repeat.

Sessions share the handlers and nothing else: `SessionsApart` says that what others do leaves their
tables and requests alone, but for a cut-off. On that rests, for `ServedOnlyLive`, `ServedSound`
with `SessionJob`: a call that has passed the look at its session began before that session was
revoked, if it has been since. For codes, `CodesInv`: while a login is at its code, either two
attempts at it have overlapped (`Clash`), or another has tried since it read, so that they overlap
once it writes (`Late`), or nobody has opened with it and the tries it read are at least the
attempts that failed. `CodesApart` says that a code is one phone's; `BoundInv`, that a login that
makes an account for a phone began before any other that did had written.

For the audit log, `Accounted` says of an account what is true while deeds are on their way to the
log: its one deed that is not logged (`Missing`) has been applied to what the log says (`Replay`),
or the log has an entry made since that deed began (`LoggedSince`); and when that deed is entered,
either the log says what the account is (`ReplayGoesOn`), or two of its entries have overlapped
(`Crossed`). With two deeds on their way nothing need be known, for the one entered last finds the
other's entry made since it began. `DeedKept` and `ClosingKept` say where the entry of a deed, or of
a closing, is: in the log, let go, cut off, or ahead of the request that did it.

Blocks, privacy and mutes are read in statements of their own, well before what they allow is
written, so what a request has read may not hold any more when it writes. What is true is that no
block, no mute stands *but one written since*: `Renewed(i, n)` says that row i was written after n
writes, and `Unblocked`, `Admits`, `Heeds` and `Wants` say so of blocks, of who may open a
conversation, of mutes and of muted categories. Every step leaves a row as it is or renews it
(`RowsMove`), so each of the four stays true whatever others do (`UnblockedStays` and the lemmas
like it). `Wary` says on which of them a request relies at which of its steps; `FollowsInv`,
`MessagesInv`, `OpeningsInv`, `InboxInv` and `PushedInv` say it of what was written; and `RenewedIs`
turns it into the `LastWrite` of the property. `Announced` follows a message: the request that wrote
it is about to tell of it, or the notification is there, or a mute is on record, or the request was
cut off; `AnnouncerMoves` is the one step from each to the next. `StepKinds` sorts the steps of all
services into seven kinds by the tables they leave alone, so that a table's invariant is about the
steps of one of them.

That there is one record of each kind rests on `Claim`, what a record says that only one should say
at a time: an active block of one account by another, a seat in the room, a review of a report. A
claim is `Free(c, n)` for a request that began after n writes if no row makes it, or each that does
was written since; `Fresh` says that a request which is about to add a record has found its claim
free, and that one which is about to give a record its claim again (a friendship accepted, a member
who returns) has read it with a claim, or the row was written since. `FreeStays` and `FreshStays`
keep that through the steps of others. A record that is then added or revived next to one with the
same claim overlaps the request that wrote that one, both ways (`RenewedIsOvertaken`), which is
`Raced`; `OneRecordKeeps` needs no more of a step than that, and there is a lemma for each search
(`NoBan`, `NoProfile`, ...: what is not found is free) and for each service (`RoomFresh`,
`MusicFresh`, ...).

Support rests on what one step does to one row (`RowMoves`): nothing; or it `Patches` the row as it
is; or it undoes what another request wrote, and then the two overlapped and the row is `Disordered`
(`WrittenIs`). `Helped` says what a request of support is about to write: a reply carries all the
replies its ticket had, or the ticket was written since; whoever is about to patch a ticket began
before that was closed (`ClosedBefore`), so a later write of it overtakes the closing; the reviewer
of an appeal is to write the outcome, and then the review (`Overturns`). `RepliesStay` and
`ReviewsStay` say which patches of tickets and reviews undo nothing; `OverturnBegins` and
`OverturnGoesOn` follow an appeal from its outcome to that of its review, or to the request that was
cut off in between.

Of breakouts, `Ushers` says what a request has found: who is about to attend found the breakout
open, or it was written since; and found room beside those who were there and were not written since
(`Steady`). So a set that is too large holds two that overlapped: `Crowded` says so of all subsets,
which is what makes it inductive; `CrowdShrinks` and `CrowdGrows` keep it when a row ends and when
one is added, for any set of rows and any capacity. A breakout that is closed has a request that is
about to dismiss who is in it (`Clears`, `ClearGoesOn`), or that was cut off.

Its assumptions: records there from the start are well-formed, a player shows one of their tracks,
an appeal is about one of their reviews, who attends is in one of their breakouts, and services of
rooms have a room (`SeedsAssumption`); requests that were there before did not overlap, so each
claim is made once, appeals agree with their reviews, and breakouts have room and are empty once
closed (`SettledAssumption`); `Nobody` and `NoAccount` are no names (`NamesAssumption`); the tries
of a code are a number (`TriesAssumption`), as are the capacities (`CapacityAssumption`).

### Shared lemmas (`SumProofs`, `LedgerProofs`)

Sums over sets are `SumFunctionOnSet` of the community modules, a fold, of which no library has
theorems. The library's induction over finite sets takes an operator as a parameter, which the
provers cannot instantiate; `MinimalSet` and `SetInduction` get it from the well-foundedness of the
strict subset ordering instead, as statements about a *set of sets*. On these rest `SumSplit`,
`SumExcept` (one entry changes), `SumSame`, `SumNat`, `FiniteImage` and `LargestLeast`.
`LedgerProofs` adds, for levels, `LastLevel` and `LevelIsReached`; its `Books`, `Applied` and
`Settled` say what a call of the wallet does to the rows of the ledger.

### What stays with TLC

Liveness (`WaitersServed`, `RequestsEnd`, `ClockedGamesEnd`): fairness and `ENABLED` are out of the
prover's reach. `PositionSound` of chess: that a right to castle has its king and rook at home and
that attack and capture agree are facts about sixty-four squares and the moves of each piece; the
run checks them for the positions two moves deep from four openings. The properties of `Platform`
but for those listed above: they speak of the order in which requests wrote, and need that history
in their invariants. What a recursive definition computes for every input is not proved anywhere:
the domino chain, levels and folds are reasoned about by what one step changes.

## 6. What the models say beyond the properties

*Money*

- The pool can run dry against itself. `Replay` asks the pool for a connection while the call holds
  one (`wallet.repository.js:221`); if every connection is held by such a call, none goes on, and
  the pool of `database/index.js:137` sets no `connectionTimeoutMillis`. The model has that state;
  only `ConnectionLost` leaves it. No line of the code claims otherwise, so no run refutes anything.
- A claim cut off between mark and credit stays claimed and unpaid (`HistoryPaid` fails;
  `ClaimsPaid` says that only a cut-off does it).
- The comment that a genuine retry of a staff grant "can never double-grant"
  (`inventory-admin.service.js`) is about one call's reference id; a repeated request draws a new
  one.
- A share recorded just before an event ends is not counted: the increment answers 403 after the
  share is stored (`SharesCounted` excuses exactly this).

*Gifts, couples, families*

- A gift whose request is cut off after the payment is counted by the services before the cut and
  never by those after it, and repeating the gift pays again: keys are drawn per call.
- Points can land after a round's end, because end and score are compared and written in two steps
  (`ScoreWithinRound` fails).
- Moderation does not look again. `leave`, `kick`, `ban`, `accept` write what they decided on rows
  that may have changed; `OwnerInPlace` and `BannedStaysOut` therefore speak of families whose
  requests did not overlap. A transfer that overlaps the target's departure leaves nobody as owner
  (`NeverOwnerless` fails, against `family.service.js:26-27`).
- Two acceptances that overlap make one account second in one active couple and first in another:
  the two indexes cover one column each (`OnePartner` fails, against
  `schema/019_create_couples.sql:52-54`).
- Closing a wall answers with totals read before the `UPDATE`; a gift that arrives in between, or
  after it with the session's id in hand, is in the stored totals and not in the answer.

*Platform*

- A ban evicts one membership; if two joins doubled it, the other stays. A ban cut off before the
  eviction is not completed by repeating it: the retry finds the ban and returns. Reconnecting asks
  neither for a ban nor whether the room is open.
- A setting written by its owner while staff close a room writes back the whole record and reopens
  it.
- `discoverForHome` and `listDiscoverable` do not ask whether a room is open, so a closed room whose
  members are still joined stays "live". Search does not ask for blocks.
- Of two profiles that overlapping first writes made, updates and `getFull` use the older one and
  search the newer one.
- Two first uses of a room's music make two players, of which one is never seen again. Two of
  `play`, `next` and `stop` that overlap leave two tracks playing, against "at most one real playing
  track per room" (`feature-platform.js:1621-1623`); `OnePlaying` is stated in `Platform` and
  violated when it is added to MCPlatform.cfg; `PlayerSound` speaks of the records whose requests
  did not overlap.
- A track is not always "appended at the end of the current queue"
  (`feature-platform.js:1531-1532`): its position is the count of queued and playing tracks, and
  `play` and `next` take tracks away without a reindex. Four tracks at 0 to 3, `play`, `next`,
  `next`: the fourth waits at 3, and a fifth gets position 2.
- Nothing but the staff's list consults `suspendedAt`; a repeated suspension changes nothing and is
  entered in the log again.
- A wrong attempt that read a code before it was used writes the record back, so a used code can be
  tried again; attempts that overlap are counted once.

*Games*

- A lobby may exceed its limit, or start with too few players, when a join or a departure overlaps
  the check (`EnoughPlayers` fails, against `game-match.service.js:170-172`).
- A restart forgets the table; a match under way starts anew at the next look, and is finished by
  what is played then.
- An answer that arrives after its question closed is taken as one to the next question (a test
  documents it).
- The opener of a domino match need not play the highest double, which `domino.service.js:76-77`
  says.
- The counters of half moves and repeated positions are kept and never read; carrom's fall-back from
  a pocket to a miss when no piece is left cannot be reached.

## 7. Not modelled, and why

Reads that change nothing and decide nothing (analytics, anti-fraud, lists of the staff panel,
rankings by period or of families); text (word filter, translations, names, search terms); library
middleware (headers, rate limits); the external services behind payment verification, push and voice
tokens, which appear as a nondeterministic answer or not at all; migrations, which run before the
server starts; the client, whose retries are the repeated calls of the models; the five account
settings, each one atomic upsert of one value; the buses (`music-bus.js`, `chat-bus.js`,
`notification-bus.js`), which forward to whoever is connected and keep no state.

Within modelled components: consents, room passwords and categories, reply targets of messages, the
audit entries of support tickets (`feature-platform.js:2057`, `:2103`). A request's reads that
directly follow one another when it begins are one step where nothing else of the request depends on
their order. Missions advanced by a gift are increments of `Rewards`; `Gifts` does not compose with
them. A match's roster names an account once, though `POST /api/games` does not check it.

## 8. Running

    tlc -workers 2 -config MCWalletPg.cfg MCWalletPg.tla      # wallet; MCReplay.cfg: wallet_replay
    tlc -workers 2 -config MCPayments.cfg MCPayments.tla      # payments; MCLifetime.cfg, MCReferral.cfg
    tlc -workers 2 -config MCGifts.cfg MCGifts.tla            # gifts
    tlc -workers 2 -config MCGroups.cfg MCGroups.tla          # groups
    tlc -workers 2 -config MCGames.cfg MCGames.tla            # games; MCCancelled.cfg: game_cancelled_finished
    tlc -workers 2 -config MCClocks.cfg MCGames.tla           # clocks
    tlc -workers 2 -config MCPlatform.cfg MCPlatform.tla      # platform; MCReplies.cfg: ticket_reply_lost
    tlapm SumProofs.tla
    tlapm LedgerProofs.tla
    tlapm GiftProofs.tla
    tlapm PaymentProofs.tla
    tlapm GroupProofs.tla
    tlapm GameProofs.tla                                      # about eight minutes
    tlapm PlatformRows.tla                                    # about five minutes
    tlapm PlatformProofs.tla                                  # about ten minutes
