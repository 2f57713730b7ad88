-------- MODULE Battles --------
(***************************************************************************)
(* battle.service.js and PostgresBattleRepository: a host challenges an    *)
(* opponent in the host's room, the opponent accepts or declines, gifts    *)
(* score until one side ends the battle or somebody looks at it after its  *)
(* time.  Every change reads the row, decides, and then runs an UPDATE     *)
(* that names the status it expects.                                       *)
(***************************************************************************)
EXTENDS AccountIds, RequestHandlers

CONSTANTS Rooms,
          Owner,       \* room -> the account requireRoomOwner lets through
          BattleIds,   \* ids battles may draw
          Round,       \* how long a battle lasts
          Nobody       \* winner_id NULL

ASSUME OwnersKnown == Owner \in [Rooms -> Accounts] /\ Nobody \notin Accounts
ASSUME BattlesAreIds == BattleIds \subseteq Ids
ASSUME RoundPositive == Round \in Nat \ {0}

VARIABLE battles   \* the table battles

Sides == {"host", "opponent"}

NoBattle == [status |-> "none"]

BattlesInit == battles = [b \in BattleIds |-> NoBattle]

\* The rows the index battles_one_open_per_room covers.
Open(b) == battles[b].status \in {"pending", "active"}
OpenIn(r) == {b \in BattleIds : Open(b) /\ battles[b].room = r}

Expired(b) == battles[b].status = "active" /\ battles[b].endsAt <= time

\* The side of b an account stands on; empty for anybody else.
SidesOf(b, a) ==
  {s \in Sides : \/ s = "host" /\ a = battles[b].host
                 \/ s = "opponent" /\ a = battles[b].opponent}

\* createChallenge is one INSERT, refused with 409 when the room has an open
\* battle.
Challenge(r, opponent) ==
  /\ opponent # Owner[r]
  /\ OpenIn(r) = {}
  /\ accepted < MaxRequests
  /\ accepted' = accepted + 1
  /\ \E b \in BattleIds \ issued :
        /\ issued' = issued \cup {b}
        /\ battles' = [battles EXCEPT ![b] =
             [room |-> r, host |-> Owner[r], opponent |-> opponent, status |-> "pending",
              score |-> [s \in Sides |-> 0], winner |-> Nobody, endsAt |-> 0]]
  /\ UNCHANGED <<job, dropped, time, notices>>

\* The opponent accepts or declines, the host cancels: the row is read and
\* must be pending ...
StartAnswer(h, b, answer) ==
  /\ battles[b].status = "pending"
  /\ Accept(h, [op |-> "answer", at |-> "update", key |-> b, answer |-> answer])
  /\ UNCHANGED <<issued, battles>>

\* Mutant: an UPDATE that does not look at the status again.
AnswerAnyway(h) ==
  LET b == job[h].key
      status == job[h].answer IN
  /\ Doing(h, "answer", "update")
  /\ battles' = [battles EXCEPT
       ![b].status = status,
       ![b].endsAt = IF status = "active" THEN time + Round ELSE @]
  /\ Finish(h)

\* ... and the UPDATE changes it only if it still is.
Answer(h) ==
  LET b == job[h].key
      status == job[h].answer IN
  /\ Doing(h, "answer", "update")
  /\ battles' = IF battles[b].status # "pending" THEN battles
                ELSE [battles EXCEPT
                        ![b].status = status,
                        ![b].endsAt = IF status = "active" THEN time + Round ELSE @]
  /\ Finish(h)

\* A participant ends the battle, or looks at one past its time.
StartEnd(h, b) ==
  /\ battles[b].status = "active"
  /\ Accept(h, [op |-> "end", at |-> "update", key |-> b])
  /\ UNCHANGED <<issued, battles>>

Winner(b) ==
  LET host == battles[b].score["host"]
      opponent == battles[b].score["opponent"]
  IN IF host > opponent THEN battles[b].host
     ELSE IF opponent > host THEN battles[b].opponent ELSE Nobody

\* UPDATE ... SET status = 'ended' WHERE status = 'active'.
EndRow(b) ==
  battles' = IF battles[b].status # "active" THEN battles
             ELSE [battles EXCEPT ![b].status = "ended", ![b].winner = Winner(b)]

EndBattle(h) ==
  /\ Doing(h, "end", "update")
  /\ EndRow(job[h].key)
  /\ Finish(h)

\* Mutant: points are added whatever became of the battle.
AddScoreAnyway(b, side, coins) ==
  battles' = [battles EXCEPT ![b].score[side] = @ + coins]

\* addScore: UPDATE ... WHERE status = 'active'.
AddScore(b, side, coins) ==
  battles' = IF battles[b].status # "active" THEN battles
             ELSE [battles EXCEPT ![b].score[side] = @ + coins]

BattleStep(h) == Answer(h) \/ EndBattle(h)

BattleRequest ==
  \/ \E r \in Rooms, a \in Accounts : Challenge(r, a)
  \/ \E h \in Handlers, b \in BattleIds :
        \/ \E answer \in {"active", "declined", "cancelled"} : StartAnswer(h, b, answer)
        \/ StartEnd(h, b)
=============================
