-------- MODULE Rewards --------
(***************************************************************************)
(* Coins an account earns: for the missions of an event, and for accounts  *)
(* that redeem its code.                                                   *)
(***************************************************************************)
EXTENDS WalletLedger, RequestHandlers

(***************************************************************************)
(* event.service.js and PostgresEventRepository, for one event with one    *)
(* mission, to share it: a share is recorded, then the progress of the     *)
(* mission is read and written back; a completed mission is marked claimed *)
(* and then paid.                                                          *)
(***************************************************************************)
CONSTANTS RewardKey,    \* account -> event_reward_{event}_{mission}_{account}
          RewardCoins,
          TargetCount,
          EventEnds     \* the day the event ends on

ASSUME RewardKeyType == RewardKey \in [Accounts -> Ids \cap Keys]
ASSUME RewardKeysDiffer == \A a, b \in Accounts : RewardKey[a] = RewardKey[b] => a = b
ASSUME TargetPositive == TargetCount \in Nat \ {0}
ASSUME EventEndsType == EventEnds \in Nat

VARIABLES progress,  \* account -> its event_mission_progress row
          shares     \* account -> how many event_shares rows it has

eventVars == <<progress, shares>>

RewardKeys == {RewardKey[a] : a \in Accounts}

\* A row of event_mission_progress, and what findProgress makes of none.
ProgressRow == [count : 0 .. TargetCount, completed : BOOLEAN, claimed : BOOLEAN]
NoProgress == [count |-> 0, completed |-> FALSE, claimed |-> FALSE]

EventsInit ==
  /\ progress = [a \in Accounts |-> NoProgress]
  /\ shares = [a \in Accounts |-> 0]

RewardCredit(a) ==
  [account |-> a, currency |-> "coins", direction |-> "credit",
   amount |-> RewardCoins, key |-> RewardKey[a]]

EventActive == time < EventEnds

\* recordShare: the event is active, and the share is stored ...
StartShare(h, a) ==
  /\ EventActive
  /\ Accept(h, [op |-> "share", at |-> "progress", key |-> RewardKey[a], account |-> a, seen |-> 0])
  /\ shares' = [shares EXCEPT ![a] = @ + 1]
  /\ UNCHANGED <<issued, ledgerVars, progress>>

\* ... then incrementMissionProgress asks again whether the event is active,
\* and reads the row ...
ReadProgress(h) ==
  LET a == job[h].account IN
  /\ Doing(h, "share", "progress")
  /\ IF EventActive /\ ~progress[a].completed
     THEN /\ job' = [job EXCEPT ![h].at = "upsert", ![h].seen = progress[a].count]
          /\ UNCHANGED <<accepted, issued, dropped, time, notices>>
     ELSE Finish(h)
  /\ UNCHANGED <<ledgerVars, eventVars>>

\* Mutant: the whole row is written back, the claim with it.
UpsertRow(h) ==
  LET a == job[h].account
      new == IF job[h].seen + 1 < TargetCount THEN job[h].seen + 1 ELSE TargetCount IN
  /\ Doing(h, "share", "upsert")
  /\ progress' = [progress EXCEPT ![a] = [count |-> new, completed |-> new >= TargetCount,
                                          claimed |-> FALSE]]
  /\ Finish(h)
  /\ UNCHANGED <<ledgerVars, shares>>

\* ... and progress and completed are written from what was read.  claimed
\* is left alone.
Upsert(h) ==
  LET a == job[h].account
      new == IF job[h].seen + 1 < TargetCount THEN job[h].seen + 1 ELSE TargetCount IN
  /\ Doing(h, "share", "upsert")
  /\ progress' = [progress EXCEPT ![a].count = new, ![a].completed = new >= TargetCount]
  /\ Finish(h)
  /\ UNCHANGED <<ledgerVars, shares>>

StartClaim(h, a) ==
  /\ progress[a].completed
  /\ ~progress[a].claimed
  /\ Accept(h, [op |-> "claim", at |-> "mark", key |-> RewardKey[a], account |-> a])
  /\ UNCHANGED <<issued, ledgerVars, eventVars>>

\* UPDATE ... SET claimed_at = now() WHERE claimed_at IS NULL: the loser of a
\* race gets 409.
MarkClaimed(h) ==
  LET a == job[h].account IN
  /\ Doing(h, "claim", "mark")
  /\ progress' = [progress EXCEPT ![a].claimed = TRUE]
  /\ IF progress[a].claimed THEN Finish(h) ELSE Goto(h, "credit")
  /\ UNCHANGED <<ledgerVars, shares>>

CreditReward(h) ==
  /\ Doing(h, "claim", "credit")
  /\ Settle(RewardCredit(job[h].account))
  /\ Goto(h, "notify")
  /\ UNCHANGED eventVars

NotifyClaim(h) ==
  /\ Doing(h, "claim", "notify")
  /\ Notify(h)
  /\ UNCHANGED <<ledgerVars, eventVars>>

EventStep(h) ==
  \/ ReadProgress(h) \/ Upsert(h) \/ MarkClaimed(h) \/ CreditReward(h) \/ NotifyClaim(h)
-----------------------------
(***************************************************************************)
(* referral.service.js over the redemption records of feature-platform.js: *)
(* look for an earlier redemption, add one, credit the code's owner, mark  *)
(* the record completed.  feature_records has no unique index on the       *)
(* referee, and each redemption has an id, hence a key, of its own; nor on *)
(* the owner of a code, and both codes of an account are good.             *)
(***************************************************************************)
CONSTANTS RedemptionIds,
          CodeIds,        \* ids codes may draw
          CodeOwners,     \* accounts that have a code when the run starts
          ReferralCoins   \* REFERRAL_REWARD_COINS

ASSUME RedemptionsAreKeys == RedemptionIds \subseteq Ids \cap Keys /\ CodeIds \subseteq Ids
ASSUME CodeOwnersKnown == CodeOwners \subseteq Accounts

VARIABLES redemptions,   \* records of type 'redemption'
          codes          \* records of type 'code': the id, unless it is old, and the owner

referralVars == <<redemptions, codes>>

ReferralInit ==
  /\ redemptions = {}
  /\ codes = {[id |-> "old", owner |-> a] : a \in CodeOwners}

\* myCode: an account that has a code gets it back, another gets a new one.
StartCode(h, a) ==
  /\ \A c \in codes : c.owner # a
  /\ \E k \in CodeIds \ issued :
       /\ Accept(h, [op |-> "code", at |-> "add", key |-> k, owner |-> a])
       /\ issued' = issued \cup {k}
  /\ UNCHANGED <<ledgerVars, referralVars>>

AddCode(h) ==
  /\ Doing(h, "code", "add")
  /\ codes' = codes \cup {[id |-> job[h].key, owner |-> job[h].owner]}
  /\ Finish(h)
  /\ UNCHANGED <<ledgerVars, redemptions>>

RedemptionCredit(d) ==
  [account |-> d.referrer, currency |-> "coins", direction |-> "credit",
   amount |-> ReferralCoins, key |-> d.id]

\* findByCode, assertNotSelfReferral and hasRedeemed, the last read before
\* anything is written.
StartRedeem(h, referee, code) ==
  /\ referee # code.owner
  /\ ~ \E d \in redemptions : d.referee = referee
  /\ \E k \in RedemptionIds \ issued :
       /\ Accept(h, [op |-> "redeem", at |-> "add", key |-> k,
                     referee |-> referee, referrer |-> code.owner])
       /\ issued' = issued \cup {k}
  /\ UNCHANGED <<ledgerVars, referralVars>>

Redemption(h, status) ==
  [id |-> job[h].key, referee |-> job[h].referee, referrer |-> job[h].referrer,
   status |-> status]

AddRedemption(h) ==
  /\ Doing(h, "redeem", "add")
  /\ redemptions' = redemptions \cup {Redemption(h, "pending")}
  /\ Goto(h, "credit")
  /\ UNCHANGED <<ledgerVars, codes>>

CreditReferrer(h) ==
  /\ Doing(h, "redeem", "credit")
  /\ Settle(RedemptionCredit(Redemption(h, "pending")))
  /\ Goto(h, "complete")
  /\ UNCHANGED referralVars

CompleteRedemption(h) ==
  /\ Doing(h, "redeem", "complete")
  /\ redemptions' = (redemptions \ {Redemption(h, "pending")})
                      \cup {Redemption(h, "completed")}
  /\ Finish(h)
  /\ UNCHANGED <<ledgerVars, codes>>

ReferralStep(h) ==
  AddCode(h) \/ AddRedemption(h) \/ CreditReferrer(h) \/ CompleteRedemption(h)
=============================
