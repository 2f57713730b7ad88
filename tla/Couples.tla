-------- MODULE Couples --------
(***************************************************************************)
(* couple.service.js and PostgresCoupleRepository: invitations, pairing,   *)
(* unpairing and the points gifts add.  The service checks, then writes;   *)
(* the writes to invitations and couples do not check again, except for    *)
(* what two unique indexes refuse.                                         *)
(***************************************************************************)
EXTENDS AccountIds, RequestHandlers

CONSTANTS CoupleIds, InviteIds,   \* ids couples and invitations may draw
          Rank,                   \* the lexicographic order of account ids
          CpFactor                \* COUPLE_CP_PER_LEVEL_FACTOR

ASSUME CoupleIdsKnown == CoupleIds \cup InviteIds \subseteq Ids
ASSUME RankOrders == /\ Rank \in [Accounts -> Nat]
                     /\ \A a, b \in Accounts : Rank[a] = Rank[b] => a = b
ASSUME CpFactorPositive == CpFactor \in Nat \ {0}

VARIABLES couples,   \* the table couples
          invites    \* the table couple_invites

coupleVars == <<couples, invites>>

\* The rows of the two tables, and what stands for a row that is not there.
CoupleRow == [status : {"active", "ended"}, first : Accounts, second : Accounts,
              cp : Nat, level : Nat]
InviteRow == [status : {"pending", "accepted", "declined", "cancelled"},
              from : Accounts, to : Accounts]

NoCouple == [status |-> "none"]
NoInvite == [status |-> "none"]

CouplesTyped ==
  /\ couples \in [CoupleIds -> {NoCouple} \cup CoupleRow]
  /\ invites \in [InviteIds -> {NoInvite} \cup InviteRow]

CouplesInit ==
  /\ couples = [c \in CoupleIds |-> NoCouple]
  /\ invites = [i \in InviteIds |-> NoInvite]

\* orderPair: account_a is the one whose id sorts first.
FirstOf(a, b) == IF Rank[a] < Rank[b] THEN a ELSE b
SecondOf(a, b) == IF Rank[a] < Rank[b] THEN b ELSE a

Active == {c \in CoupleIds : couples[c].status = "active"}

\* What findActiveCoupleByAccount may return.
CouplesOf(a) == {c \in Active : a \in {couples[c].first, couples[c].second}}

PendingBetween(a, b) ==
  {i \in InviteIds : /\ invites[i].status = "pending"
                     /\ {invites[i].from, invites[i].to} = {a, b}}
-----------------------------
\* sendInvite: the inviter has no couple, ...
StartInvite(h, a, b) ==
  /\ a # b
  /\ CouplesOf(a) = {}
  /\ \E i \in InviteIds \ issued :
        /\ Accept(h, [op |-> "invite", at |-> "pending", key |-> i, from |-> a, to |-> b])
        /\ issued' = issued \cup {i}
  /\ UNCHANGED coupleVars

\* ... no invitation is pending between the two, ...
CheckPending(h) ==
  /\ Doing(h, "invite", "pending")
  /\ IF PendingBetween(job[h].from, job[h].to) = {} THEN Goto(h, "insert") ELSE Finish(h)
  /\ UNCHANGED coupleVars

\* ... and the row is inserted.
InsertInvite(h) ==
  /\ Doing(h, "invite", "insert")
  /\ invites' = [invites EXCEPT ![job[h].key] =
                   [status |-> "pending", from |-> job[h].from, to |-> job[h].to]]
  /\ Goto(h, "notify")
  /\ UNCHANGED couples

NotifyInvite(h) ==
  /\ Doing(h, "invite", "notify")
  /\ Notify(h)
  /\ UNCHANGED coupleVars

\* acceptInvite: the invitation is pending, ...
StartPair(h, i) ==
  /\ invites[i].status = "pending"
  /\ Accept(h, [op |-> "pair", at |-> "invitee", key |-> i])
  /\ UNCHANGED <<issued, coupleVars>>

\* ... the invitee has no couple, ...
CheckInvitee(h) ==
  /\ Doing(h, "pair", "invitee")
  /\ IF CouplesOf(invites[job[h].key].to) = {} THEN Goto(h, "inviter") ELSE Finish(h)
  /\ UNCHANGED coupleVars

\* ... nor has the inviter, ...
CheckInviter(h) ==
  /\ Doing(h, "pair", "inviter")
  /\ IF CouplesOf(invites[job[h].key].from) = {} THEN Goto(h, "create") ELSE Finish(h)
  /\ UNCHANGED coupleVars

\* Mutant: no index on active couples.
AdmitsAny(first, second) == first # second

\* The two unique indexes: one active couple per account_a, one per account_b.
Admits(first, second) ==
  \A c \in Active : couples[c].first # first /\ couples[c].second # second

NewCouple(h, after) ==
  LET i == job[h].key
      first == FirstOf(invites[i].from, invites[i].to)
      second == SecondOf(invites[i].from, invites[i].to)
  IN IF Admits(first, second)
     THEN /\ \E c \in CoupleIds \ issued :
                /\ couples' = [couples EXCEPT ![c] =
                      [status |-> "active", first |-> first, second |-> second, cp |-> 0, level |-> 0]]
                /\ issued' = issued \cup {c}
          /\ job' = [job EXCEPT ![h].at = after]
          /\ UNCHANGED <<accepted, dropped, time, notices, invites>>
     ELSE Break(h) /\ UNCHANGED coupleVars

\* ... and the couple is created; the index's refusal is an error nobody
\* catches.
CreateCouple(h) == Doing(h, "pair", "create") /\ NewCouple(h, "accepted")

\* updateInviteStatus(..., 'accepted'), whatever the status has become.
MarkAccepted(h) ==
  /\ Doing(h, "pair", "accepted")
  /\ invites' = [invites EXCEPT ![job[h].key].status = "accepted"]
  /\ Goto(h, "notify")
  /\ UNCHANGED couples

NotifyPair(h) ==
  /\ Doing(h, "pair", "notify")
  /\ Notify(h)
  /\ UNCHANGED coupleVars

\* The invitee declines or the inviter cancels: read, then written.
StartReject(h, i, status) ==
  /\ invites[i].status = "pending"
  /\ Accept(h, [op |-> "reject", at |-> "update", key |-> i, status |-> status])
  /\ UNCHANGED <<issued, coupleVars>>

Reject(h) ==
  /\ Doing(h, "reject", "update")
  /\ invites' = [invites EXCEPT ![job[h].key].status = job[h].status]
  /\ Finish(h)
  /\ UNCHANGED couples

\* unpair: either partner of an active couple.
StartUnpair(h, c) ==
  /\ c \in Active
  /\ Accept(h, [op |-> "unpair", at |-> "end", key |-> c])
  /\ UNCHANGED <<issued, coupleVars>>

EndCouple(h) ==
  /\ Doing(h, "unpair", "end")
  /\ couples' = [couples EXCEPT ![job[h].key].status = "ended"]
  /\ Finish(h)
  /\ UNCHANGED invites

\* addCp, in a transaction that locks the row; the couple may have ended.
AddCp(c, coins) ==
  LET cp == couples[c].cp + coins IN
  /\ \E estimate \in 0..cp :
       couples' = [couples EXCEPT ![c].cp = cp, ![c].level = LevelFrom(estimate, CpFactor, cp)]
  /\ UNCHANGED invites

PairingStep(h) ==
  \/ CheckPending(h) \/ InsertInvite(h) \/ NotifyInvite(h)
  \/ CheckInvitee(h) \/ CheckInviter(h) \/ CreateCouple(h)
  \/ MarkAccepted(h) \/ NotifyPair(h) \/ Reject(h)

PairingRequest ==
  \E h \in {g \in Handlers : Ready(g)} :
     \/ \E a, b \in Accounts : StartInvite(h, a, b)
     \/ \E i \in InviteIds : StartPair(h, i)
     \/ \E i \in InviteIds, status \in {"declined", "cancelled"} : StartReject(h, i, status)

UnpairStep(h) == EndCouple(h)
UnpairRequest == \E h \in Handlers, c \in CoupleIds : StartUnpair(h, c)
=============================
