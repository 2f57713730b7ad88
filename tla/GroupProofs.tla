-------- MODULE GroupProofs --------
(***************************************************************************)
(* Proofs about Groups for every set of accounts, ids, handlers and every  *)
(* seed: an account is in one family at most, families that were never     *)
(* served by two handlers at once keep their owner and their banned out,   *)
(* contributions are what was donated, and accepted invitations came true. *)
(***************************************************************************)
EXTENDS Groups, LedgerProofs

\* What a request to the families carries while it is under way.
CreateJob == [op : {"create"}, at : {"insert"}, key : FamilyIds, family : FamilyIds,
              account : Accounts]
OfferJob == [op : {"offer"}, at : {"target", "pending", "insert", "notify"}, key : OfferIds,
             family : FamilyIds, from : Accounts, to : Accounts]
JoinJob == [op : {"join"}, at : {"free", "member", "insert", "rejoin", "accepted", "notify"},
            key : OfferIds, family : FamilyIds, account : Accounts]
WithdrawJob == [op : {"withdraw"}, at : {"rank", "update"}, key : OfferIds, family : FamilyIds,
                status : {"declined", "revoked"}, account : Accounts]
ModerateJob == [op : {"moderate"}, at : {"target", "write", "owner", "newRole", "oldRole"},
                key : FamilyIds, family : FamilyIds,
                act : {"kick", "ban", "unban", "promote", "demote", "transfer"},
                account : Accounts, target : Accounts, rank : 0..2]
LeaveJob == [op : {"moderate"}, at : {"write"}, key : FamilyIds, family : FamilyIds,
             act : {"leave"}, account : Accounts, target : Accounts]
DonateJob == [op : {"donate"}, at : {"debit", "contribute"}, key : DonationIds,
              family : FamilyIds, account : Accounts]

FamilyJobs == CreateJob \cup OfferJob \cup JoinJob \cup WithdrawJob \cup ModerateJob
                \cup LeaveJob \cup DonateJob

\* Moderation is about its family, of somebody else unless they leave, and
\* only a transfer goes through three writes.
ModerationFits(h) ==
  /\ job[h].op \in {"create", "moderate"} => job[h].key = job[h].family
  /\ job[h].op = "moderate" =>
       /\ job[h].act = "leave" <=> job[h].account = job[h].target
       /\ job[h].at \in {"owner", "newRole", "oldRole"} => job[h].act = "transfer"
       /\ job[h].at = "write" => job[h].act # "transfer"

FamilyJobsTyped ==
  /\ job \in [Handlers -> {Idle} \cup FamilyJobs]
  /\ \A h \in Handlers : ModerationFits(h)
  /\ notices \in [Ids -> Nat]

\* Memberships and invitations are of families that exist, what exists has
\* its id, and the invitations that say so were accepted.
RowsFounded ==
  /\ \A f \in FamilyIds, a \in Accounts : members[<<f, a>>] # NoMember => families[f] # NoFamily
  /\ \A f \in FamilyIds : families[f] # NoFamily => f \in issued
  /\ \A i \in OfferIds : offers[i] # NoOffer =>
       /\ i \in issued
       /\ families[offers[i].family] # NoFamily
       /\ offers[i].status = "accepted" => members[<<offers[i].family, offers[i].to>>] # NoMember

\* The rows a request has found are there.
JobFounded(h) ==
  /\ job[h] # Idle => job[h].key \in issued
  /\ job[h].op \in {"offer", "join", "withdraw", "moderate", "donate"} =>
       families[job[h].family] # NoFamily
  /\ job[h].op = "join" =>
       /\ offers[job[h].key] # NoOffer
       /\ offers[job[h].key].family = job[h].family /\ offers[job[h].key].to = job[h].account
       /\ job[h].at \in {"rejoin", "accepted", "notify"} =>
            members[<<job[h].family, job[h].account>>] # NoMember
  /\ job[h].op = "withdraw" => offers[job[h].key] # NoOffer
  /\ job[h].op \in {"moderate", "donate"} => members[<<job[h].family, job[h].account>>] # NoMember
  /\ job[h].op = "moderate" /\ job[h].at # "target" =>
       members[<<job[h].family, job[h].target>>] # NoMember

\* Rows a request is yet to insert are not there, nor is the debit a donation
\* is yet to make, and nobody else was given the same id for them.
JobFresh(h) ==
  /\ job[h].op = "create" => families[job[h].key] = NoFamily
  /\ job[h].op = "offer" /\ job[h].at # "notify" => offers[job[h].key] = NoOffer
  /\ job[h].op = "donate" =>
       Payers(job[h].key) = IF job[h].at = "debit" THEN {} ELSE {job[h].account}
  /\ job[h].op \in {"create", "offer", "donate"} =>
       \A g \in Handlers : job[g].op = job[h].op /\ job[g].key = job[h].key => g = h

\* Coins move by donations only.
Donated ==
  \A row \in CoinRows :
     \/ row.key = SeedKey /\ row.direction = "credit"
     \/ row.key \in DonationIds \cap issued /\ row.direction = "debit"

\* Handler h works on a request about family f.
Serves(h, f) == job[h] # Idle /\ job[h].family = f

\* A request that nobody interferes with still sees what it has read.
StillSo(h) ==
  LET f == job[h].family
      own == members[<<f, job[h].account>>]
      row == members[<<f, job[h].target>>] IN
  /\ job[h].op = "join" /\ job[h].at \in {"member", "insert", "rejoin"} =>
       /\ ~Belongs(f, job[h].account)
       /\ job[h].at = "rejoin" => own.status # "banned"
  /\ job[h].op = "moderate" /\ job[h].act = "leave" => own.status = "active" /\ own.role # "owner"
  /\ job[h].op = "moderate" /\ job[h].act # "leave" =>
       /\ job[h].at \in {"target", "write", "owner"} =>
            MayAct(f, job[h].act, job[h].account) /\ job[h].rank = RoleRank[own.role]
       /\ job[h].at \in {"write", "owner"} => MayBeDone(job[h].act, row, job[h].rank)
       /\ job[h].at = "newRole" =>
            /\ job[h].account \in Owners(f) /\ row.status = "active"
            /\ families[f].owner = job[h].target
       /\ job[h].at = "oldRole" =>
            /\ {job[h].account, job[h].target} \subseteq Owners(f)
            /\ families[f].owner = job[h].target

\* Whom a family's rows name as owners while nobody else is at work on them.
OwnersAre(h, f) ==
  IF Serves(h, f) /\ job[h].op = "moderate" /\ job[h].at = "newRole" THEN {job[h].account}
  ELSE IF Serves(h, f) /\ job[h].op = "moderate" /\ job[h].at = "oldRole"
       THEN {job[h].account, job[h].target}
  ELSE {families[f].owner}

Uncontended ==
  \A f \in FamilyIds \ contended :
     /\ \A g, h \in Handlers : Serves(g, f) /\ Serves(h, f) => g = h
     /\ \A h \in Handlers : Serves(h, f) => StillSo(h)
     /\ families[f] # NoFamily =>
          /\ Owners(f) # {}
          /\ \/ f \in dropped
             \/ (\A h \in Handlers : ~Serves(h, f)) /\ Owners(f) = {families[f].owner}
             \/ \E h \in Handlers : Serves(h, f) /\ Owners(f) = OwnersAre(h, f)

\* A family's levels and points.
PointsOf(f) ==
  /\ families[f].xp = SumFunctionOnSet([a \in Accounts |-> members[<<f, a>>].contribution], Accounts)
  /\ LevelReached(families[f].level, FamilyFactor, families[f].xp)

PointsCount == \A f \in FamilyIds : PointsOf(f)

\* Donations an account has paid for, and the ones not yet added.
Debits(a) == {n \in DonationIds : a \in Payers(n)}
Pending(a) == {n \in Debits(a) : InFlight("donate", n, {"contribute"})}
Given(a) == SumFunctionOnSet([f \in FamilyIds |-> members[<<f, a>>].contribution], FamilyIds)

PaidBy(a) ==
  /\ DonationCoins * Cardinality((Debits(a) \ Pending(a)) \ dropped) <= Given(a)
  /\ Given(a) <= DonationCoins * Cardinality(Debits(a) \ Pending(a))

GivenIsPaid == \A a \in Accounts : PaidBy(a)

FamilyInv ==
  /\ FamilyJobsTyped /\ Books /\ FamiliesTyped
  /\ RowsFounded /\ Donated
  /\ \A h \in Handlers : JobFounded(h) /\ JobFresh(h)
  /\ \A a \in Accounts : \A f, g \in FamiliesOf(a) : f = g
  /\ Uncontended
  /\ PointsCount /\ GivenIsPaid
-----------------------------
\* What a request to the couples carries while it is under way.
InviteJob == [op : {"invite"}, at : {"pending", "insert", "notify"}, key : InviteIds,
              from : Accounts, to : Accounts]
PairJob == [op : {"pair"}, at : {"invitee", "inviter", "create", "accepted", "notify"},
            key : InviteIds]
RejectJob == [op : {"reject"}, at : {"update"}, key : InviteIds, status : {"declined", "cancelled"}]
UnpairJob == [op : {"unpair"}, at : {"end"}, key : CoupleIds]

CoupleJobs == InviteJob \cup PairJob \cup RejectJob \cup UnpairJob

\* Couple c is of the two that invitation i is about.
Answers(c, i) ==
  /\ couples[c] # NoCouple /\ invites[i] # NoInvite
  /\ {couples[c].first, couples[c].second} = {invites[i].from, invites[i].to}

CoupleJobSound(h) ==
  /\ job[h] # Idle => job[h].key \in issued
  /\ job[h].op = "invite" =>
       /\ job[h].at # "notify" => invites[job[h].key] = NoInvite
       /\ \A g \in Handlers : job[g].op = "invite" /\ job[g].key = job[h].key => g = h
  /\ job[h].op \in {"pair", "reject"} => invites[job[h].key] # NoInvite
  /\ job[h].op = "pair" /\ job[h].at = "accepted" => \E c \in CoupleIds : Answers(c, job[h].key)
  /\ job[h].op = "unpair" => couples[job[h].key] # NoCouple

CoupleInv ==
  /\ job \in [Handlers -> {Idle} \cup CoupleJobs] /\ notices \in [Ids -> Nat]
  /\ CouplesTyped
  /\ \A i \in InviteIds : invites[i] # NoInvite => i \in issued
  /\ \A c \in CoupleIds : couples[c] # NoCouple => c \in issued /\ \E i \in InviteIds : Answers(c, i)
  /\ \A i \in InviteIds : invites[i].status = "accepted" => \E c \in CoupleIds : Answers(c, i)
  /\ \A c, d \in Active : c # d =>
       couples[c].first # couples[d].first /\ couples[c].second # couples[d].second
  /\ \A h \in Handlers : CoupleJobSound(h)

\* What every step keeps; the service the handlers do not work for stays as
\* it was when the run started.
GroupsInv ==
  \/ serving = "families" /\ CouplesInit /\ FamilyInv
  \/ serving = "couples" /\ FamiliesInit /\ SeededLedger /\ CoupleInv
-----------------------------
\* A request of some kind is one.
LEMMA FamilyKinds ==
  ASSUME FamilyJobsTyped, NEW h \in Handlers
  PROVE  /\ job[h].op = "create" => job[h] \in CreateJob
         /\ job[h].op = "offer" => job[h] \in OfferJob
         /\ job[h].op = "join" => job[h] \in JoinJob
         /\ job[h].op = "withdraw" => job[h] \in WithdrawJob
         /\ job[h].op = "moderate" => job[h] \in ModerateJob \cup LeaveJob
         /\ job[h].op = "donate" => job[h] \in DonateJob
         /\ job[h].op = "none" => job[h] = Idle
         /\ job[h].op \in {"create", "offer", "join", "withdraw", "moderate", "donate", "none"}
         /\ job[h] # Idle => job[h].op # "none" /\ job[h].key \in Ids /\ job[h].family \in FamilyIds
  BY FamilyIdsKnown DEF FamilyJobsTyped, FamilyJobs, CreateJob, OfferJob, JoinJob, WithdrawJob, ModerateJob,
     LeaveJob, DonateJob, Idle

\* A request keeps all but the step it is at.
LEMMA SameRequest ==
  ASSUME NEW j \in FamilyJobs, NEW at
  PROVE  LET k == [j EXCEPT !.at = at] IN
         /\ k.at = at /\ k.op = j.op /\ k.key = j.key /\ k.family = j.family
         /\ j \in OfferJob => k.from = j.from /\ k.to = j.to
         /\ j \notin OfferJob => k.account = j.account
         /\ j \in ModerateJob \cup LeaveJob => k.act = j.act /\ k.target = j.target
         /\ j \in ModerateJob => k.rank = j.rank
         /\ j \in WithdrawJob => k.status = j.status
         /\ j \in OfferJob /\ at \in {"target", "pending", "insert", "notify"} => k \in OfferJob
         /\ j \in JoinJob /\ at \in {"free", "member", "insert", "rejoin", "accepted", "notify"} =>
              k \in JoinJob
         /\ j \in WithdrawJob /\ at \in {"rank", "update"} => k \in WithdrawJob
         /\ j \in ModerateJob /\ at \in {"target", "write", "owner", "newRole", "oldRole"} =>
              k \in ModerateJob
         /\ j \in DonateJob /\ at \in {"debit", "contribute"} => k \in DonateJob
<1>1. CASE j \in CreateJob
  BY <1>1 DEF CreateJob, OfferJob, JoinJob, WithdrawJob, ModerateJob, LeaveJob, DonateJob
<1>2. CASE j \in OfferJob
  BY <1>2 DEF CreateJob, OfferJob, JoinJob, WithdrawJob, ModerateJob, LeaveJob, DonateJob
<1>3. CASE j \in JoinJob
  BY <1>3 DEF CreateJob, OfferJob, JoinJob, WithdrawJob, ModerateJob, LeaveJob, DonateJob
<1>4. CASE j \in WithdrawJob
  BY <1>4 DEF CreateJob, OfferJob, JoinJob, WithdrawJob, ModerateJob, LeaveJob, DonateJob
<1>5. CASE j \in ModerateJob
  BY <1>5 DEF CreateJob, OfferJob, JoinJob, WithdrawJob, ModerateJob, LeaveJob, DonateJob
<1>6. CASE j \in LeaveJob
  BY <1>6 DEF CreateJob, OfferJob, JoinJob, WithdrawJob, ModerateJob, LeaveJob, DonateJob
<1>7. CASE j \in DonateJob
  BY <1>7 DEF CreateJob, OfferJob, JoinJob, WithdrawJob, ModerateJob, LeaveJob, DonateJob
<1> QED BY <1>1, <1>2, <1>3, <1>4, <1>5, <1>6, <1>7 DEF FamilyJobs

\* A handler goes on, ends, or takes a request; the others are where they were.
LEMMA OneMoves ==
  ASSUME job \in [Handlers -> {Idle} \cup FamilyJobs], NEW h \in Handlers
  PROVE  /\ \A at : Goto(h, at) => /\ job'[h] = [job[h] EXCEPT !.at = at]
                                   /\ DOMAIN job' = Handlers /\ UNCHANGED <<issued, dropped, notices>>
         /\ Finish(h) => job'[h] = Idle /\ DOMAIN job' = Handlers /\ UNCHANGED <<issued, dropped, notices>>
         /\ Notify(h) => job'[h] = Idle /\ DOMAIN job' = Handlers /\ UNCHANGED <<issued, dropped>>
         /\ Break(h) => /\ job'[h] = Idle /\ DOMAIN job' = Handlers /\ UNCHANGED <<issued, notices>>
                        /\ dropped' = dropped \cup {job[h].key}
         /\ \A j : Accept(h, j) => /\ job[h] = Idle /\ job'[h] = j
                                   /\ DOMAIN job' = Handlers /\ UNCHANGED <<dropped, notices>>
         /\ (\E at : Goto(h, at)) \/ Finish(h) \/ Notify(h) \/ Break(h) \/ (\E j : Accept(h, j)) =>
              \A g \in Handlers \ {h} : job'[g] = job[g]
<1>1. DOMAIN job = Handlers OBVIOUS
<1>2. ASSUME NEW at, Goto(h, at)
      PROVE  /\ job'[h] = [job[h] EXCEPT !.at = at] /\ \A g \in Handlers \ {h} : job'[g] = job[g]
             /\ DOMAIN job' = Handlers /\ UNCHANGED <<issued, dropped, notices>>
  BY <1>1, <1>2 DEF Goto
<1>3. ASSUME Finish(h)
      PROVE  /\ job'[h] = Idle /\ DOMAIN job' = Handlers /\ UNCHANGED <<issued, dropped, notices>>
             /\ \A g \in Handlers \ {h} : job'[g] = job[g]
  BY <1>1, <1>3 DEF Finish
<1>4. ASSUME Notify(h)
      PROVE  /\ job'[h] = Idle /\ DOMAIN job' = Handlers /\ UNCHANGED <<issued, dropped>>
             /\ \A g \in Handlers \ {h} : job'[g] = job[g]
  BY <1>1, <1>4 DEF Notify
<1>5. ASSUME Break(h)
      PROVE  /\ job'[h] = Idle /\ DOMAIN job' = Handlers /\ UNCHANGED <<issued, notices>>
             /\ dropped' = dropped \cup {job[h].key}
             /\ \A g \in Handlers \ {h} : job'[g] = job[g]
  BY <1>1, <1>5 DEF Break
<1>6. ASSUME NEW j, Accept(h, j)
      PROVE  /\ job[h] = Idle /\ job'[h] = j /\ DOMAIN job' = Handlers /\ UNCHANGED <<dropped, notices>>
             /\ \A g \in Handlers \ {h} : job'[g] = job[g]
  BY <1>1, <1>6 DEF Accept, Ready
<1> QED BY <1>2, <1>3, <1>4, <1>5, <1>6

\* A step of the handler, a request it takes, or an interruption.
FamilyMove(h) ==
  \/ FamilyStep(h)
  \/ Ready(h) /\ FamilyRequest(h)
  \/ Interrupted(h) /\ UNCHANGED <<ledgerVars, familyVars>>

\* The ranks.
LEMMA Ranks ==
  /\ RoleRank["member"] = 0 /\ RoleRank["admin"] = 1 /\ RoleRank["owner"] = 2
  /\ \A role \in {"member", "admin", "owner"} : RoleRank[role] \in 0..2
  BY DEF RoleRank

\* Rows that say something are rows.
LEMMA RowsOfFamilies ==
  ASSUME FamiliesTyped
  PROVE  /\ \A f \in FamilyIds, a \in Accounts :
              /\ members[<<f, a>>] \in {NoMember} \cup MemberRow
              /\ members[<<f, a>>].status # "none" => members[<<f, a>>] \in MemberRow
              /\ members[<<f, a>>] # NoMember => members[<<f, a>>] \in MemberRow
              /\ members[<<f, a>>].role # "none" => members[<<f, a>>] \in MemberRow
         /\ \A i \in OfferIds : /\ offers[i].status # "none" => offers[i] \in OfferRow
                                /\ offers[i] # NoOffer => offers[i] \in OfferRow
         /\ \A f \in FamilyIds : families[f] # NoFamily => families[f] \in FamilyRow
         /\ NoMember \notin MemberRow /\ NoOffer \notin OfferRow /\ NoFamily \notin FamilyRow
         /\ \A row \in OfferRow : row.status # "none"
         /\ \A row \in MemberRow : row.status # "none"
<1>1. NoMember \notin MemberRow /\ NoOffer \notin OfferRow /\ NoFamily \notin FamilyRow
  BY FamiliesSeeded DEF NoMember, MemberRow, NoOffer, OfferRow, NoFamily, FamilyRow
<1>2. ASSUME NEW f \in FamilyIds, NEW a \in Accounts
      PROVE  members[<<f, a>>] \in {NoMember} \cup MemberRow
 <2>1. <<f, a>> \in FamilyIds \X Accounts OBVIOUS
 <2> QED BY <2>1 DEF FamiliesTyped
<1>3. NoMember.status = "none" /\ NoMember.role = "none" /\ NoOffer.status = "none" BY DEF NoMember, NoOffer
<1>4. /\ \A row \in OfferRow : row.status # "none"
      /\ \A row \in MemberRow : row.status # "none"
  BY DEF OfferRow, MemberRow
<1>5. /\ \A i \in OfferIds : offers[i] \in {NoOffer} \cup OfferRow
      /\ \A f \in FamilyIds : families[f] \in {NoFamily} \cup FamilyRow
  BY DEF FamiliesTyped
<1> QED BY <1>1, <1>2, <1>3, <1>4, <1>5

\* What a handler's move leaves of the requests.
LEMMA RequestsMove ==
  ASSUME FamilyJobsTyped, FamiliesTyped, NEW h \in Handlers, FamilyMove(h)
  PROVE  /\ job'[h] \in {Idle} \cup FamilyJobs /\ DOMAIN job' = Handlers
         /\ ModerationFits(h)'
         /\ \A g \in Handlers \ {h} : job'[g] = job[g]
         /\ notices' \in [Ids -> Nat]
<1> USE DEF FamilyJobsTyped
<1> DEFINE Fine ==
      /\ job'[h] \in {Idle} \cup FamilyJobs /\ DOMAIN job' = Handlers
      /\ ModerationFits(h)'
      /\ \A g \in Handlers \ {h} : job'[g] = job[g]
      /\ notices' \in [Ids -> Nat]
<1> SUFFICES Fine OBVIOUS
<1>1. ASSUME Finish(h) \/ Break(h)
      PROVE  Fine
 <2>1. job'[h] = Idle BY <1>1, OneMoves
 <2> QED BY <1>1, <2>1, OneMoves DEF ModerationFits, Idle
<1>2. ASSUME job[h] # Idle, Notify(h)
      PROVE  Fine
 <2>1. job'[h] = Idle BY <1>2, OneMoves
 <2>2. notices' \in [Ids -> Nat]
  <3>1. job[h].key \in Ids BY <1>2, FamilyKinds
  <3> QED BY <1>2, <3>1 DEF Notify
 <2> QED BY <1>2, <2>1, <2>2, OneMoves DEF ModerationFits, Idle
<1>3. ASSUME NEW at, Goto(h, at), job[h] \in FamilyJobs \ CreateJob,
             \/ job[h] \in OfferJob /\ at \in {"pending", "insert", "notify"}
             \/ job[h] \in JoinJob /\ at \in {"member", "insert", "rejoin", "accepted", "notify"}
             \/ job[h] \in WithdrawJob /\ at = "update"
             \/ /\ job[h] \in ModerateJob /\ at \in {"write", "owner", "newRole", "oldRole"}
                /\ at = "write" <=> job[h].act # "transfer"
             \/ job[h] \in DonateJob /\ at = "contribute"
      PROVE  Fine
 <2>1. job'[h] = [job[h] EXCEPT !.at = at] BY <1>3, OneMoves
 <2>2. job'[h] \in FamilyJobs
  <3>1. job[h] \in FamilyJobs BY <1>3
  <3>2. CASE job[h] \in OfferJob /\ at \in {"pending", "insert", "notify"}
   <4>1. job'[h] \in OfferJob BY <2>1, <3>1, <3>2, SameRequest
   <4> QED BY <4>1 DEF FamilyJobs
  <3>3. CASE job[h] \in JoinJob /\ at \in {"member", "insert", "rejoin", "accepted", "notify"}
   <4>1. job'[h] \in JoinJob BY <2>1, <3>1, <3>3, SameRequest
   <4> QED BY <4>1 DEF FamilyJobs
  <3>4. CASE job[h] \in WithdrawJob /\ at = "update"
   <4>1. job'[h] \in WithdrawJob BY <2>1, <3>1, <3>4, SameRequest
   <4> QED BY <4>1 DEF FamilyJobs
  <3>5. CASE job[h] \in ModerateJob /\ at \in {"write", "owner", "newRole", "oldRole"}
   <4>1. job'[h] \in ModerateJob BY <2>1, <3>1, <3>5, SameRequest
   <4> QED BY <4>1 DEF FamilyJobs
  <3>6. CASE job[h] \in DonateJob /\ at = "contribute"
   <4>1. job'[h] \in DonateJob BY <2>1, <3>1, <3>6, SameRequest
   <4> QED BY <4>1 DEF FamilyJobs
  <3> QED BY <1>3, <3>2, <3>3, <3>4, <3>5, <3>6
 <2>3. job'[h].op = job[h].op /\ job'[h].key = job[h].key /\ job'[h].family = job[h].family
       /\ job'[h].at = at
   BY <1>3, <2>1, SameRequest
 <2>4. ModerationFits(h)'
  <3>1. CASE job[h] \in ModerateJob
   <4>1. job[h] \notin OfferJob BY <3>1 DEF OfferJob, ModerateJob
   <4>2. /\ job'[h].act = job[h].act /\ job'[h].target = job[h].target
         /\ job'[h].account = job[h].account
     BY <1>3, <2>1, <3>1, <4>1, SameRequest
   <4>3. at # "target" /\ (at = "write" <=> job[h].act # "transfer")
     BY <1>3, <3>1 DEF ModerateJob, OfferJob, JoinJob, WithdrawJob, DonateJob
   <4> QED BY <2>3, <4>2, <4>3 DEF ModerationFits
  <3>2. CASE job[h] \notin ModerateJob
    BY <1>3, <2>3, <3>2 DEF ModerationFits, OfferJob, JoinJob, WithdrawJob, DonateJob
  <3> QED BY <3>1, <3>2
 <2> QED BY <1>3, <2>1, <2>2, <2>4, OneMoves
<1>4. ASSUME NEW j \in FamilyJobs, Accept(h, j),
             j.op \in {"create", "moderate"} => j.key = j.family,
             j.op = "moderate" => /\ j.act = "leave" <=> j.account = j.target
                                  /\ j.at = IF j.act = "leave" THEN "write" ELSE "target"
      PROVE  Fine
 <2>1. job'[h] = j BY <1>4, OneMoves
 <2>2. ModerationFits(h)' BY <1>4, <2>1 DEF ModerationFits
 <2> QED BY <1>4, <2>1, <2>2, OneMoves
<1>5. \A at, condition : Proceed(h, condition, at) => Goto(h, at) \/ Finish(h) BY DEF Proceed
<1>6. CASE CreateFamily(h) BY <1>1, <1>6 DEF CreateFamily
<1>7. CASE CheckTarget(h) \/ CheckNoneWaits(h) \/ InsertOffer(h) \/ NotifyOffer(h)
 <2>1. job[h] \in OfferJob /\ job[h] # Idle
  <3>1. job[h].op = "offer" BY <1>7 DEF CheckTarget, CheckNoneWaits, InsertOffer, NotifyOffer, Doing
  <3> QED BY <3>1, FamilyKinds DEF Idle
 <2>2. (\E at \in {"pending", "insert", "notify"} : Goto(h, at)) \/ Finish(h) \/ Break(h) \/ Notify(h)
   BY <1>5, <1>7 DEF CheckTarget, CheckNoneWaits, InsertOffer, NotifyOffer
 <2>3. job[h] \in FamilyJobs \ CreateJob BY <2>1 DEF FamilyJobs, OfferJob, CreateJob
 <2> QED BY <1>1, <1>2, <1>3, <2>1, <2>2, <2>3
<1>8. CASE CheckFree(h) \/ FindMember(h) \/ Join(h) \/ MarkJoined(h) \/ NotifyJoin(h)
 <2>1. job[h] \in JoinJob /\ job[h] # Idle
  <3>1. job[h].op = "join" BY <1>8 DEF CheckFree, FindMember, Join, MarkJoined, NotifyJoin, Doing
  <3> QED BY <3>1, FamilyKinds DEF Idle
 <2>2. \/ \E at \in {"member", "insert", "rejoin", "accepted", "notify"} : Goto(h, at)
       \/ Finish(h) \/ Break(h) \/ Notify(h)
   BY <1>5, <1>8 DEF CheckFree, FindMember, Join, MarkJoined, NotifyJoin
 <2>3. job[h] \in FamilyJobs \ CreateJob BY <2>1 DEF FamilyJobs, JoinJob, CreateJob
 <2> QED BY <1>1, <1>2, <1>3, <2>1, <2>2, <2>3
<1>9. CASE CheckRevoker(h) \/ Withdraw(h)
 <2>1. job[h] \in WithdrawJob
  <3>1. job[h].op = "withdraw" BY <1>9 DEF CheckRevoker, Withdraw, Doing
  <3> QED BY <3>1, FamilyKinds
 <2>2. Goto(h, "update") \/ Finish(h) BY <1>5, <1>9 DEF CheckRevoker, Withdraw
 <2>3. job[h] \in FamilyJobs \ CreateJob BY <2>1 DEF FamilyJobs, WithdrawJob, CreateJob
 <2> QED BY <1>1, <1>3, <2>1, <2>2, <2>3
<1>10. CASE CheckModerated(h) \/ WriteMember(h) \/ SetOwner(h) \/ RaiseNewOwner(h) \/ LowerOldOwner(h)
 <2>1. job[h] \in ModerateJob \cup LeaveJob
  <3>1. job[h].op = "moderate"
    BY <1>10 DEF CheckModerated, WriteMember, SetOwner, RaiseNewOwner, LowerOldOwner, Doing
  <3> QED BY <3>1, FamilyKinds
 <2>2. \/ Finish(h)
       \/ /\ job[h].at = "target"
          /\ IF job[h].act = "transfer" THEN Goto(h, "owner") ELSE Goto(h, "write")
       \/ job[h].at = "owner" /\ Goto(h, "newRole")
       \/ job[h].at = "newRole" /\ Goto(h, "oldRole")
   BY <1>5, <1>10 DEF CheckModerated, WriteMember, SetOwner, RaiseNewOwner, LowerOldOwner, Doing
 <2>3. job[h] \in FamilyJobs \ CreateJob BY <2>1 DEF FamilyJobs, ModerateJob, LeaveJob, CreateJob
 <2>4. Finish(h) \/ job[h] \in ModerateJob BY <2>1, <2>2 DEF LeaveJob
 <2>5. job[h].at \in {"owner", "newRole"} => job[h].act = "transfer"
   BY <2>1 DEF ModerationFits, ModerateJob, LeaveJob
 <2> QED BY <1>1, <1>3, <2>2, <2>3, <2>4, <2>5
<1>11. CASE DebitDonation(h) \/ AddContribution(h)
 <2>1. job[h] \in DonateJob
  <3>1. job[h].op = "donate" BY <1>11 DEF DebitDonation, AddContribution, Doing
  <3> QED BY <3>1, FamilyKinds
 <2>2. Goto(h, "contribute") \/ Finish(h) BY <1>11 DEF DebitDonation, AddContribution
 <2>3. job[h] \in FamilyJobs \ CreateJob BY <2>1 DEF FamilyJobs, DonateJob, CreateJob
 <2> QED BY <1>1, <1>3, <2>1, <2>2, <2>3
<1>12. CASE Ready(h) /\ FamilyRequest(h)
 <2>1. ASSUME NEW a \in Accounts, StartCreate(h, a) PROVE Fine
  <3>1. PICK f \in FamilyIds : Accept(h, [op |-> "create", at |-> "insert", key |-> f,
                                         family |-> f, account |-> a])
    BY <2>1 DEF StartCreate, Work
  <3>2. [op |-> "create", at |-> "insert", key |-> f, family |-> f, account |-> a] \in CreateJob
    BY DEF CreateJob
  <3> QED BY <1>4, <3>1, <3>2 DEF FamilyJobs
 <2>2. ASSUME NEW f \in FamilyIds, NEW a \in Accounts, NEW b \in Accounts, StartOffer(h, f, a, b)
       PROVE  Fine
  <3>1. PICK i \in OfferIds : Accept(h, [op |-> "offer", at |-> "target", key |-> i, family |-> f,
                                        from |-> a, to |-> b])
    BY <2>2 DEF StartOffer, Work
  <3>2. [op |-> "offer", at |-> "target", key |-> i, family |-> f, from |-> a, to |-> b] \in OfferJob
    BY DEF OfferJob
  <3> QED BY <1>4, <3>1, <3>2 DEF FamilyJobs
 <2>3. ASSUME NEW f \in FamilyIds, NEW a \in Accounts, NEW b \in Accounts,
              NEW act \in {"kick", "ban", "unban", "promote", "demote", "transfer"},
              StartModeration(h, f, act, a, b)
       PROVE  Fine
  <3> DEFINE j == [op |-> "moderate", at |-> "target", key |-> f, family |-> f, act |-> act,
                   account |-> a, target |-> b, rank |-> RoleRank[members[<<f, a>>].role]]
  <3>1. Accept(h, j) /\ a # b /\ Belongs(f, a) BY <2>3 DEF StartModeration, Work, MayAct
  <3>2. RoleRank[members[<<f, a>>].role] \in 0..2
   <4>1. members[<<f, a>>] \in MemberRow BY <3>1, RowsOfFamilies DEF Belongs
   <4> QED BY <4>1, Ranks DEF MemberRow
  <3>3. j \in ModerateJob BY <3>2 DEF ModerateJob
  <3>4. /\ j.key = j.family /\ j.act # "leave" /\ j.account # j.target /\ j.at = "target" BY <3>1
  <3> HIDE DEF j
  <3> QED BY <1>4, <3>1, <3>3, <3>4 DEF FamilyJobs
 <2>4. ASSUME NEW f \in FamilyIds, NEW a \in Accounts, StartLeave(h, f, a) PROVE Fine
  <3>1. Accept(h, [op |-> "moderate", at |-> "write", key |-> f, family |-> f, act |-> "leave",
                   account |-> a, target |-> a])
    BY <2>4 DEF StartLeave, Work
  <3>2. [op |-> "moderate", at |-> "write", key |-> f, family |-> f, act |-> "leave",
         account |-> a, target |-> a] \in LeaveJob
    BY DEF LeaveJob
  <3> QED BY <1>4, <3>1, <3>2 DEF FamilyJobs
 <2>5. ASSUME NEW f \in FamilyIds, NEW a \in Accounts, StartDonation(h, f, a) PROVE Fine
  <3>1. PICK n \in DonationIds : Accept(h, [op |-> "donate", at |-> "debit", key |-> n,
                                           family |-> f, account |-> a])
    BY <2>5 DEF StartDonation, Work
  <3>2. [op |-> "donate", at |-> "debit", key |-> n, family |-> f, account |-> a] \in DonateJob
    BY DEF DonateJob
  <3> QED BY <1>4, <3>1, <3>2 DEF FamilyJobs
 <2>6. ASSUME NEW i \in OfferIds, StartJoin(h, i) PROVE Fine
  <3>1. Accept(h, [op |-> "join", at |-> "free", key |-> i, family |-> offers[i].family,
                   account |-> offers[i].to])
    BY <2>6 DEF StartJoin, Work
  <3>2. offers[i] \in OfferRow BY <2>6, RowsOfFamilies DEF StartJoin
  <3>3. [op |-> "join", at |-> "free", key |-> i, family |-> offers[i].family,
         account |-> offers[i].to] \in JoinJob
    BY <3>2 DEF JoinJob, OfferRow
  <3> QED BY <1>4, <3>1, <3>3 DEF FamilyJobs
 <2>7. ASSUME NEW i \in OfferIds, NEW status \in {"declined", "revoked"}, NEW a \in Accounts,
              StartWithdraw(h, i, status, a)
       PROVE  Fine
  <3> DEFINE j == [op |-> "withdraw", key |-> i, family |-> offers[i].family, status |-> status,
                   account |-> a,
                   at |-> IF status = "revoked" /\ a # offers[i].from THEN "rank" ELSE "update"]
  <3>1. Accept(h, j) BY <2>7 DEF StartWithdraw, Work
  <3>2. offers[i] \in OfferRow BY <2>7, RowsOfFamilies DEF StartWithdraw
  <3>3. j \in WithdrawJob BY <3>2 DEF WithdrawJob, OfferRow
  <3>4. j.op = "withdraw" OBVIOUS
  <3> HIDE DEF j
  <3> QED BY <1>4, <3>1, <3>3, <3>4 DEF FamilyJobs
 <2> HIDE DEF Fine
 <2> QED BY <1>12, <2>1, <2>2, <2>3, <2>4, <2>5, <2>6, <2>7 DEF FamilyRequest
<1>13. CASE Interrupted(h) BY <1>1, <1>13 DEF Interrupted
<1> HIDE DEF Fine
<1> QED BY <1>6, <1>7, <1>8, <1>9, <1>10, <1>11, <1>12, <1>13 DEF FamilyMove, FamilyStep
-----------------------------
\* What a move may do to the tables: rows stay, and new ones are those the
\* request was to insert.
Effect(h) ==
  /\ FamiliesTyped' /\ Books'
  /\ issued \subseteq issued' /\ dropped \subseteq dropped'
  /\ \A f \in FamilyIds : IF families[f] # NoFamily THEN families'[f] # NoFamily
                          ELSE families'[f] # NoFamily => job[h].op = "create" /\ job[h].key = f
  /\ \A f \in FamilyIds, a \in Accounts :
       /\ members[<<f, a>>] # NoMember => members'[<<f, a>>] # NoMember
       /\ members[<<f, a>>] = NoMember /\ members'[<<f, a>>] # NoMember => families'[f] # NoFamily
  /\ \A i \in OfferIds :
       IF offers[i] # NoOffer
       THEN /\ offers'[i] # NoOffer
            /\ offers'[i].family = offers[i].family /\ offers'[i].to = offers[i].to
            /\ offers'[i].status = "accepted" =>
                 \/ offers[i].status = "accepted"
                 \/ job[h].op = "join" /\ job[h].at = "accepted" /\ job[h].key = i
       ELSE offers'[i] # NoOffer =>
              /\ job[h].op = "offer" /\ job[h].at # "notify" /\ job[h].key = i
              /\ offers'[i].family = job[h].family /\ offers'[i].status = "pending"
  /\ \A n \in DonationIds :
       \/ Payers(n)' = Payers(n)
       \/ job[h].op = "donate" /\ job[h].at = "debit" /\ job[h].key = n

\* The calls that write a row somebody may read, the debit among them.
Writes(h) ==
  \/ CreateFamily(h) \/ InsertOffer(h) \/ Join(h) \/ MarkJoined(h) \/ Withdraw(h)
  \/ WriteMember(h) \/ SetOwner(h) \/ RaiseNewOwner(h) \/ LowerOldOwner(h)
  \/ DebitDonation(h) \/ AddContribution(h)

\* A request is taken with a new id or an old one.
LEMMA Takes ==
  ASSUME NEW h \in Handlers, FamilyRequest(h)
  PROVE  (\E j : Work(h, j)) /\ issued \subseteq issued'
<1>1. ASSUME NEW a, StartCreate(h, a)
      PROVE  (\E j : Work(h, j)) /\ issued \subseteq issued'
  BY <1>1 DEF StartCreate
<1>2. ASSUME NEW f, NEW a, NEW b, StartOffer(h, f, a, b)
      PROVE  (\E j : Work(h, j)) /\ issued \subseteq issued'
  BY <1>2 DEF StartOffer
<1>3. ASSUME NEW f, NEW act, NEW a, NEW b, StartModeration(h, f, act, a, b)
      PROVE  (\E j : Work(h, j)) /\ issued \subseteq issued'
  BY <1>3 DEF StartModeration
<1>4. ASSUME NEW f, NEW a, StartLeave(h, f, a)
      PROVE  (\E j : Work(h, j)) /\ issued \subseteq issued'
  BY <1>4 DEF StartLeave
<1>5. ASSUME NEW f, NEW a, StartDonation(h, f, a)
      PROVE  (\E j : Work(h, j)) /\ issued \subseteq issued'
  BY <1>5 DEF StartDonation
<1>6. ASSUME NEW i, StartJoin(h, i)
      PROVE  (\E j : Work(h, j)) /\ issued \subseteq issued'
  BY <1>6 DEF StartJoin
<1>7. ASSUME NEW i, NEW status, NEW a, StartWithdraw(h, i, status, a)
      PROVE  (\E j : Work(h, j)) /\ issued \subseteq issued'
  BY <1>7 DEF StartWithdraw
<1> QED BY <1>1, <1>2, <1>3, <1>4, <1>5, <1>6, <1>7 DEF FamilyRequest

\* Everything else leaves the tables as they are.
LEMMA Reads ==
  ASSUME NEW h \in Handlers, FamilyMove(h)
  PROVE  Writes(h) \/ UNCHANGED <<balance, ledger, families, members, offers>>
<1>1. \A condition, at : Proceed(h, condition, at) =>
        UNCHANGED <<balance, ledger, families, members, offers>>
  BY DEF Proceed, ledgerVars, familyVars
<1>2. \A j : Work(h, j) => UNCHANGED <<balance, ledger, families, members, offers>> BY DEF Work, ledgerVars
<1>3. CASE FamilyStep(h)
  BY <1>1, <1>3 DEF FamilyStep, Writes, CheckTarget, CheckNoneWaits, NotifyOffer, CheckFree, FindMember,
     NotifyJoin, CheckRevoker, CheckModerated, ledgerVars, familyVars
<1>4. CASE Ready(h) /\ FamilyRequest(h) BY <1>2, <1>4, Takes
<1>5. CASE Interrupted(h) /\ UNCHANGED <<ledgerVars, familyVars>> BY <1>5 DEF ledgerVars, familyVars
<1> QED BY <1>3, <1>4, <1>5 DEF FamilyMove

\* Ids and errors are only added.
LEMMA IdsGrow ==
  ASSUME FamilyJobsTyped, NEW h \in Handlers, FamilyMove(h)
  PROVE  issued \subseteq issued' /\ dropped \subseteq dropped'
<1>1. \A at : Goto(h, at) \/ Finish(h) \/ Notify(h) \/ Break(h) =>
        issued \subseteq issued' /\ dropped \subseteq dropped'
  BY DEF Goto, Finish, Notify, Break
<1>2. \A j : Work(h, j) => dropped' = dropped BY DEF Work, Accept
<1>3. CASE FamilyStep(h)
  BY <1>1, <1>3 DEF FamilyStep, CheckTarget, CheckNoneWaits, NotifyOffer, CheckFree, FindMember, NotifyJoin,
     CheckRevoker, CheckModerated, Proceed, CreateFamily, InsertOffer, Join, MarkJoined, Withdraw,
     WriteMember, SetOwner, RaiseNewOwner, LowerOldOwner, DebitDonation, AddContribution
<1>4. CASE Ready(h) /\ FamilyRequest(h) BY <1>2, <1>4, Takes
<1>5. CASE Interrupted(h) /\ UNCHANGED <<ledgerVars, familyVars>> BY <1>5 DEF Interrupted, Break
<1> QED BY <1>3, <1>4, <1>5 DEF FamilyMove

\* Who paid is written in the ledger.
LEMMA SamePayers == ASSUME UNCHANGED ledger PROVE CoinRows' = CoinRows /\ \A n : Payers(n)' = Payers(n)
  BY DEF Payers, CoinRows

\* Of members, one row is written, and it is a row.
LEMMA MemberWritten ==
  ASSUME FamiliesTyped, NEW f \in FamilyIds, NEW a \in Accounts, NEW row \in MemberRow,
         members' = [members EXCEPT ![<<f, a>>] = row]
  PROVE  /\ members' \in [FamilyIds \X Accounts -> {NoMember} \cup MemberRow]
         /\ members'[<<f, a>>] = row /\ row # NoMember
         /\ \A g \in FamilyIds, b \in Accounts : g # f \/ b # a => members'[<<g, b>>] = members[<<g, b>>]
  BY RowsOfFamilies DEF FamiliesTyped

\* Of families, one row is written, and it is a row.
LEMMA FamilyWritten ==
  ASSUME FamiliesTyped, NEW f \in FamilyIds, NEW row \in FamilyRow,
         families' = [families EXCEPT ![f] = row]
  PROVE  /\ families' \in [FamilyIds -> {NoFamily} \cup FamilyRow]
         /\ families'[f] = row /\ row # NoFamily
         /\ \A g \in FamilyIds \ {f} : families'[g] = families[g]
  BY RowsOfFamilies DEF FamiliesTyped

\* Of invitations, one row is written, and it is a row.
LEMMA OfferWritten ==
  ASSUME FamiliesTyped, NEW i \in OfferIds, NEW row \in OfferRow,
         offers' = [offers EXCEPT ![i] = row]
  PROVE  /\ offers' \in [OfferIds -> {NoOffer} \cup OfferRow]
         /\ offers'[i] = row /\ row # NoOffer
         /\ \A k \in OfferIds \ {i} : offers'[k] = offers[k]
  BY RowsOfFamilies DEF FamiliesTyped
-----------------------------
\* The writes, one by one: createFamily inserts a family and its owner.
LEMMA CreateWrites ==
  ASSUME FamilyInv, NEW h \in Handlers, CreateFamily(h)
  PROVE  LET f == job[h].family
             a == job[h].account IN
         /\ UNCHANGED <<balance, ledger, offers, contended>>
         /\ f \in FamilyIds /\ a \in Accounts /\ families[f] = NoFamily /\ job[h].key = f
         /\ job'[h] = Idle
         /\ \/ UNCHANGED <<families, members>> /\ dropped' = dropped \cup {f}
            \/ /\ FamiliesOf(a) = {} /\ dropped' = dropped
               /\ families' = [families EXCEPT ![f] = [owner |-> a, xp |-> 0, level |-> 0]]
               /\ members' = [members EXCEPT ![<<f, a>>] =
                                [role |-> "owner", status |-> "active", contribution |-> 0]]
<1> DEFINE f == job[h].family
           a == job[h].account
<1> USE DEF FamilyInv
<1>1. job[h] \in CreateJob /\ job[h].op = "create" BY FamilyKinds DEF CreateFamily, Doing
<1>2. f \in FamilyIds /\ a \in Accounts /\ job[h].key = f
  BY <1>1 DEF CreateJob, FamilyJobsTyped, ModerationFits
<1>3. families[f] = NoFamily BY <1>1, <1>2 DEF JobFresh
<1>4. UNCHANGED <<balance, ledger, offers, contended>> BY DEF CreateFamily, ledgerVars
<1>5. CASE FamiliesOf(a) # {}
 <2>1. Break(h) /\ UNCHANGED <<families, members>> BY <1>2, <1>5 DEF CreateFamily
 <2> QED BY <1>2, <1>3, <1>4, <2>1, OneMoves DEF FamilyJobsTyped
<1>6. CASE FamiliesOf(a) = {}
 <2>1. /\ families' = [families EXCEPT ![f].owner = a]
       /\ members' = [members EXCEPT ![<<f, a>>] =
                        [role |-> "owner", status |-> "active", contribution |-> 0]]
       /\ Finish(h)
   BY <1>2, <1>6 DEF CreateFamily
 <2>2. families' = [families EXCEPT ![f] = [owner |-> a, xp |-> 0, level |-> 0]]
  <3>1. [families[f] EXCEPT !.owner = a] = [owner |-> a, xp |-> 0, level |-> 0] BY <1>3 DEF NoFamily
  <3>2. families' = [families EXCEPT ![f] = [families[f] EXCEPT !.owner = a]] BY <2>1
  <3> QED BY <3>1, <3>2
 <2> QED BY <1>2, <1>3, <1>4, <1>6, <2>1, <2>2, OneMoves DEF FamilyJobsTyped
<1> QED BY <1>5, <1>6

\* inviteMember inserts an invitation.
LEMMA OfferWrites ==
  ASSUME FamilyInv, NEW h \in Handlers, InsertOffer(h)
  PROVE  LET i == job[h].key IN
         /\ UNCHANGED <<balance, ledger, families, members, contended>>
         /\ job[h] \in OfferJob /\ job[h].at = "insert" /\ offers[i] = NoOffer
         /\ \/ UNCHANGED offers /\ Break(h)
            \/ /\ offers' = [offers EXCEPT ![i] = [status |-> "pending", family |-> job[h].family,
                                                   from |-> job[h].from, to |-> job[h].to]]
               /\ Goto(h, "notify")
<1> USE DEF FamilyInv
<1>1. job[h] \in OfferJob /\ job[h].op = "offer" /\ job[h].at = "insert"
  BY FamilyKinds DEF InsertOffer, Doing
<1>2. offers[job[h].key] = NoOffer BY <1>1 DEF JobFresh
<1> QED BY <1>1, <1>2 DEF InsertOffer, ledgerVars

\* acceptInvite makes the invitee an active member.
LEMMA JoinWrites ==
  ASSUME FamilyInv, NEW h \in Handlers, Join(h)
  PROVE  LET f == job[h].family
             a == job[h].account
             row == [role |-> "member", status |-> "active",
                     contribution |-> members[<<f, a>>].contribution] IN
         /\ UNCHANGED <<balance, ledger, families, offers, contended>>
         /\ job[h] \in JoinJob /\ job[h].op = "join" /\ job[h].at \in {"insert", "rejoin"}
         /\ \/ UNCHANGED members /\ Break(h)
            \/ /\ FamiliesOf(a) \subseteq {f} /\ row \in MemberRow
               /\ job[h].at = "insert" => members[<<f, a>>] = NoMember
               /\ members' = [members EXCEPT ![<<f, a>>] = row]
               /\ Goto(h, "accepted")
<1> DEFINE f == job[h].family
           a == job[h].account
           row == [role |-> "member", status |-> "active", contribution |-> members[<<f, a>>].contribution]
<1> USE DEF FamilyInv
<1>1. job[h] \in JoinJob /\ job[h].op = "join" /\ job[h].at \in {"insert", "rejoin"} BY FamilyKinds DEF Join
<1>2. f \in FamilyIds /\ a \in Accounts BY <1>1 DEF JoinJob
<1>3. members[<<f, a>>] \in {NoMember} \cup MemberRow BY <1>2, RowsOfFamilies
<1>4. row \in MemberRow
 <2>1. members[<<f, a>>].contribution \in Nat BY <1>3 DEF MemberRow, NoMember
 <2> QED BY <2>1 DEF MemberRow
<1>5. UNCHANGED <<balance, ledger, families, offers, contended>> BY DEF Join, ledgerVars
<1>6. \/ UNCHANGED members /\ Break(h)
      \/ /\ FamiliesOf(a) \ {f} = {} /\ Goto(h, "accepted")
         /\ job[h].at = "insert" => members[<<f, a>>] = NoMember
         /\ members' = [members EXCEPT ![<<f, a>>].role = "member", ![<<f, a>>].status = "active"]
  BY DEF Join
<1>7. ASSUME members' = [members EXCEPT ![<<f, a>>].role = "member", ![<<f, a>>].status = "active"]
      PROVE  members' = [members EXCEPT ![<<f, a>>] = row]
 <2> DEFINE Roles == {"none", "member", "admin", "owner"}
            States == {"none", "active", "left", "kicked", "banned"}
            Any == [role : Roles, status : States, contribution : Nat]
            P == FamilyIds \X Accounts
            p == <<f, a>>
 <2>1. {NoMember} \cup MemberRow \subseteq Any BY DEF NoMember, MemberRow
 <2>2. members \in [P -> Any] BY <2>1 DEF FamiliesTyped
 <2>3. p \in P /\ members' = [members EXCEPT ![p].role = "member", ![p].status = "active"] BY <1>2, <1>7
 <2>5. "member" \in Roles /\ "active" \in States OBVIOUS
 <2> HIDE DEF P, p, Roles, States
 <2>6. /\ members'[p] \in Any
       /\ members'[p].role = "member" /\ members'[p].status = "active"
       /\ members'[p].contribution = members[p].contribution
   BY <2>2, <2>3, <2>5
 <2>7. DOMAIN members' = P /\ \A q \in P \ {p} : members'[q] = members[q] BY <2>2, <2>3
 <2>8. members'[p] = [role |-> "member", status |-> "active", contribution |-> members[p].contribution]
   BY <2>6
 <2>9. members' = [members EXCEPT ![p] = members'[p]] BY <2>2, <2>3, <2>7
 <2> QED BY <2>8, <2>9 DEF p
<1> QED BY <1>1, <1>4, <1>5, <1>6, <1>7

\* An invitation's status is written.
LEMMA StatusWrites ==
  ASSUME FamilyInv, NEW h \in Handlers, MarkJoined(h) \/ Withdraw(h)
  PROVE  LET i == job[h].key IN
         /\ UNCHANGED <<balance, ledger, families, members, contended>>
         /\ i \in OfferIds /\ offers[i] \in OfferRow
         /\ \E status \in {"accepted", "declined", "revoked"} :
              /\ offers' = [offers EXCEPT ![i] = [offers[i] EXCEPT !.status = status]]
              /\ [offers[i] EXCEPT !.status = status] \in OfferRow
              /\ status = "accepted" => job[h] \in JoinJob /\ job[h].op = "join" /\ job[h].at = "accepted"
         /\ \/ MarkJoined(h) /\ job[h] \in JoinJob /\ Goto(h, "notify")
            \/ Finish(h)
<1> USE DEF FamilyInv
<1>1. job[h].op \in {"join", "withdraw"} /\ job[h] \in JoinJob \cup WithdrawJob
  BY FamilyKinds DEF MarkJoined, Withdraw, Doing
<1>2. job[h].key \in OfferIds /\ offers[job[h].key] \in OfferRow
 <2>1. job[h].key \in OfferIds BY <1>1 DEF JoinJob, WithdrawJob
 <2>2. offers[job[h].key] # NoOffer BY <1>1 DEF JobFounded
 <2> QED BY <2>1, <2>2, RowsOfFamilies
<1>3. \A status \in {"accepted", "declined", "revoked"} :
        [offers[job[h].key] EXCEPT !.status = status] \in OfferRow
  BY <1>2 DEF OfferRow
<1>4. CASE MarkJoined(h)
 <2>1. job[h] \in JoinJob /\ job[h].op = "join" /\ job[h].at = "accepted"
   BY <1>4, FamilyKinds DEF MarkJoined, Doing
 <2>2. offers' = [offers EXCEPT ![job[h].key] = [offers[job[h].key] EXCEPT !.status = "accepted"]]
   BY <1>4 DEF MarkJoined
 <2>3. UNCHANGED <<balance, ledger, families, members, contended>> /\ Goto(h, "notify")
   BY <1>4 DEF MarkJoined, ledgerVars
 <2> QED BY <1>2, <1>3, <1>4, <2>1, <2>2, <2>3
<1>5. CASE Withdraw(h)
 <2>1. job[h].op = "withdraw" /\ job[h] \in WithdrawJob BY <1>5, FamilyKinds DEF Withdraw, Doing
 <2>2. job[h].status \in {"declined", "revoked"} BY <2>1 DEF WithdrawJob
 <2>3. offers' = [offers EXCEPT ![job[h].key] = [offers[job[h].key] EXCEPT !.status = job[h].status]]
   BY <1>5 DEF Withdraw
 <2>4. UNCHANGED <<balance, ledger, families, members, contended>> /\ Finish(h)
   BY <1>5 DEF Withdraw, ledgerVars
 <2> QED BY <1>2, <1>3, <2>2, <2>3, <2>4
<1> QED BY <1>4, <1>5
\* What each act of moderation makes of a row.
LEMMA DoneToRow ==
  ASSUME NEW row \in MemberRow,
         NEW act \in {"kick", "ban", "unban", "promote", "demote", "leave"}
  PROVE  LET new == Done(act, row) IN
         /\ new \in MemberRow /\ new.contribution = row.contribution
         /\ act = "kick" => new.status = "kicked" /\ new.role = row.role
         /\ act = "ban" => new.status = "banned" /\ new.role = row.role
         /\ act \in {"unban", "leave"} => new.status = "left" /\ new.role = row.role
         /\ act = "promote" => new.status = row.status /\ new.role = "admin"
         /\ act = "demote" => new.status = row.status /\ new.role = "member"
<1>1. CASE act = "kick" BY <1>1 DEF Done, MemberRow
<1>2. CASE act = "ban" BY <1>2 DEF Done, MemberRow
<1>3. CASE act \in {"unban", "leave"} BY <1>3 DEF Done, MemberRow
<1>4. CASE act = "promote" BY <1>4 DEF Done, MemberRow
<1>5. CASE act = "demote" BY <1>5 DEF Done, MemberRow
<1> QED BY <1>1, <1>2, <1>3, <1>4, <1>5

\* The last step of moderation, or of leaving, writes the row of the target.
LEMMA MemberWrites ==
  ASSUME FamilyInv, NEW h \in Handlers, WriteMember(h)
  PROVE  LET f == job[h].family
             b == job[h].target
             new == Done(job[h].act, members[<<f, b>>]) IN
         /\ UNCHANGED <<balance, ledger, families, offers, contended>>
         /\ job[h] \in ModerateJob \cup LeaveJob /\ job[h].op = "moderate" /\ job[h].at = "write"
         /\ job[h].act \in {"kick", "ban", "unban", "promote", "demote", "leave"}
         /\ members[<<f, b>>] \in MemberRow /\ new \in MemberRow
         /\ members' = [members EXCEPT ![<<f, b>>] = new]
         /\ Finish(h)
<1> USE DEF FamilyInv
<1>1. job[h] \in ModerateJob \cup LeaveJob /\ job[h].op = "moderate" /\ job[h].at = "write"
  BY FamilyKinds DEF WriteMember, Doing
<1>2. job[h].act \in {"kick", "ban", "unban", "promote", "demote", "leave"}
 <2>1. job[h].act # "transfer" BY <1>1 DEF FamilyJobsTyped, ModerationFits
 <2> QED BY <1>1, <2>1 DEF ModerateJob, LeaveJob
<1>3. job[h].family \in FamilyIds /\ job[h].target \in Accounts BY <1>1 DEF ModerateJob, LeaveJob
<1>4. members[<<job[h].family, job[h].target>>] \in MemberRow
 <2>1. members[<<job[h].family, job[h].target>>] # NoMember BY <1>1 DEF JobFounded
 <2> QED BY <1>3, <2>1, RowsOfFamilies
<1>5. Done(job[h].act, members[<<job[h].family, job[h].target>>]) \in MemberRow BY <1>2, <1>4, DoneToRow
<1>6. /\ UNCHANGED <<balance, ledger, families, offers, contended>> /\ Finish(h)
      /\ members' = [members EXCEPT ![<<job[h].family, job[h].target>>] =
                       Done(job[h].act, members[<<job[h].family, job[h].target>>])]
  BY DEF WriteMember, ledgerVars
<1> QED BY <1>1, <1>2, <1>4, <1>5, <1>6

\* transferOwnership writes the family's owner, ...
LEMMA OwnerWrites ==
  ASSUME FamilyInv, NEW h \in Handlers, SetOwner(h)
  PROVE  LET f == job[h].family
             new == [families[f] EXCEPT !.owner = job[h].target] IN
         /\ UNCHANGED <<balance, ledger, members, offers, contended>>
         /\ job[h] \in ModerateJob /\ job[h].op = "moderate" /\ job[h].at = "owner"
         /\ families[f] \in FamilyRow /\ new \in FamilyRow
         /\ families' = [families EXCEPT ![f] = new]
         /\ Goto(h, "newRole")
<1> USE DEF FamilyInv
<1>1. job[h] \in ModerateJob /\ job[h].op = "moderate" /\ job[h].at = "owner"
 <2>1. job[h].op = "moderate" /\ job[h].at = "owner" /\ job[h] \in ModerateJob \cup LeaveJob
   BY FamilyKinds DEF SetOwner, Doing
 <2> QED BY <2>1 DEF LeaveJob
<1>2. job[h].family \in FamilyIds /\ job[h].target \in Accounts BY <1>1 DEF ModerateJob
<1>3. families[job[h].family] \in FamilyRow
 <2>1. families[job[h].family] # NoFamily BY <1>1 DEF JobFounded
 <2> QED BY <1>2, <2>1, RowsOfFamilies
<1>4. [families[job[h].family] EXCEPT !.owner = job[h].target] \in FamilyRow BY <1>2, <1>3 DEF FamilyRow
<1>5. /\ UNCHANGED <<balance, ledger, members, offers, contended>> /\ Goto(h, "newRole")
      /\ families' = [families EXCEPT ![job[h].family] =
                        [families[job[h].family] EXCEPT !.owner = job[h].target]]
  BY DEF SetOwner, ledgerVars
<1> QED BY <1>1, <1>3, <1>4, <1>5

\* ... the new owner's role, and the old one's.
LEMMA RoleWrites ==
  ASSUME FamilyInv, NEW h \in Handlers, RaiseNewOwner(h) \/ LowerOldOwner(h)
  PROVE  LET f == job[h].family
             a == IF RaiseNewOwner(h) THEN job[h].target ELSE job[h].account
             role == IF RaiseNewOwner(h) THEN "owner" ELSE "admin"
             new == [members[<<f, a>>] EXCEPT !.role = role] IN
         /\ UNCHANGED <<balance, ledger, families, offers, contended>>
         /\ job[h] \in ModerateJob /\ job[h].op = "moderate" /\ job[h].act = "transfer"
         /\ job[h].account # job[h].target
         /\ members[<<f, a>>] \in MemberRow
         /\ new \in MemberRow /\ new.contribution = members[<<f, a>>].contribution
         /\ new.status = members[<<f, a>>].status /\ new.role = role
         /\ members' = [members EXCEPT ![<<f, a>>] = new]
         /\ IF RaiseNewOwner(h) THEN job[h].at = "newRole" /\ Goto(h, "oldRole")
            ELSE job[h].at = "oldRole" /\ Finish(h)
<1> DEFINE f == job[h].family
           a == IF RaiseNewOwner(h) THEN job[h].target ELSE job[h].account
           role == IF RaiseNewOwner(h) THEN "owner" ELSE "admin"
           new == [members[<<f, a>>] EXCEPT !.role = role]
<1> USE DEF FamilyInv
<1>1. job[h] \in ModerateJob /\ job[h].op = "moderate" /\ job[h].at \in {"newRole", "oldRole"}
 <2>1. /\ job[h].op = "moderate" /\ job[h].at \in {"newRole", "oldRole"}
       /\ job[h] \in ModerateJob \cup LeaveJob
   BY FamilyKinds DEF RaiseNewOwner, LowerOldOwner, Doing
 <2> QED BY <2>1 DEF LeaveJob
<1>2. job[h].act = "transfer" /\ job[h].account # job[h].target BY <1>1 DEF FamilyJobsTyped, ModerationFits
<1>3. f \in FamilyIds /\ job[h].target \in Accounts /\ job[h].account \in Accounts BY <1>1 DEF ModerateJob
<1>4. members[<<f, a>>] \in MemberRow
 <2>1. members[<<f, job[h].target>>] # NoMember /\ members[<<f, job[h].account>>] # NoMember
   BY <1>1 DEF JobFounded
 <2> QED BY <1>3, <2>1, RowsOfFamilies
<1>5. role \in {"admin", "owner"} OBVIOUS
<1>6. /\ new \in MemberRow /\ new.contribution = members[<<f, a>>].contribution
      /\ new.status = members[<<f, a>>].status /\ new.role = role
 <2> HIDE DEF role, a
 <2> QED BY <1>4, <1>5 DEF MemberRow
<1>7. /\ UNCHANGED <<balance, ledger, families, offers, contended>>
      /\ members' = [members EXCEPT ![<<f, a>>] = new]
      /\ IF RaiseNewOwner(h) THEN job[h].at = "newRole" /\ Goto(h, "oldRole")
         ELSE job[h].at = "oldRole" /\ Finish(h)
 <2>1. CASE RaiseNewOwner(h)
  <3>1. SetRole(h, job[h].target, "owner") /\ Goto(h, "oldRole") /\ job[h].at = "newRole"
    BY <2>1 DEF RaiseNewOwner, Doing
  <3> QED BY <2>1, <3>1 DEF SetRole, ledgerVars
 <2>2. CASE ~RaiseNewOwner(h)
  <3>1. SetRole(h, job[h].account, "admin") /\ Finish(h) /\ job[h].at = "oldRole"
    BY <2>2 DEF LowerOldOwner, Doing
  <3> QED BY <2>2, <3>1 DEF SetRole, ledgerVars
 <2> QED BY <2>1, <2>2
<1> HIDE DEF new
<1> QED BY <1>1, <1>2, <1>4, <1>6, <1>7 DEF new
\* Who has paid, by the rows of the ledger.
LEMMA InPayers ==
  ASSUME NEW n, NEW a
  PROVE  a \in Payers(n) <=>
           \E row \in CoinRows : row.account = a /\ row.key = n /\ row.direction = "debit"
  BY DEF Payers

\* donate debits the member, once.
LEMMA DebitWrites ==
  ASSUME FamilyInv, NEW h \in Handlers, DebitDonation(h)
  PROVE  /\ UNCHANGED <<families, members, offers, contended>>
         /\ job[h] \in DonateJob /\ job[h].op = "donate" /\ job[h].at = "debit"
         /\ Books'
         /\ \A row \in CoinRows' \ CoinRows : row.key = job[h].key /\ row.direction = "debit"
         /\ \A m : m # job[h].key => Payers(m)' = Payers(m)
         /\ \A m : m = job[h].key =>
              \/ Payers(m)' = {job[h].account} /\ Goto(h, "contribute")
              \/ Payers(m)' = {} /\ Finish(h)
<1> USE DEF FamilyInv
<1>1. job[h] \in DonateJob /\ job[h].op = "donate" /\ job[h].at = "debit"
  BY FamilyKinds DEF DebitDonation, Doing
<1>2. PICK n \in DonationIds : n = job[h].key BY <1>1 DEF DonateJob
<1>3. PICK a \in Accounts : a = job[h].account BY <1>1 DEF DonateJob
<1>4. PICK r : r = DonationDebit(a, n) OBVIOUS
<1>5. r.account = a /\ r.currency = "coins" /\ r.direction = "debit" /\ r.key = n BY <1>4 DEF DonationDebit
<1>6. CoinMove(r)
 <2>1. n \in Keys /\ n # SeedKey BY FamilyIdsKnown
 <2>2. r \in Request(Accounts)
   BY <1>4, <2>1, DonationIsAmount, CoinsAreCurrency DEF DonationDebit, Request, Directions
 <2> QED BY <1>5, <2>1, <2>2 DEF CoinMove
<1>7. /\ Settle(r) /\ UNCHANGED <<families, members, offers, contended>>
      /\ IF Succeeds(r) THEN Goto(h, "contribute") ELSE Finish(h)
  BY <1>2, <1>3, <1>4 DEF DebitDonation, familyVars
<1>8. /\ Books' /\ Entered(r)
      /\ Succeeds(r) => Moved(r)'
      /\ ~Succeeds(r) => CoinRows' = CoinRows
  BY <1>6, <1>7, Settled
<1>9. \A row \in CoinRows' \ CoinRows : row.key = n /\ row.direction = "debit" /\ row.account = a
  BY <1>5, <1>8 DEF Entered, RowOf
<1>10. CoinRows \subseteq CoinRows' BY <1>8 DEF Entered
<1>11. \A m : m # n => Payers(m)' = Payers(m) BY <1>9, <1>10 DEF Payers
<1>12. \A row \in CoinRows : ~(row.key = n /\ row.direction = "debit")
 <2>1. Payers(n) = {} BY <1>1, <1>2 DEF JobFresh
 <2> QED BY <2>1, InPayers
<1> DEFINE Paying == {row \in CoinRows' : row.key = n /\ row.direction = "debit"}
<1>13. Payers(n)' = {row.account : row \in Paying} BY DEF Payers
<1>14. \A row \in Paying : row.account = a BY <1>9, <1>12
<1>15. Succeeds(r) => \E row \in Paying : TRUE
 <2>1. Moved(r)' => \E row \in CoinRows' : row.account = a /\ row.key = n /\ row.direction = "debit"
   BY <1>5 DEF Moved, RowOf
 <2> QED BY <1>8, <2>1
<1>16. ~Succeeds(r) => Paying = {} BY <1>8, <1>12
<1> HIDE DEF Paying
<1>17. (Payers(n)' = {a} /\ Goto(h, "contribute")) \/ (Payers(n)' = {} /\ Finish(h))
  BY <1>7, <1>13, <1>14, <1>15, <1>16
<1> QED BY <1>1, <1>2, <1>3, <1>7, <1>8, <1>9, <1>11, <1>17

\* addContribution adds to the member's row and to the family's, and writes
\* the level it reaches.
LEMMA ContributionWrites ==
  ASSUME FamilyInv, NEW h \in Handlers, AddContribution(h)
  PROVE  LET f == job[h].family
             a == job[h].account
             new == [members[<<f, a>>] EXCEPT !.contribution = @ + DonationCoins] IN
         /\ UNCHANGED <<balance, ledger, offers, contended>>
         /\ job[h] \in DonateJob /\ job[h].op = "donate" /\ job[h].at = "contribute"
         /\ members[<<f, a>>] \in MemberRow /\ families[f] \in FamilyRow
         /\ new \in MemberRow /\ new.role = members[<<f, a>>].role
         /\ new.status = members[<<f, a>>].status
         /\ new.contribution = members[<<f, a>>].contribution + DonationCoins
         /\ members' = [members EXCEPT ![<<f, a>>] = new]
         /\ families'[f] \in FamilyRow /\ families'[f].owner = families[f].owner
         /\ families'[f].xp = families[f].xp + DonationCoins
         /\ LevelReached(families'[f].level, FamilyFactor, families'[f].xp)
         /\ families' = [families EXCEPT ![f] = families'[f]]
         /\ Finish(h)
<1> DEFINE f == job[h].family
           a == job[h].account
           total == families[f].xp + DonationCoins
           new == [members[<<f, a>>] EXCEPT !.contribution = @ + DonationCoins]
<1> USE DEF FamilyInv
<1>1. job[h] \in DonateJob /\ job[h].op = "donate" /\ job[h].at = "contribute"
  BY FamilyKinds DEF AddContribution, Doing
<1>2. f \in FamilyIds /\ a \in Accounts /\ DonationCoins \in Nat
  BY <1>1, DonationIsAmount, AmountsPositive DEF DonateJob
<1>3. members[<<f, a>>] \in MemberRow /\ families[f] \in FamilyRow
 <2>1. members[<<f, a>>] # NoMember /\ families[f] # NoFamily BY <1>1 DEF JobFounded
 <2> QED BY <1>2, <2>1, RowsOfFamilies
<1>4. /\ new \in MemberRow /\ new.role = members[<<f, a>>].role
      /\ new.status = members[<<f, a>>].status
      /\ new.contribution = members[<<f, a>>].contribution + DonationCoins
  BY <1>2, <1>3 DEF MemberRow
<1>5. /\ members' = [members EXCEPT ![<<f, a>>] = new]
      /\ UNCHANGED <<balance, ledger, offers, contended>> /\ Finish(h)
  BY DEF AddContribution, ledgerVars
<1>6. PICK estimate \in 0..total :
        families' = [families EXCEPT ![f].xp = total,
                                     ![f].level = LevelFrom(estimate, FamilyFactor, total)]
  BY DEF AddContribution
<1>7. PICK level : level = LevelFrom(estimate, FamilyFactor, total) OBVIOUS
<1>8. total \in Nat BY <1>2, <1>3 DEF FamilyRow
<1>9. level \in Nat /\ LevelReached(level, FamilyFactor, total)
  BY <1>6, <1>7, <1>8, FactorPositive, LevelIsReached
<1>10. families' = [families EXCEPT ![f].xp = total, ![f].level = level] BY <1>6, <1>7
<1> HIDE DEF total
<1>11. /\ DOMAIN families' = FamilyIds /\ \A g \in FamilyIds \ {f} : families'[g] = families[g]
  BY <1>10 DEF FamiliesTyped
<1>12. /\ families'[f] \in FamilyRow /\ families'[f].owner = families[f].owner
       /\ families'[f].xp = total /\ families'[f].level = level
 <2> DEFINE Owner == Accounts \cup {"none"}
 <2>1. families \in [FamilyIds -> [owner : Owner, xp : Nat, level : Nat]]
   BY DEF FamiliesTyped, FamilyRow, NoFamily
 <2> HIDE DEF Owner
 <2>2. /\ families'[f] \in [owner : Owner, xp : Nat, level : Nat]
       /\ families'[f].owner = families[f].owner
       /\ families'[f].xp = total /\ families'[f].level = level
   BY <1>2, <1>8, <1>9, <1>10, <2>1
 <2>3. families[f].owner \in Accounts BY <1>3 DEF FamilyRow
 <2> QED BY <2>2, <2>3 DEF FamilyRow
<1>13. families' = [families EXCEPT ![f] = families'[f]]
 <2>1. families' = [g \in FamilyIds |-> families'[g]] BY <1>10 DEF FamiliesTyped
 <2> QED BY <1>2, <1>11, <2>1 DEF FamiliesTyped
<1> HIDE DEF new
<1>14. families'[f].xp = families[f].xp + DonationCoins BY <1>12 DEF total
<1>15. LevelReached(families'[f].level, FamilyFactor, families'[f].xp) BY <1>9, <1>12
<1> QED BY <1>1, <1>3, <1>4, <1>5, <1>12, <1>13, <1>14, <1>15 DEF new
-----------------------------
\* A request that is under way says which family it is about.
LEMMA AboutFamily ==
  ASSUME FamilyJobsTyped, NEW g \in Handlers
  PROVE  "family" \in DOMAIN job[g] <=> job[g] # Idle
<1>1. CASE job[g] = Idle BY <1>1 DEF Idle
<1>2. CASE job[g] \in FamilyJobs
 <2>1. job[g] # Idle
   BY <1>2, FamilyKinds DEF FamilyJobs, CreateJob, OfferJob, JoinJob, WithdrawJob, ModerateJob, LeaveJob,
      DonateJob, Idle
 <2>2. "family" \in DOMAIN job[g]
   BY <1>2 DEF FamilyJobs, CreateJob, OfferJob, JoinJob, WithdrawJob, ModerateJob, LeaveJob, DonateJob
 <2> QED BY <2>1, <2>2
<1> QED BY <1>1, <1>2 DEF FamilyJobsTyped

\* Once a request is taken, what it was taken for holds.
Taken(h) ==
  /\ UNCHANGED <<balance, ledger, families, members, offers, dropped, notices>>
  /\ job[h] = Idle /\ job'[h] \in FamilyJobs
  /\ issued' = issued \cup {job'[h].key}
  /\ contended' = IF \E g \in Handlers : Serves(g, job'[h].family)
                  THEN contended \cup {job'[h].family} ELSE contended
  /\ job'[h].op \in {"create", "offer", "donate"} =>
       job'[h].key \notin issued /\ job'[h].at \in {"insert", "target", "debit"}
  /\ job'[h].op = "offer" => job'[h].at # "insert"
  /\ job'[h].op # "create" => families[job'[h].family] # NoFamily
  /\ job'[h].op = "join" =>
       /\ offers[job'[h].key] \in OfferRow /\ job'[h].at = "free"
       /\ offers[job'[h].key].family = job'[h].family /\ offers[job'[h].key].to = job'[h].account
  /\ job'[h].op = "withdraw" => offers[job'[h].key] # NoOffer
  /\ job'[h].op = "donate" => members[<<job'[h].family, job'[h].account>>] # NoMember
  /\ job'[h].op = "moderate" =>
       LET own == members[<<job'[h].family, job'[h].account>>] IN
       /\ own \in MemberRow /\ own.status = "active"
       /\ IF job'[h].act = "leave"
          THEN /\ job'[h].at = "write" /\ own.role # "owner"
               /\ job'[h].target = job'[h].account
          ELSE /\ job'[h].at = "target" /\ job'[h].rank = RoleRank[own.role]
               /\ MayAct(job'[h].family, job'[h].act, job'[h].account)

\* A request is taken with what its service has read.
LEMMA Starts ==
  ASSUME FamilyInv, NEW h \in Handlers, Ready(h), FamilyRequest(h)
  PROVE  Taken(h)
<1> USE DEF FamilyInv
<1>1. ASSUME NEW j, Work(h, j)
      PROVE  /\ job[h] = Idle /\ job'[h] = j
             /\ UNCHANGED <<balance, ledger, families, members, offers, dropped, notices>>
             /\ contended' = IF \E g \in Handlers : Serves(g, job'[h].family)
                             THEN contended \cup {job'[h].family} ELSE contended
 <2>1. job[h] = Idle /\ job'[h] = j /\ UNCHANGED <<dropped, notices>>
   BY <1>1, OneMoves DEF Work, FamilyJobsTyped
 <2>2. \A g \in Handlers : "family" \in DOMAIN job[g] /\ job[g].family = j.family <=> Serves(g, j.family)
   BY AboutFamily DEF Serves
 <2> QED BY <1>1, <2>1, <2>2 DEF Work, ledgerVars
<1>2. \A f \in FamilyIds, a \in Accounts : Belongs(f, a) =>
        /\ members[<<f, a>>] \in MemberRow /\ members[<<f, a>>] # NoMember
        /\ families[f] # NoFamily /\ f \in issued
  BY RowsOfFamilies DEF Belongs, RowsFounded
<1>3. \A i \in OfferIds : offers[i].status = "pending" =>
        offers[i] # NoOffer /\ offers[i] \in OfferRow /\ families[offers[i].family] # NoFamily /\ i \in issued
  BY RowsOfFamilies DEF RowsFounded
<1>4. ASSUME NEW a \in Accounts, StartCreate(h, a) PROVE Taken(h)
 <2>1. PICK f \in FamilyIds \ issued :
         /\ Work(h, [op |-> "create", at |-> "insert", key |-> f, family |-> f, account |-> a])
         /\ issued' = issued \cup {f}
   BY <1>4 DEF StartCreate
 <2>2. job'[h] = [op |-> "create", at |-> "insert", key |-> f, family |-> f, account |-> a] BY <1>1, <2>1
 <2>3. job'[h] \in FamilyJobs BY <2>2 DEF FamilyJobs, CreateJob
 <2> QED BY <1>1, <2>1, <2>2, <2>3 DEF Taken
<1>5. ASSUME NEW f \in FamilyIds, NEW a \in Accounts, NEW b \in Accounts, StartOffer(h, f, a, b)
      PROVE  Taken(h)
 <2>1. PICK i \in OfferIds \ issued :
         /\ Work(h, [op |-> "offer", at |-> "target", key |-> i, family |-> f, from |-> a, to |-> b])
         /\ issued' = issued \cup {i}
   BY <1>5 DEF StartOffer
 <2>2. job'[h] = [op |-> "offer", at |-> "target", key |-> i, family |-> f, from |-> a, to |-> b]
   BY <1>1, <2>1
 <2>3. job'[h] \in FamilyJobs
  <3>1. job'[h] \in OfferJob BY <2>2 DEF OfferJob
  <3> QED BY <3>1 DEF FamilyJobs
 <2>4. families[f] # NoFamily BY <1>2, <1>5 DEF StartOffer, Outranks
 <2> QED BY <1>1, <2>1, <2>2, <2>3, <2>4 DEF Taken
<1>6. ASSUME NEW f \in FamilyIds, NEW a \in Accounts, NEW b \in Accounts,
             NEW act \in {"kick", "ban", "unban", "promote", "demote", "transfer"},
             StartModeration(h, f, act, a, b)
      PROVE  Taken(h)
 <2> DEFINE j == [op |-> "moderate", at |-> "target", key |-> f, family |-> f, act |-> act,
                  account |-> a, target |-> b, rank |-> RoleRank[members[<<f, a>>].role]]
 <2>1. Work(h, j) /\ issued' = issued /\ MayAct(f, act, a) BY <1>6 DEF StartModeration
 <2>2. job'[h] = j BY <1>1, <2>1
 <2>3. Belongs(f, a) BY <2>1 DEF MayAct
 <2>4. /\ members[<<f, a>>] \in MemberRow /\ members[<<f, a>>].status = "active"
       /\ families[f] # NoFamily /\ f \in issued
   BY <1>2, <2>3 DEF Belongs
 <2>5. job'[h] \in FamilyJobs
  <3>1. job'[h] \in {Idle} \cup FamilyJobs BY RequestsMove DEF FamilyMove
  <3> QED BY <2>2, <3>1 DEF Idle
 <2>6. /\ job'[h].op = "moderate" /\ job'[h].at = "target" /\ job'[h].key = f /\ job'[h].family = f
       /\ job'[h].act = act /\ job'[h].account = a /\ job'[h].target = b
       /\ job'[h].rank = RoleRank[members[<<f, a>>].role]
   BY <2>2
 <2> HIDE DEF j
 <2> QED BY <1>1, <2>1, <2>4, <2>5, <2>6 DEF Taken
<1>7. ASSUME NEW f \in FamilyIds, NEW a \in Accounts, StartLeave(h, f, a) PROVE Taken(h)
 <2> DEFINE j == [op |-> "moderate", at |-> "write", key |-> f, family |-> f, act |-> "leave",
                  account |-> a, target |-> a]
 <2>1. Work(h, j) /\ issued' = issued /\ Belongs(f, a) /\ ~Outranks(f, a, "owner") BY <1>7 DEF StartLeave
 <2>2. job'[h] = j BY <1>1, <2>1
 <2>3. /\ members[<<f, a>>] \in MemberRow /\ members[<<f, a>>].status = "active"
       /\ families[f] # NoFamily /\ f \in issued
   BY <1>2, <2>1 DEF Belongs
 <2>4. members[<<f, a>>].role # "owner" BY <2>1, Ranks DEF Outranks
 <2>5. job'[h] \in FamilyJobs
  <3>1. job'[h] \in LeaveJob BY <2>2 DEF LeaveJob
  <3> QED BY <3>1 DEF FamilyJobs
 <2>6. /\ job'[h].op = "moderate" /\ job'[h].at = "write" /\ job'[h].key = f /\ job'[h].family = f
       /\ job'[h].act = "leave" /\ job'[h].account = a /\ job'[h].target = a
   BY <2>2
 <2> HIDE DEF j
 <2> QED BY <1>1, <2>1, <2>3, <2>4, <2>5, <2>6 DEF Taken
<1>8. ASSUME NEW f \in FamilyIds, NEW a \in Accounts, StartDonation(h, f, a) PROVE Taken(h)
 <2>1. PICK n \in DonationIds \ issued :
         /\ Work(h, [op |-> "donate", at |-> "debit", key |-> n, family |-> f, account |-> a])
         /\ issued' = issued \cup {n}
   BY <1>8 DEF StartDonation
 <2>2. job'[h] = [op |-> "donate", at |-> "debit", key |-> n, family |-> f, account |-> a] BY <1>1, <2>1
 <2>3. job'[h] \in FamilyJobs
  <3>1. job'[h] \in DonateJob BY <2>2 DEF DonateJob
  <3> QED BY <3>1 DEF FamilyJobs
 <2>4. families[f] # NoFamily /\ members[<<f, a>>] # NoMember BY <1>2, <1>8 DEF StartDonation
 <2> QED BY <1>1, <2>1, <2>2, <2>3, <2>4 DEF Taken
<1>9. ASSUME NEW i \in OfferIds, StartJoin(h, i) PROVE Taken(h)
 <2> DEFINE j == [op |-> "join", at |-> "free", key |-> i, family |-> offers[i].family,
                  account |-> offers[i].to]
 <2>1. Work(h, j) /\ issued' = issued /\ offers[i].status = "pending" BY <1>9 DEF StartJoin
 <2>2. job'[h] = j BY <1>1, <2>1
 <2>3. offers[i] \in OfferRow /\ families[offers[i].family] # NoFamily /\ i \in issued BY <1>3, <2>1
 <2>4. job'[h] \in FamilyJobs
  <3>1. job'[h] \in JoinJob BY <2>2, <2>3 DEF JoinJob, OfferRow
  <3> QED BY <3>1 DEF FamilyJobs
 <2> QED BY <1>1, <2>1, <2>2, <2>3, <2>4 DEF Taken
<1>10. ASSUME NEW i \in OfferIds, NEW status \in {"declined", "revoked"}, NEW a \in Accounts,
              StartWithdraw(h, i, status, a)
       PROVE  Taken(h)
 <2> DEFINE j == [op |-> "withdraw", key |-> i, family |-> offers[i].family, status |-> status,
                  account |-> a,
                  at |-> IF status = "revoked" /\ a # offers[i].from THEN "rank" ELSE "update"]
 <2>1. Work(h, j) /\ issued' = issued /\ offers[i].status = "pending" BY <1>10 DEF StartWithdraw
 <2>2. job'[h] = j BY <1>1, <2>1
 <2>3. /\ offers[i] # NoOffer /\ offers[i] \in OfferRow /\ families[offers[i].family] # NoFamily
       /\ i \in issued
   BY <1>3, <2>1
 <2>4. job'[h] \in FamilyJobs
  <3>1. job'[h] \in {Idle} \cup FamilyJobs BY RequestsMove DEF FamilyMove
  <3> QED BY <2>2, <3>1 DEF Idle
 <2>5. job'[h].op = "withdraw" /\ job'[h].key = i /\ job'[h].family = offers[i].family BY <2>2
 <2> HIDE DEF j
 <2> QED BY <1>1, <2>1, <2>3, <2>4, <2>5 DEF Taken
<1> QED BY <1>4, <1>5, <1>6, <1>7, <1>8, <1>9, <1>10 DEF FamilyRequest
-----------------------------
\* A step that leaves the tables as they are leaves the rest of the rows too.
LEMMA NoEffect ==
  ASSUME FamiliesTyped, Books, NEW h \in Handlers,
         UNCHANGED <<balance, ledger, families, members, offers>>, contended' \subseteq FamilyIds,
         issued \subseteq issued', dropped \subseteq dropped'
  PROVE  Effect(h)
<1>1. FamiliesTyped' BY DEF FamiliesTyped
<1>2. CoinRows' = CoinRows /\ \A n : Payers(n)' = Payers(n) BY SamePayers
<1>3. Books' BY <1>2 DEF Books
<1>4. \A f \in FamilyIds, a \in Accounts : members[<<f, a>>] = NoMember => members'[<<f, a>>] = NoMember
  OBVIOUS
<1> QED BY <1>1, <1>2, <1>3, <1>4 DEF Effect

\* Families that are served at once are families, and only become more.
LEMMA ContendedGrow ==
  ASSUME FamilyInv, NEW h \in Handlers, FamilyMove(h)
  PROVE  contended \subseteq contended' /\ contended' \subseteq FamilyIds
<1> USE DEF FamilyInv
<1>1. CASE UNCHANGED contended BY <1>1 DEF FamiliesTyped
<1>2. CASE Ready(h) /\ FamilyRequest(h)
 <2>1. Taken(h) BY <1>2, Starts
 <2>2. job'[h].family \in FamilyIds
   BY <2>1 DEF Taken, FamilyJobs, CreateJob, OfferJob, JoinJob, WithdrawJob, ModerateJob, LeaveJob,
      DonateJob
 <2> QED BY <2>1, <2>2 DEF Taken, FamiliesTyped
<1>3. ASSUME FamilyStep(h) PROVE UNCHANGED contended
 <2>1. CASE Writes(h)
  <3>1. CreateFamily(h) \/ InsertOffer(h) \/ Join(h) \/ MarkJoined(h) \/ Withdraw(h) => UNCHANGED contended
    BY DEF CreateFamily, InsertOffer, Join, MarkJoined, Withdraw
  <3>2. WriteMember(h) \/ SetOwner(h) \/ RaiseNewOwner(h) \/ LowerOldOwner(h) => UNCHANGED contended
    BY DEF WriteMember, SetOwner, RaiseNewOwner, LowerOldOwner, SetRole
  <3>3. DebitDonation(h) \/ AddContribution(h) => UNCHANGED contended
    BY DEF DebitDonation, AddContribution, familyVars
  <3> QED BY <2>1, <3>1, <3>2, <3>3 DEF Writes
 <2>2. CASE ~Writes(h)
  <3>1. \A condition, at : Proceed(h, condition, at) => UNCHANGED contended BY DEF Proceed, familyVars
  <3> QED BY <1>3, <2>2, <3>1 DEF FamilyStep, Writes, CheckTarget, CheckNoneWaits, NotifyOffer,
         CheckFree, FindMember, NotifyJoin, CheckRevoker, CheckModerated, familyVars
 <2> QED BY <2>1, <2>2
<1> QED BY <1>1, <1>2, <1>3 DEF FamilyMove, familyVars

\* Every step of the families is one of these.
LEMMA Effects ==
  ASSUME FamilyInv, NEW h \in Handlers, FamilyMove(h)
  PROVE  Effect(h)
<1> USE DEF FamilyInv
<1>1. /\ issued \subseteq issued' /\ dropped \subseteq dropped'
      /\ contended \subseteq contended' /\ contended' \subseteq FamilyIds
  BY IdsGrow, ContendedGrow
<1>2. UNCHANGED <<balance, ledger>> => Books' /\ \A n : Payers(n)' = Payers(n)
 <2>1. UNCHANGED <<balance, ledger>> => CoinRows' = CoinRows BY SamePayers
 <2> QED BY <2>1, SamePayers DEF Books
<1>3. UNCHANGED <<balance, ledger, families, members, offers>> => Effect(h) BY <1>1, NoEffect
<1>4. ASSUME UNCHANGED <<balance, ledger, families, offers>>,
             NEW f \in FamilyIds, families[f] # NoFamily, NEW a \in Accounts, NEW row \in MemberRow,
             members' = [members EXCEPT ![<<f, a>>] = row]
      PROVE  Effect(h)
 <2>1. /\ members' \in [FamilyIds \X Accounts -> {NoMember} \cup MemberRow]
       /\ members'[<<f, a>>] = row /\ row # NoMember
       /\ \A g \in FamilyIds, b \in Accounts : g # f \/ b # a => members'[<<g, b>>] = members[<<g, b>>]
   BY <1>4, MemberWritten
 <2>2. FamiliesTyped' BY <1>1, <1>4, <2>1 DEF FamiliesTyped
 <2> QED BY <1>1, <1>2, <1>4, <2>1, <2>2 DEF Effect
<1>5. CASE CreateFamily(h)
 <2>1. PICK f \in FamilyIds, a \in Accounts : f = job[h].family /\ a = job[h].account BY <1>5, CreateWrites
 <2>2. /\ UNCHANGED <<balance, ledger, offers>> /\ families[f] = NoFamily
       /\ job[h].key = f /\ job[h].op = "create"
   BY <1>5, <2>1, CreateWrites DEF CreateFamily, Doing
 <2>3. CASE UNCHANGED <<families, members>> BY <1>3, <2>2, <2>3
 <2> DEFINE owner == [owner |-> a, xp |-> 0, level |-> 0]
            row == [role |-> "owner", status |-> "active", contribution |-> 0]
 <2>4. CASE /\ families' = [families EXCEPT ![f] = owner]
            /\ members' = [members EXCEPT ![<<f, a>>] = row]
  <3>1. owner \in FamilyRow /\ row \in MemberRow BY DEF FamilyRow, MemberRow
  <3> HIDE DEF owner, row
  <3>2. /\ families' \in [FamilyIds -> {NoFamily} \cup FamilyRow]
        /\ families'[f] # NoFamily
        /\ \A g \in FamilyIds \ {f} : families'[g] = families[g]
    BY <2>4, <3>1, FamilyWritten
  <3>3. /\ members' \in [FamilyIds \X Accounts -> {NoMember} \cup MemberRow]
        /\ members'[<<f, a>>] = row /\ row # NoMember
        /\ \A g \in FamilyIds, b \in Accounts : g # f \/ b # a => members'[<<g, b>>] = members[<<g, b>>]
    BY <2>4, <3>1, MemberWritten
  <3>4. FamiliesTyped' BY <1>1, <2>2, <3>2, <3>3 DEF FamiliesTyped
  <3> QED BY <1>1, <1>2, <2>2, <3>2, <3>3, <3>4 DEF Effect
 <2> QED BY <1>5, <2>1, <2>3, <2>4, CreateWrites
<1>6. CASE InsertOffer(h)
 <2>1. PICK i \in OfferIds : i = job[h].key BY <1>6, OfferWrites DEF OfferJob
 <2>2. /\ UNCHANGED <<balance, ledger, families, members>> /\ offers[i] = NoOffer
       /\ job[h] \in OfferJob /\ job[h].op = "offer" /\ job[h].at # "notify"
   BY <1>6, <2>1, OfferWrites DEF InsertOffer, Doing
 <2> DEFINE row == [status |-> "pending", family |-> job[h].family, from |-> job[h].from, to |-> job[h].to]
 <2>3. CASE UNCHANGED offers BY <1>3, <2>2, <2>3
 <2>4. CASE offers' = [offers EXCEPT ![i] = row]
  <3>1. row \in OfferRow /\ row.family = job[h].family /\ row.status = "pending"
    BY <2>2 DEF OfferRow, OfferJob
  <3> HIDE DEF row
  <3>2. /\ offers' \in [OfferIds -> {NoOffer} \cup OfferRow] /\ offers'[i] = row
        /\ \A k \in OfferIds \ {i} : offers'[k] = offers[k]
    BY <2>4, <3>1, OfferWritten
  <3>3. FamiliesTyped' BY <1>1, <2>2, <3>2 DEF FamiliesTyped
  <3> QED BY <1>1, <1>2, <2>1, <2>2, <3>1, <3>2, <3>3 DEF Effect
 <2> QED BY <1>6, <2>1, <2>3, <2>4, OfferWrites
<1>7. CASE MarkJoined(h) \/ Withdraw(h)
 <2>1. PICK i \in OfferIds : i = job[h].key BY <1>7, StatusWrites
 <2>2. UNCHANGED <<balance, ledger, families, members>> /\ offers[i] \in OfferRow
   BY <1>7, <2>1, StatusWrites
 <2>3. PICK status : /\ offers' = [offers EXCEPT ![i] = [offers[i] EXCEPT !.status = status]]
                     /\ [offers[i] EXCEPT !.status = status] \in OfferRow
                     /\ status = "accepted" => job[h].op = "join" /\ job[h].at = "accepted"
   BY <1>7, <2>1, StatusWrites
 <2>4. PICK row : row = [offers[i] EXCEPT !.status = status] OBVIOUS
 <2>5. /\ row \in OfferRow /\ row.family = offers[i].family /\ row.to = offers[i].to
       /\ row.status = status
   BY <2>2, <2>3, <2>4 DEF OfferRow
 <2>6. /\ offers' \in [OfferIds -> {NoOffer} \cup OfferRow] /\ offers'[i] = row /\ row # NoOffer
       /\ \A k \in OfferIds \ {i} : offers'[k] = offers[k]
   BY <2>3, <2>4, <2>5, OfferWritten
 <2>7. FamiliesTyped' /\ offers[i] # NoOffer BY <1>1, <2>2, <2>6, RowsOfFamilies DEF FamiliesTyped
 <2> QED BY <1>1, <1>2, <2>1, <2>2, <2>3, <2>5, <2>6, <2>7 DEF Effect
<1>8. CASE Join(h)
 <2>1. /\ job[h] \in JoinJob /\ job[h].op = "join" /\ UNCHANGED <<balance, ledger, families, offers>>
   BY <1>8, JoinWrites
 <2>2. PICK f \in FamilyIds, a \in Accounts : f = job[h].family /\ a = job[h].account BY <2>1 DEF JoinJob
 <2>3. families[f] # NoFamily BY <2>1, <2>2 DEF JobFounded
 <2>4. UNCHANGED members \/ \E row \in MemberRow : members' = [members EXCEPT ![<<f, a>>] = row]
   BY <1>8, <2>2, JoinWrites
 <2> QED BY <1>3, <1>4, <2>1, <2>3, <2>4
<1>9. CASE WriteMember(h)
 <2>1. /\ job[h] \in ModerateJob \cup LeaveJob /\ job[h].op = "moderate"
       /\ UNCHANGED <<balance, ledger, families, offers>>
   BY <1>9, MemberWrites
 <2>2. PICK f \in FamilyIds, b \in Accounts : f = job[h].family /\ b = job[h].target
   BY <2>1 DEF ModerateJob, LeaveJob
 <2>3. families[f] # NoFamily BY <2>1, <2>2 DEF JobFounded
 <2>4. \E row \in MemberRow : members' = [members EXCEPT ![<<f, b>>] = row] BY <1>9, <2>2, MemberWrites
 <2> QED BY <1>4, <2>1, <2>3, <2>4
<1>10. CASE SetOwner(h)
 <2>1. /\ UNCHANGED <<balance, ledger, members, offers>> /\ job[h] \in ModerateJob BY <1>10, OwnerWrites
 <2>2. PICK f \in FamilyIds : f = job[h].family BY <2>1 DEF ModerateJob
 <2>3. PICK row \in FamilyRow : families' = [families EXCEPT ![f] = row] /\ families[f] \in FamilyRow
   BY <1>10, <2>2, OwnerWrites
 <2>4. /\ families' \in [FamilyIds -> {NoFamily} \cup FamilyRow]
       /\ families'[f] # NoFamily /\ families[f] # NoFamily
       /\ \A g \in FamilyIds \ {f} : families'[g] = families[g]
   BY <2>3, FamilyWritten, RowsOfFamilies
 <2>5. FamiliesTyped' BY <1>1, <2>1, <2>4 DEF FamiliesTyped
 <2> QED BY <1>1, <1>2, <2>1, <2>4, <2>5 DEF Effect
<1>11. CASE RaiseNewOwner(h) \/ LowerOldOwner(h)
 <2>1. /\ job[h] \in ModerateJob /\ job[h].op = "moderate"
       /\ UNCHANGED <<balance, ledger, families, offers>>
   BY <1>11, RoleWrites
 <2>2. PICK f \in FamilyIds : f = job[h].family BY <2>1 DEF ModerateJob
 <2>3. job[h].target \in Accounts /\ job[h].account \in Accounts BY <2>1 DEF ModerateJob
 <2>4. families[f] # NoFamily BY <2>1, <2>2 DEF JobFounded
 <2>5. \E a \in Accounts, row \in MemberRow : members' = [members EXCEPT ![<<f, a>>] = row]
   BY <1>11, <2>2, <2>3, RoleWrites
 <2> QED BY <1>4, <2>1, <2>4, <2>5
<1>12. CASE DebitDonation(h)
 <2>1. /\ UNCHANGED <<families, members, offers>> /\ Books'
       /\ job[h].op = "donate" /\ job[h].at = "debit"
       /\ \A n : n # job[h].key => Payers(n)' = Payers(n)
   BY <1>12, DebitWrites
 <2>2. FamiliesTyped' BY <1>1, <2>1 DEF FamiliesTyped
 <2>3. \A f \in FamilyIds, a \in Accounts : members[<<f, a>>] = NoMember => members'[<<f, a>>] = NoMember
   BY <2>1
 <2> QED BY <1>1, <2>1, <2>2, <2>3 DEF Effect
<1>13. CASE AddContribution(h)
 <2>1. /\ job[h] \in DonateJob /\ UNCHANGED <<balance, ledger, offers>> BY <1>13, ContributionWrites
 <2>2. PICK f \in FamilyIds, a \in Accounts : f = job[h].family /\ a = job[h].account BY <2>1 DEF DonateJob
 <2>3. PICK row \in MemberRow : members' = [members EXCEPT ![<<f, a>>] = row]
   BY <1>13, <2>2, ContributionWrites
 <2>4. PICK new \in FamilyRow : families' = [families EXCEPT ![f] = new] /\ families[f] \in FamilyRow
   BY <1>13, <2>2, ContributionWrites
 <2>5. /\ families' \in [FamilyIds -> {NoFamily} \cup FamilyRow]
       /\ families'[f] # NoFamily /\ families[f] # NoFamily
       /\ \A g \in FamilyIds \ {f} : families'[g] = families[g]
   BY <2>4, FamilyWritten, RowsOfFamilies
 <2>6. /\ members' \in [FamilyIds \X Accounts -> {NoMember} \cup MemberRow]
       /\ members'[<<f, a>>] = row /\ row # NoMember
       /\ \A g \in FamilyIds, b \in Accounts : g # f \/ b # a => members'[<<g, b>>] = members[<<g, b>>]
   BY <2>3, MemberWritten
 <2>7. FamiliesTyped' BY <1>1, <2>1, <2>5, <2>6 DEF FamiliesTyped
 <2> QED BY <1>1, <1>2, <2>1, <2>5, <2>6, <2>7 DEF Effect
<1> QED BY <1>3, <1>5, <1>6, <1>7, <1>8, <1>9, <1>10, <1>11, <1>12, <1>13, Reads DEF Writes
-----------------------------
\* A request that goes on has found what its next step needs.
GoesOn(h) ==
  /\ job[h] # Idle /\ job'[h] \in FamilyJobs
  /\ UNCHANGED <<issued, dropped, contended>>
  /\ job'[h].op = job[h].op /\ job'[h].key = job[h].key /\ job'[h].family = job[h].family
  /\ job[h].op # "offer" => job'[h].account = job[h].account
  /\ \/ /\ job[h].op = "offer" /\ UNCHANGED members
        /\ job'[h].at # "notify" => job[h].at # "notify" /\ UNCHANGED <<offers, families>>
     \/ /\ job[h].op = "join" /\ job[h].at = "free" /\ job'[h].at = "member"
        /\ FamiliesOf(job[h].account) = {} /\ UNCHANGED members
     \/ /\ job[h].op = "join" /\ job[h].at = "member" /\ job'[h].at \in {"insert", "rejoin"}
        /\ LET was == members[<<job[h].family, job[h].account>>].status IN
           was # "banned" /\ (job'[h].at = "rejoin" => was # "none")
        /\ UNCHANGED members
     \/ /\ job[h].op = "join" /\ job[h].at \in {"insert", "rejoin"} /\ job'[h].at = "accepted"
        /\ members'[<<job[h].family, job[h].account>>] # NoMember
     \/ /\ job[h].op = "join" /\ job[h].at = "accepted" /\ job'[h].at = "notify" /\ UNCHANGED members
     \/ job[h].op = "withdraw" /\ UNCHANGED members
     \/ /\ job[h].op = "moderate" /\ job[h] \in ModerateJob /\ job'[h] \in ModerateJob
        /\ job'[h].act = job[h].act /\ job'[h].target = job[h].target /\ job'[h].rank = job[h].rank
        /\ \/ /\ job[h].at = "target" /\ job'[h].at \in {"write", "owner"} /\ UNCHANGED <<members, families>>
              /\ MayBeDone(job[h].act, members[<<job[h].family, job[h].target>>], job[h].rank)
              /\ job'[h].at = "owner" <=> job[h].act = "transfer"
           \/ job[h].at = "owner" /\ job'[h].at = "newRole" /\ SetOwner(h)
           \/ job[h].at = "newRole" /\ job'[h].at = "oldRole" /\ RaiseNewOwner(h)
     \/ /\ job[h].op = "donate" /\ job[h].at = "debit" /\ job'[h].at = "contribute" /\ UNCHANGED members
        /\ \A n : n = job[h].key => Payers(n)' = {job[h].account}

\* A request ends, is taken or goes on.
LEMMA Continues ==
  ASSUME FamilyInv, NEW h \in Handlers, FamilyMove(h)
  PROVE  job'[h] = Idle \/ Taken(h) \/ GoesOn(h)
<1> USE DEF FamilyInv
<1>1. Finish(h) \/ Break(h) \/ Notify(h) => job'[h] = Idle BY OneMoves DEF FamilyJobsTyped
<1>2. \A condition, at : Proceed(h, condition, at) =>
        /\ UNCHANGED <<families, members, offers, contended>>
        /\ Finish(h) \/ (condition /\ Goto(h, at))
  BY DEF Proceed, familyVars
<1>3. ASSUME NEW at, Goto(h, at), job[h] # Idle
      PROVE  /\ job'[h] = [job[h] EXCEPT !.at = at] /\ job[h] \in FamilyJobs
             /\ job'[h].at = at /\ job'[h].op = job[h].op /\ job'[h].key = job[h].key
             /\ job'[h].family = job[h].family
             /\ job[h].op # "offer" => job'[h].account = job[h].account
             /\ UNCHANGED <<issued, dropped>> /\ job'[h] \in FamilyJobs
 <2>1. job'[h] = [job[h] EXCEPT !.at = at] /\ UNCHANGED <<issued, dropped>> /\ job[h] \in FamilyJobs
   BY <1>3, OneMoves DEF FamilyJobsTyped
 <2>2. job[h].op # "offer" => job[h] \notin OfferJob BY DEF OfferJob
 <2>3. /\ job'[h].at = at /\ job'[h].op = job[h].op /\ job'[h].key = job[h].key
       /\ job'[h].family = job[h].family
       /\ job[h].op # "offer" => job'[h].account = job[h].account
   BY <2>1, <2>2, SameRequest
 <2>4. job'[h] \in FamilyJobs
  <3>1. job[h].op # "none" BY <1>3, FamilyKinds
  <3>2. job'[h] # Idle BY <2>3, <3>1 DEF Idle
  <3> QED BY <3>2, RequestsMove
 <2> QED BY <2>1, <2>3, <2>4
<1>4. CASE CreateFamily(h) BY <1>4, CreateWrites
<1>5. CASE CheckTarget(h) \/ CheckNoneWaits(h) \/ InsertOffer(h) \/ NotifyOffer(h)
 <2>1. job[h].op = "offer" /\ job[h] # Idle
   BY <1>5 DEF CheckTarget, CheckNoneWaits, InsertOffer, NotifyOffer, Doing, Idle
 <2>2. CASE CheckTarget(h) \/ CheckNoneWaits(h)
  <3>1. /\ UNCHANGED <<families, members, offers, contended>> /\ job[h].at # "notify"
        /\ Finish(h) \/ \E at \in {"pending", "insert"} : Goto(h, at)
    BY <1>2, <2>2 DEF CheckTarget, CheckNoneWaits, Doing
  <3>2. ASSUME NEW at \in {"pending", "insert"}, Goto(h, at) PROVE GoesOn(h)
    BY <1>3, <2>1, <3>1, <3>2 DEF GoesOn
  <3> QED BY <1>1, <3>1, <3>2
 <2>3. CASE InsertOffer(h)
  <3>1. UNCHANGED <<members, contended>> /\ (Break(h) \/ Goto(h, "notify")) BY <2>3 DEF InsertOffer
  <3>2. ASSUME Goto(h, "notify") PROVE GoesOn(h) BY <1>3, <2>1, <3>1, <3>2 DEF GoesOn
  <3> QED BY <1>1, <3>1, <3>2
 <2> QED BY <1>1, <1>5, <2>2, <2>3 DEF NotifyOffer
<1>6. CASE CheckFree(h) \/ FindMember(h) \/ Join(h) \/ MarkJoined(h) \/ NotifyJoin(h)
 <2>1. job[h].op = "join" /\ job[h] # Idle
   BY <1>6 DEF CheckFree, FindMember, Join, MarkJoined, NotifyJoin, Doing, Idle
 <2>2. CASE CheckFree(h)
  <3>1. /\ UNCHANGED <<families, members, offers, contended>> /\ job[h].at = "free"
        /\ Finish(h) \/ (FamiliesOf(job[h].account) = {} /\ Goto(h, "member"))
    BY <1>2, <2>2 DEF CheckFree, Doing
  <3>2. ASSUME FamiliesOf(job[h].account) = {}, Goto(h, "member") PROVE GoesOn(h)
    BY <1>3, <2>1, <3>1, <3>2 DEF GoesOn
  <3> QED BY <1>1, <3>1, <3>2
 <2>3. CASE FindMember(h)
  <3> DEFINE was == members[<<job[h].family, job[h].account>>].status
  <3>1. /\ UNCHANGED <<families, members, offers, contended>> /\ job[h].at = "member"
        /\ Finish(h) \/ (was # "banned" /\ Goto(h, IF was = "none" THEN "insert" ELSE "rejoin"))
    BY <1>2, <2>3 DEF FindMember, Doing
  <3>2. ASSUME NEW at \in {"insert", "rejoin"}, Goto(h, at), was # "banned", at = "rejoin" => was # "none"
        PROVE  GoesOn(h)
    BY <1>3, <2>1, <3>1, <3>2 DEF GoesOn
  <3> QED BY <1>1, <3>1, <3>2
 <2>4. CASE Join(h)
  <3>1. /\ UNCHANGED contended /\ job[h].at \in {"insert", "rejoin"}
        /\ \/ Break(h)
           \/ Goto(h, "accepted") /\ members'[<<job[h].family, job[h].account>>] # NoMember
   <4>1. PICK f \in FamilyIds, a \in Accounts : f = job[h].family /\ a = job[h].account
     BY <2>4, JoinWrites DEF JoinJob
   <4>2. ASSUME NEW row \in MemberRow, members' = [members EXCEPT ![<<f, a>>] = row]
         PROVE  members'[<<f, a>>] # NoMember
    <5>1. members'[<<f, a>>] = row /\ row # NoMember BY <4>2, MemberWritten
    <5> QED BY <5>1
   <4> QED BY <2>4, <4>1, <4>2, JoinWrites
  <3>2. ASSUME Goto(h, "accepted"), members'[<<job[h].family, job[h].account>>] # NoMember PROVE GoesOn(h)
    BY <1>3, <2>1, <3>1, <3>2 DEF GoesOn
  <3> QED BY <1>1, <3>1, <3>2
 <2>5. CASE MarkJoined(h)
  <3>1. /\ UNCHANGED <<members, contended>> /\ job[h].at = "accepted" /\ Goto(h, "notify")
    BY <2>5 DEF MarkJoined, Doing
  <3> QED BY <1>3, <2>1, <3>1 DEF GoesOn
 <2> QED BY <1>1, <1>6, <2>2, <2>3, <2>4, <2>5 DEF NotifyJoin
<1>7. CASE CheckRevoker(h) \/ Withdraw(h)
 <2>1. job[h].op = "withdraw" /\ job[h] # Idle BY <1>7 DEF CheckRevoker, Withdraw, Doing, Idle
 <2>2. Finish(h) \/ (UNCHANGED <<members, contended>> /\ Goto(h, "update"))
   BY <1>2, <1>7 DEF CheckRevoker, Withdraw
 <2>3. ASSUME UNCHANGED <<members, contended>>, Goto(h, "update") PROVE GoesOn(h)
   BY <1>3, <2>1, <2>3 DEF GoesOn
 <2> QED BY <1>1, <2>2, <2>3
<1>8. CASE CheckModerated(h) \/ WriteMember(h) \/ SetOwner(h) \/ RaiseNewOwner(h) \/ LowerOldOwner(h)
 <2>1. job[h].op = "moderate" /\ job[h] # Idle /\ job[h] \in ModerateJob \cup LeaveJob
   BY <1>8, FamilyKinds DEF CheckModerated, WriteMember, SetOwner, RaiseNewOwner, LowerOldOwner, Doing, Idle
 <2>2. ASSUME NEW at \in {"write", "owner", "newRole", "oldRole"}, Goto(h, at), job[h] \in ModerateJob
       PROVE  /\ job'[h] \in ModerateJob /\ job'[h].act = job[h].act
              /\ job'[h].target = job[h].target /\ job'[h].rank = job[h].rank
  <3>1. job'[h] = [job[h] EXCEPT !.at = at] /\ job[h] \in FamilyJobs BY <1>3, <2>1, <2>2
  <3> QED BY <2>2, <3>1, SameRequest
 <2>3. CASE CheckModerated(h)
  <3>1. /\ UNCHANGED <<families, members, offers, contended>> /\ job[h].at = "target"
        /\ \/ Finish(h)
           \/ /\ MayBeDone(job[h].act, members[<<job[h].family, job[h].target>>], job[h].rank)
              /\ Goto(h, IF job[h].act = "transfer" THEN "owner" ELSE "write")
    BY <1>2, <2>3 DEF CheckModerated, Doing
  <3>2. job[h] \in ModerateJob BY <2>1, <3>1 DEF LeaveJob
  <3>3. ASSUME MayBeDone(job[h].act, members[<<job[h].family, job[h].target>>], job[h].rank),
               NEW at \in {"write", "owner"}, at = "owner" <=> job[h].act = "transfer", Goto(h, at)
        PROVE  GoesOn(h)
   <4>1. /\ job'[h] \in ModerateJob /\ job'[h].act = job[h].act
         /\ job'[h].target = job[h].target /\ job'[h].rank = job[h].rank
     BY <2>2, <3>2, <3>3
   <4>2. /\ job'[h] \in FamilyJobs /\ job'[h].at = at /\ job'[h].op = job[h].op
         /\ job'[h].key = job[h].key /\ job'[h].family = job[h].family
         /\ job'[h].account = job[h].account /\ UNCHANGED <<issued, dropped>>
     BY <1>3, <2>1, <3>3
   <4> QED BY <2>1, <3>1, <3>2, <3>3, <4>1, <4>2 DEF GoesOn
  <3> QED BY <1>1, <3>1, <3>3
 <2>4. CASE SetOwner(h)
  <3>1. /\ UNCHANGED contended /\ job[h].at = "owner" /\ Goto(h, "newRole") /\ job[h] \in ModerateJob
    BY <2>4, OwnerWrites
  <3>2. /\ job'[h] \in ModerateJob /\ job'[h].act = job[h].act
        /\ job'[h].target = job[h].target /\ job'[h].rank = job[h].rank
    BY <2>2, <3>1
  <3> QED BY <1>3, <2>1, <2>4, <3>1, <3>2 DEF GoesOn
 <2>5. CASE RaiseNewOwner(h)
  <3>1. /\ UNCHANGED contended /\ job[h].at = "newRole" /\ Goto(h, "oldRole") /\ job[h] \in ModerateJob
    BY <2>5, RoleWrites
  <3>2. /\ job'[h] \in ModerateJob /\ job'[h].act = job[h].act
        /\ job'[h].target = job[h].target /\ job'[h].rank = job[h].rank
    BY <2>2, <3>1
  <3> QED BY <1>3, <2>1, <2>5, <3>1, <3>2 DEF GoesOn
 <2> QED BY <1>1, <1>8, <2>3, <2>4, <2>5 DEF WriteMember, LowerOldOwner
<1>9. CASE DebitDonation(h) \/ AddContribution(h)
 <2>1. CASE DebitDonation(h)
  <3>1. /\ job[h].op = "donate" /\ job[h].at = "debit" /\ job[h] # Idle
        /\ UNCHANGED <<members, contended>>
        /\ \/ Finish(h)
           \/ Goto(h, "contribute") /\ \A n : n = job[h].key => Payers(n)' = {job[h].account}
    BY <2>1, DebitWrites DEF Idle
  <3>2. ASSUME Goto(h, "contribute"), \A n : n = job[h].key => Payers(n)' = {job[h].account}
        PROVE  GoesOn(h)
    BY <1>3, <3>1, <3>2 DEF GoesOn
  <3> QED BY <1>1, <3>1, <3>2
 <2> QED BY <1>1, <1>9, <2>1 DEF AddContribution
<1>10. CASE Interrupted(h) BY <1>1, <1>10 DEF Interrupted
<1> QED BY <1>4, <1>5, <1>6, <1>7, <1>8, <1>9, <1>10, Starts DEF FamilyMove, FamilyStep
-----------------------------
\* A move of a handler is one of the five that RequestHandlers has.
LEMMA MoveKinds ==
  ASSUME NEW h \in Handlers, FamilyMove(h)
  PROVE  (\E at : Goto(h, at)) \/ Finish(h) \/ Notify(h) \/ Break(h) \/ (\E j : Accept(h, j))
<1>1. \A condition, at : Proceed(h, condition, at) => Finish(h) \/ Goto(h, at) BY DEF Proceed
<1>2. CASE \/ CreateFamily(h) \/ InsertOffer(h) \/ NotifyOffer(h) \/ Join(h) \/ MarkJoined(h)
           \/ NotifyJoin(h)
  BY <1>2 DEF CreateFamily, InsertOffer, NotifyOffer, Join, MarkJoined, NotifyJoin
<1>3. CASE \/ Withdraw(h) \/ WriteMember(h) \/ SetOwner(h) \/ RaiseNewOwner(h) \/ LowerOldOwner(h)
           \/ DebitDonation(h) \/ AddContribution(h)
  BY <1>3 DEF Withdraw, WriteMember, SetOwner, RaiseNewOwner, LowerOldOwner, DebitDonation, AddContribution
<1>4. CASE \/ CheckTarget(h) \/ CheckNoneWaits(h) \/ CheckFree(h) \/ FindMember(h)
           \/ CheckRevoker(h) \/ CheckModerated(h)
  BY <1>1, <1>4 DEF CheckTarget, CheckNoneWaits, CheckFree, FindMember, CheckRevoker, CheckModerated
<1>5. CASE FamilyRequest(h) BY <1>5, Takes DEF Work
<1>6. CASE Interrupted(h) BY <1>6 DEF Interrupted
<1> QED BY <1>2, <1>3, <1>4, <1>5, <1>6 DEF FamilyMove, FamilyStep

\* Requests stay requests.
LEMMA RequestsTyped ==
  ASSUME FamilyInv, NEW h \in Handlers, FamilyMove(h)
  PROVE  FamilyJobsTyped' /\ (\A g \in Handlers \ {h} : job'[g] = job[g])
<1> USE DEF FamilyInv
<1>1. /\ job'[h] \in {Idle} \cup FamilyJobs /\ ModerationFits(h)' /\ notices' \in [Ids -> Nat]
      /\ \A g \in Handlers \ {h} : job'[g] = job[g]
  BY RequestsMove
<1>2. \E j : job' = [job EXCEPT ![h] = j]
  BY MoveKinds DEF Goto, Finish, Notify, Break, Accept, FamilyJobsTyped
<1>3. job' \in [Handlers -> {Idle} \cup FamilyJobs] BY <1>1, <1>2 DEF FamilyJobsTyped
<1>4. ASSUME NEW g \in Handlers PROVE ModerationFits(g)'
 <2>1. CASE g # h BY <1>1, <2>1 DEF FamilyJobsTyped, ModerationFits
 <2> QED BY <1>1, <2>1
<1> QED BY <1>1, <1>3, <1>4 DEF FamilyJobsTyped

\* Coins move in one step only.
LEMMA LedgerMoves ==
  ASSUME NEW h \in Handlers, FamilyMove(h)
  PROVE  DebitDonation(h) \/ UNCHANGED <<balance, ledger>>
<1>1. CASE CreateFamily(h) \/ InsertOffer(h) \/ Join(h) \/ MarkJoined(h) \/ Withdraw(h)
  BY <1>1 DEF CreateFamily, InsertOffer, Join, MarkJoined, Withdraw, ledgerVars
<1>2. CASE WriteMember(h) \/ SetOwner(h) \/ AddContribution(h)
  BY <1>2 DEF WriteMember, SetOwner, AddContribution, ledgerVars
<1>3. CASE RaiseNewOwner(h) \/ LowerOldOwner(h)
  BY <1>3 DEF RaiseNewOwner, LowerOldOwner, SetRole, ledgerVars
<1> QED BY <1>1, <1>2, <1>3, Reads DEF Writes

\* Rows stay founded.
LEMMA RowsStay ==
  ASSUME FamilyInv, NEW h \in Handlers, FamilyMove(h)
  PROVE  RowsFounded'
<1> USE DEF FamilyInv
<1>1. Effect(h) /\ RowsFounded /\ JobFounded(h) /\ JobFresh(h) BY Effects
<1>2. ASSUME NEW f \in FamilyIds, NEW a \in Accounts, members'[<<f, a>>] # NoMember
      PROVE  families'[f] # NoFamily
  BY <1>1, <1>2 DEF Effect, RowsFounded
<1>3. ASSUME NEW f \in FamilyIds, families'[f] # NoFamily PROVE f \in issued'
 <2>1. CASE families[f] # NoFamily BY <1>1, <2>1 DEF Effect, RowsFounded
 <2>2. CASE job[h].op = "create" /\ job[h].key = f BY <1>1, <2>2 DEF Effect, JobFounded, Idle
 <2> QED BY <1>1, <1>3, <2>1, <2>2 DEF Effect
<1>4. ASSUME NEW i \in OfferIds, offers'[i] # NoOffer
      PROVE  /\ i \in issued' /\ families'[offers'[i].family] # NoFamily
             /\ offers'[i].status = "accepted" => members'[<<offers'[i].family, offers'[i].to>>] # NoMember
 <2>1. CASE offers[i] # NoOffer
  <3>1. offers[i] \in OfferRow BY <2>1, RowsOfFamilies
  <3>2. PICK f \in FamilyIds, b \in Accounts : f = offers[i].family /\ b = offers[i].to BY <3>1 DEF OfferRow
  <3>3. offers'[i].family = f /\ offers'[i].to = b BY <1>1, <2>1, <3>2 DEF Effect
  <3>4. i \in issued /\ families[f] # NoFamily BY <1>1, <2>1, <3>2 DEF RowsFounded
  <3>5. ASSUME offers'[i].status = "accepted" PROVE members[<<f, b>>] # NoMember
   <4>1. CASE offers[i].status = "accepted" BY <1>1, <2>1, <3>2, <4>1 DEF RowsFounded
   <4>2. CASE job[h].op = "join" /\ job[h].at = "accepted" /\ job[h].key = i
     BY <1>1, <3>2, <4>2 DEF JobFounded
   <4> QED BY <1>1, <2>1, <3>5, <4>1, <4>2 DEF Effect
  <3> QED BY <1>1, <3>3, <3>4, <3>5 DEF Effect
 <2>2. CASE offers[i] = NoOffer
  <3>1. /\ job[h].op = "offer" /\ job[h].key = i
        /\ offers'[i].family = job[h].family /\ offers'[i].status = "pending"
    BY <1>1, <1>4, <2>2 DEF Effect
  <3>2. job[h] # Idle /\ job[h].family \in FamilyIds BY <3>1, FamilyKinds DEF Idle
  <3>3. families[job[h].family] # NoFamily /\ i \in issued BY <1>1, <3>1, <3>2 DEF JobFounded
  <3> QED BY <1>1, <3>1, <3>2, <3>3 DEF Effect
 <2> QED BY <2>1, <2>2
<1> QED BY <1>2, <1>3, <1>4 DEF RowsFounded

\* Coins still move by donations only.
LEMMA DonatedStays ==
  ASSUME FamilyInv, NEW h \in Handlers, FamilyMove(h)
  PROVE  Donated'
<1> USE DEF FamilyInv
<1>1. issued \subseteq issued' BY IdsGrow
<1>2. CASE UNCHANGED <<balance, ledger>>
 <2>1. CoinRows' = CoinRows BY <1>2, SamePayers
 <2> QED BY <1>1, <2>1 DEF Donated
<1>3. CASE DebitDonation(h)
 <2>1. \A row \in CoinRows' \ CoinRows : row.key = job[h].key /\ row.direction = "debit"
   BY <1>3, DebitWrites
 <2>2. job[h] \in DonateJob /\ job[h] # Idle BY <1>3, DebitWrites DEF Idle
 <2>3. job[h].key \in DonationIds \cap issued BY <2>2 DEF DonateJob, JobFounded
 <2> QED BY <1>1, <2>1, <2>3 DEF Donated
<1> QED BY <1>2, <1>3, LedgerMoves

\* What the other requests have found stays.
LEMMA OthersFounded ==
  ASSUME FamilyInv, NEW h \in Handlers, FamilyMove(h), NEW g \in Handlers \ {h}
  PROVE  JobFounded(g)'
<1> USE DEF FamilyInv
<1>1. Effect(h) /\ JobFounded(g) /\ job'[g] = job[g] BY Effects, RequestsTyped
<1>2. job[g] # Idle => job[g].key \in issued' BY <1>1 DEF Effect, JobFounded
<1>3. job[g].op \in {"offer", "join", "withdraw", "moderate", "donate"} =>
        families'[job[g].family] # NoFamily
 <2>1. job[g].op \in {"offer", "join", "withdraw", "moderate", "donate"} => job[g].family \in FamilyIds
   BY FamilyKinds DEF Idle
 <2> QED BY <1>1, <2>1 DEF Effect, JobFounded
<1>4. ASSUME job[g].op = "join"
      PROVE  /\ offers'[job[g].key] # NoOffer
             /\ offers'[job[g].key].family = job[g].family /\ offers'[job[g].key].to = job[g].account
             /\ job[g].at \in {"rejoin", "accepted", "notify"} =>
                  members'[<<job[g].family, job[g].account>>] # NoMember
 <2>1. job[g].key \in OfferIds /\ job[g].family \in FamilyIds /\ job[g].account \in Accounts
   BY <1>4, FamilyKinds DEF JoinJob
 <2> QED BY <1>1, <1>4, <2>1 DEF Effect, JobFounded
<1>5. ASSUME job[g].op = "withdraw" PROVE offers'[job[g].key] # NoOffer
 <2>1. job[g].key \in OfferIds BY <1>5, FamilyKinds DEF WithdrawJob
 <2> QED BY <1>1, <1>5, <2>1 DEF Effect, JobFounded
<1>6. ASSUME job[g].op \in {"moderate", "donate"}
      PROVE  members'[<<job[g].family, job[g].account>>] # NoMember
 <2>1. job[g].family \in FamilyIds /\ job[g].account \in Accounts
   BY <1>6, FamilyKinds DEF ModerateJob, LeaveJob, DonateJob
 <2> QED BY <1>1, <1>6, <2>1 DEF Effect, JobFounded
<1>7. ASSUME job[g].op = "moderate", job[g].at # "target"
      PROVE  members'[<<job[g].family, job[g].target>>] # NoMember
 <2>1. job[g].family \in FamilyIds /\ job[g].target \in Accounts
   BY <1>7, FamilyKinds DEF ModerateJob, LeaveJob
 <2> QED BY <1>1, <1>7, <2>1 DEF Effect, JobFounded
<1> QED BY <1>1, <1>2, <1>3, <1>4, <1>5, <1>6, <1>7 DEF JobFounded

\* What the other requests are yet to write stays unwritten.
LEMMA OthersFresh ==
  ASSUME FamilyInv, NEW h \in Handlers, FamilyMove(h), NEW g \in Handlers \ {h}
  PROVE  JobFresh(g)'
<1> USE DEF FamilyInv
<1>1. Effect(h) /\ JobFresh(g) /\ JobFounded(g) /\ job'[g] = job[g] BY Effects, RequestsTyped
<1>2. job'[h] = Idle \/ Taken(h) \/ GoesOn(h) BY Continues
<1>3. ASSUME job[g].op \in {"create", "offer", "donate"}
      PROVE  /\ ~(job[h].op = job[g].op /\ job[h].key = job[g].key)
             /\ ~(job'[h].op = job[g].op /\ job'[h].key = job[g].key)
             /\ \A e \in Handlers : job'[e].op = job[g].op /\ job'[e].key = job[g].key => e = g
 <2>1. \A e \in Handlers : job[e].op = job[g].op /\ job[e].key = job[g].key => e = g
   BY <1>1, <1>3 DEF JobFresh
 <2>2. job[g].key \in issued BY <1>1, <1>3 DEF JobFounded, Idle
 <2>3. ASSUME job'[h].op = job[g].op, job'[h].key = job[g].key PROVE FALSE
  <3>1. CASE job'[h] = Idle BY <1>3, <2>3, <3>1 DEF Idle
  <3>2. CASE Taken(h) BY <1>3, <2>2, <2>3, <3>2 DEF Taken
  <3>3. CASE GoesOn(h) BY <2>1, <2>3, <3>3 DEF GoesOn
  <3> QED BY <1>2, <3>1, <3>2, <3>3
 <2>4. \A e \in Handlers \ {h} : job'[e] = job[e] BY RequestsTyped
 <2> QED BY <2>1, <2>3, <2>4
<1>4. ASSUME job[g].op = "create" PROVE families'[job[g].key] = NoFamily
 <2>1. job[g].key \in FamilyIds BY <1>4, FamilyKinds DEF CreateJob
 <2> QED BY <1>1, <1>3, <1>4, <2>1 DEF Effect, JobFresh
<1>5. ASSUME job[g].op = "offer", job[g].at # "notify" PROVE offers'[job[g].key] = NoOffer
 <2>1. job[g].key \in OfferIds BY <1>5, FamilyKinds DEF OfferJob
 <2> QED BY <1>1, <1>3, <1>5, <2>1 DEF Effect, JobFresh
<1>6. ASSUME job[g].op = "donate", NEW n \in DonationIds, n = job[g].key PROVE Payers(n)' = Payers(n)
  BY <1>1, <1>3, <1>6 DEF Effect
<1>7. job[g].op = "donate" =>
        Payers(job[g].key)' = IF job[g].at = "debit" THEN {} ELSE {job[g].account}
 <2> SUFFICES ASSUME job[g].op = "donate"
              PROVE  Payers(job[g].key)' = IF job[g].at = "debit" THEN {} ELSE {job[g].account}
   OBVIOUS
 <2>1. job[g].key \in DonationIds BY FamilyKinds DEF DonateJob
 <2>2. \A n : n = job[g].key => Payers(n) = IF job[g].at = "debit" THEN {} ELSE {job[g].account}
   BY <1>1 DEF JobFresh
 <2>3. \A n : n = job[g].key => Payers(n)' = IF job[g].at = "debit" THEN {} ELSE {job[g].account}
   BY <1>6, <2>1, <2>2
 <2> QED BY <1>1, <2>3
<1> QED BY <1>1, <1>3, <1>4, <1>5, <1>7 DEF JobFresh

\* What the moving request has found is there.
LEMMA OwnFounded ==
  ASSUME FamilyInv, NEW h \in Handlers, FamilyMove(h)
  PROVE  JobFounded(h)'
<1> USE DEF FamilyInv
<1>1. Effect(h) /\ JobFounded(h) /\ FamilyJobsTyped' BY Effects, RequestsTyped
<1>2. CASE job'[h] = Idle BY <1>2 DEF JobFounded, Idle
<1>3. CASE Taken(h)
 <2>1. UNCHANGED <<families, members, offers>> /\ issued' = issued \cup {job'[h].key} BY <1>3 DEF Taken
 <2>2. job'[h].op # "none" /\ job'[h].family \in FamilyIds
   BY <1>3 DEF Taken, FamilyJobs, CreateJob, OfferJob, JoinJob, WithdrawJob, ModerateJob, LeaveJob,
      DonateJob
 <2>3. job'[h].op = "join" =>
         /\ offers[job'[h].key] # NoOffer /\ job'[h].at = "free"
         /\ offers[job'[h].key].family = job'[h].family /\ offers[job'[h].key].to = job'[h].account
   BY <1>3, RowsOfFamilies DEF Taken
 <2>4. job'[h].op = "moderate" =>
         /\ members[<<job'[h].family, job'[h].account>>] # NoMember
         /\ job'[h].at # "target" => job'[h].target = job'[h].account
   BY <1>3, RowsOfFamilies DEF Taken
 <2>5. /\ job'[h].op = "withdraw" => offers[job'[h].key] # NoOffer
       /\ job'[h].op = "donate" => members[<<job'[h].family, job'[h].account>>] # NoMember
       /\ job'[h].op \in {"offer", "join", "withdraw", "moderate", "donate"} =>
            families[job'[h].family] # NoFamily
   BY <1>3 DEF Taken
 <2> QED BY <2>1, <2>2, <2>3, <2>4, <2>5 DEF JobFounded
<1>4. CASE GoesOn(h)
 <2>1. /\ job[h] # Idle /\ job'[h] \in FamilyJobs /\ issued' = issued
       /\ job'[h].op = job[h].op /\ job'[h].key = job[h].key /\ job'[h].family = job[h].family
       /\ job[h].op # "offer" => job'[h].account = job[h].account
   BY <1>4 DEF GoesOn
 <2>2. /\ job[h].key \in issued /\ job[h].family \in FamilyIds
       /\ job[h].op \in {"offer", "join", "withdraw", "moderate", "donate"} =>
            families'[job[h].family] # NoFamily
   BY <1>1, <2>1, FamilyKinds DEF JobFounded, Effect
 <2>3. ASSUME job[h].op = "join"
       PROVE  /\ offers'[job[h].key] # NoOffer
              /\ offers'[job[h].key].family = job[h].family /\ offers'[job[h].key].to = job[h].account
              /\ job'[h].at \in {"rejoin", "accepted", "notify"} =>
                   members'[<<job[h].family, job[h].account>>] # NoMember
  <3>1. /\ job[h] \in JoinJob /\ job[h].key \in OfferIds
        /\ job[h].family \in FamilyIds /\ job[h].account \in Accounts
    BY <2>3, FamilyKinds DEF JoinJob
  <3>2. /\ offers'[job[h].key] # NoOffer
        /\ offers'[job[h].key].family = job[h].family /\ offers'[job[h].key].to = job[h].account
    BY <1>1, <2>3, <3>1 DEF Effect, JobFounded
  <3>3. ASSUME job'[h].at \in {"rejoin", "accepted", "notify"}
        PROVE  members'[<<job[h].family, job[h].account>>] # NoMember
   <4> DEFINE row == members[<<job[h].family, job[h].account>>]
   <4>1. \/ job[h].at = "member" /\ UNCHANGED members /\ row.status # "none"
         \/ members'[<<job[h].family, job[h].account>>] # NoMember
         \/ job[h].at = "accepted" /\ UNCHANGED members
     BY <1>4, <2>3, <3>3 DEF GoesOn
   <4>2. row.status # "none" => row # NoMember BY DEF NoMember
   <4>3. job[h].at = "accepted" => row # NoMember BY <1>1, <2>3 DEF JobFounded
   <4> QED BY <4>1, <4>2, <4>3
  <3> QED BY <3>2, <3>3
 <2>4. ASSUME job[h].op = "withdraw" PROVE offers'[job[h].key] # NoOffer
  <3>1. job[h].key \in OfferIds BY <2>4, FamilyKinds DEF WithdrawJob
  <3> QED BY <1>1, <2>4, <3>1 DEF Effect, JobFounded
 <2>5. ASSUME job[h].op \in {"moderate", "donate"}
       PROVE  members'[<<job[h].family, job[h].account>>] # NoMember
  <3>1. job[h].family \in FamilyIds /\ job[h].account \in Accounts
    BY <2>5, FamilyKinds DEF ModerateJob, LeaveJob, DonateJob
  <3> QED BY <1>1, <2>5, <3>1 DEF Effect, JobFounded
 <2>6. ASSUME job[h].op = "moderate"
       PROVE  members'[<<job'[h].family, job'[h].target>>] # NoMember
  <3>1. /\ job[h].family \in FamilyIds /\ job[h].target \in Accounts
        /\ job'[h].target = job[h].target
    BY <1>4, <2>6 DEF GoesOn, ModerateJob
  <3> DEFINE row == members[<<job[h].family, job[h].target>>]
  <3>2. row # NoMember
   <4>1. CASE job[h].at = "target" /\ MayBeDone(job[h].act, row, job[h].rank)
    <5>1. job[h].act \in {"kick", "ban", "unban", "promote", "demote", "transfer"}
      BY <1>4, <2>6 DEF GoesOn, ModerateJob
    <5>2. row.status # "none" BY <4>1, <5>1 DEF MayBeDone
    <5> QED BY <5>2 DEF NoMember
   <4>2. CASE job[h].at # "target" BY <1>1, <2>6, <4>2 DEF JobFounded
   <4> QED BY <1>4, <2>6, <4>1, <4>2 DEF GoesOn
  <3> QED BY <1>1, <2>1, <3>1, <3>2 DEF Effect
 <2> QED BY <2>1, <2>2, <2>3, <2>4, <2>5, <2>6 DEF JobFounded
<1> QED BY <1>2, <1>3, <1>4, Continues

\* What the moving request is yet to write is unwritten.
LEMMA OwnFresh ==
  ASSUME FamilyInv, NEW h \in Handlers, FamilyMove(h)
  PROVE  JobFresh(h)'
<1> USE DEF FamilyInv
<1>1. Effect(h) /\ JobFresh(h) /\ JobFounded(h) /\ FamilyJobsTyped' BY Effects, RequestsTyped
<1>2. CASE job'[h] = Idle BY <1>2 DEF JobFresh, Idle
<1>3. CASE Taken(h)
 <2>1. /\ UNCHANGED <<ledger, families, members, offers>>
       /\ job'[h] \in FamilyJobs
       /\ job'[h].op \in {"create", "offer", "donate"} =>
            job'[h].key \notin issued /\ job'[h].at \in {"insert", "target", "debit"}
   BY <1>3 DEF Taken
 <2>2. job'[h].op = "create" => families[job'[h].key] = NoFamily
   BY <2>1 DEF RowsFounded, FamilyJobs, CreateJob, OfferJob, JoinJob, WithdrawJob, ModerateJob, LeaveJob,
      DonateJob
 <2>3. job'[h].op = "offer" => offers[job'[h].key] = NoOffer
   BY <2>1 DEF RowsFounded, FamilyJobs, CreateJob, OfferJob, JoinJob, WithdrawJob, ModerateJob, LeaveJob,
      DonateJob
 <2>4. ASSUME job'[h].op = "donate" PROVE job'[h].key \in DonationIds /\ job'[h].at = "debit"
   BY <2>1, <2>4 DEF FamilyJobs, CreateJob, OfferJob, JoinJob, WithdrawJob, ModerateJob, LeaveJob, DonateJob
 <2>5. ASSUME NEW n \in DonationIds \ issued PROVE Payers(n) = {}
  <3>1. ASSUME NEW row \in CoinRows, row.key = n, row.direction = "debit" PROVE FALSE
    BY <2>5, <3>1 DEF Donated
  <3> QED BY <3>1 DEF Payers
 <2>6. \A n : Payers(n)' = Payers(n) BY <2>1, SamePayers
 <2>7. \A n : n = job'[h].key /\ job'[h].op = "donate" => Payers(n)' = {} BY <2>1, <2>4, <2>5, <2>6
 <2>8. ASSUME job'[h].op \in {"create", "offer", "donate"}, NEW g \in Handlers,
              job'[g].op = job'[h].op, job'[g].key = job'[h].key, g # h
       PROVE  FALSE
  <3>1. job'[g] = job[g] /\ job[g] # Idle BY <2>8, RequestsTyped DEF Idle
  <3>2. job[g].key \in issued BY <3>1 DEF JobFounded
  <3> QED BY <2>1, <2>8, <3>1, <3>2
 <2> QED BY <2>1, <2>2, <2>3, <2>4, <2>7, <2>8 DEF JobFresh
<1>4. CASE GoesOn(h)
 <2>1. /\ job[h] # Idle /\ job'[h] \in FamilyJobs
       /\ job'[h].op = job[h].op /\ job'[h].key = job[h].key
       /\ job[h].op # "offer" => job'[h].account = job[h].account
   BY <1>4 DEF GoesOn
 <2>2. job[h].op # "create" BY <1>4 DEF GoesOn
 <2>3. ASSUME job[h].op = "offer", job'[h].at # "notify" PROVE offers'[job[h].key] = NoOffer
  <3>1. job[h].at # "notify" /\ UNCHANGED offers BY <1>4, <2>3 DEF GoesOn
  <3> QED BY <1>1, <2>3, <3>1 DEF JobFresh
 <2>4. ASSUME job[h].op = "donate"
       PROVE  job'[h].at = "contribute" /\ \A n : n = job[h].key => Payers(n)' = {job[h].account}
   BY <1>4, <2>4 DEF GoesOn
 <2>5. ASSUME job[h].op \in {"offer", "donate"}, NEW g \in Handlers,
              job'[g].op = job[h].op, job'[g].key = job[h].key
       PROVE  g = h
  <3>1. g # h => job'[g] = job[g] BY RequestsTyped
  <3> QED BY <1>1, <2>5, <3>1 DEF JobFresh
 <2> QED BY <2>1, <2>2, <2>3, <2>4, <2>5 DEF JobFresh
<1> QED BY <1>2, <1>3, <1>4, Continues
-----------------------------
\* A step writes one membership at most, of the family its request is about,
\* and activates it only for an account that is in no other family.
LEMMA OneRow ==
  ASSUME FamilyInv, NEW h \in Handlers, FamilyMove(h)
  PROVE  \/ UNCHANGED members
         \/ \E f \in FamilyIds, a \in Accounts, row \in MemberRow :
              /\ members' = [members EXCEPT ![<<f, a>>] = row] /\ Serves(h, f)
              /\ row.status = "active" => Belongs(f, a) \/ FamiliesOf(a) \subseteq {f}
<1> USE DEF FamilyInv
<1> DEFINE Moves ==
      \/ UNCHANGED members
      \/ \E f \in FamilyIds, a \in Accounts, row \in MemberRow :
           /\ members' = [members EXCEPT ![<<f, a>>] = row] /\ Serves(h, f)
           /\ row.status = "active" => Belongs(f, a) \/ FamiliesOf(a) \subseteq {f}
<1> SUFFICES Moves OBVIOUS
<1>0. ASSUME NEW f \in FamilyIds, NEW a \in Accounts, NEW row \in MemberRow,
             members' = [members EXCEPT ![<<f, a>>] = row], Serves(h, f),
             row.status = "active" => Belongs(f, a) \/ FamiliesOf(a) \subseteq {f}
      PROVE  Moves
  BY <1>0
<1>00. UNCHANGED members => Moves OBVIOUS
<1> HIDE DEF Moves
<1>1. CASE CreateFamily(h)
 <2>1. PICK f \in FamilyIds, a \in Accounts : f = job[h].family /\ a = job[h].account BY <1>1, CreateWrites
 <2>2. Serves(h, f) BY <1>1, <2>1 DEF Serves, CreateFamily, Doing, Idle
 <2> DEFINE row == [role |-> "owner", status |-> "active", contribution |-> 0]
 <2>3. row \in MemberRow BY DEF MemberRow
 <2>4. UNCHANGED members \/ (FamiliesOf(a) = {} /\ members' = [members EXCEPT ![<<f, a>>] = row])
   BY <1>1, <2>1, CreateWrites
 <2> HIDE DEF row
 <2> QED BY <1>0, <1>00, <2>2, <2>3, <2>4
<1>2. CASE Join(h)
 <2>1. job[h] \in JoinJob /\ job[h].op = "join" BY <1>2, JoinWrites
 <2>2. PICK f \in FamilyIds, a \in Accounts : f = job[h].family /\ a = job[h].account BY <2>1 DEF JoinJob
 <2>3. Serves(h, f) BY <2>1, <2>2 DEF Serves, Idle
 <2> DEFINE row == [role |-> "member", status |-> "active",
                    contribution |-> members[<<f, a>>].contribution]
 <2>4. \/ UNCHANGED members
       \/ /\ row \in MemberRow /\ FamiliesOf(a) \subseteq {f}
          /\ members' = [members EXCEPT ![<<f, a>>] = row]
   BY <1>2, <2>2, JoinWrites
 <2> HIDE DEF row
 <2> QED BY <1>0, <1>00, <2>3, <2>4
<1>3. CASE WriteMember(h)
 <2>1. job[h] \in ModerateJob \cup LeaveJob /\ job[h].op = "moderate" BY <1>3, MemberWrites
 <2>2. PICK f \in FamilyIds, a \in Accounts : f = job[h].family /\ a = job[h].target
   BY <2>1 DEF ModerateJob, LeaveJob
 <2>3. Serves(h, f) BY <2>1, <2>2 DEF Serves, Idle
 <2>4. PICK new \in MemberRow : /\ new = Done(job[h].act, members[<<f, a>>])
                                /\ members' = [members EXCEPT ![<<f, a>>] = new]
                                /\ members[<<f, a>>] \in MemberRow
                                /\ job[h].act \in {"kick", "ban", "unban", "promote", "demote", "leave"}
   BY <1>3, <2>2, MemberWrites
 <2>5. new.status = "active" => members[<<f, a>>].status = "active" BY <2>4, DoneToRow
 <2> QED BY <1>0, <2>3, <2>4, <2>5 DEF Belongs
<1>4. CASE RaiseNewOwner(h) \/ LowerOldOwner(h)
 <2>1. job[h] \in ModerateJob /\ job[h].op = "moderate" BY <1>4, RoleWrites
 <2>2. PICK f \in FamilyIds : f = job[h].family BY <2>1 DEF ModerateJob
 <2>3. job[h].account \in Accounts /\ job[h].target \in Accounts BY <2>1 DEF ModerateJob
 <2>4. Serves(h, f) BY <2>1, <2>2 DEF Serves, Idle
 <2>5. PICK a \in Accounts : a = IF RaiseNewOwner(h) THEN job[h].target ELSE job[h].account BY <2>3
 <2> DEFINE new == [members[<<f, a>>] EXCEPT !.role = IF RaiseNewOwner(h) THEN "owner" ELSE "admin"]
 <2>6. /\ new \in MemberRow /\ new.status = members[<<f, a>>].status
       /\ members' = [members EXCEPT ![<<f, a>>] = new]
   BY <1>4, <2>2, <2>5, RoleWrites
 <2> HIDE DEF new
 <2> QED BY <1>0, <2>4, <2>6 DEF Belongs
<1>5. CASE AddContribution(h)
 <2>1. job[h] \in DonateJob /\ job[h].op = "donate" BY <1>5, ContributionWrites
 <2>2. PICK f \in FamilyIds, a \in Accounts : f = job[h].family /\ a = job[h].account BY <2>1 DEF DonateJob
 <2>3. Serves(h, f) BY <2>1, <2>2 DEF Serves, Idle
 <2> DEFINE new == [members[<<f, a>>] EXCEPT !.contribution = @ + DonationCoins]
 <2>4. /\ new \in MemberRow /\ new.status = members[<<f, a>>].status
       /\ members' = [members EXCEPT ![<<f, a>>] = new]
   BY <1>5, <2>2, ContributionWrites
 <2> HIDE DEF new
 <2> QED BY <1>0, <2>3, <2>4 DEF Belongs
<1>6. CASE InsertOffer(h) \/ MarkJoined(h) \/ Withdraw(h) \/ SetOwner(h) \/ DebitDonation(h)
  BY <1>00, <1>6 DEF InsertOffer, MarkJoined, Withdraw, SetOwner, DebitDonation, familyVars
<1> QED BY <1>00, <1>1, <1>2, <1>3, <1>4, <1>5, <1>6, Reads DEF Writes

\* An account stays in one family at most.
LEMMA OneFamilyStays ==
  ASSUME FamilyInv, NEW h \in Handlers, FamilyMove(h)
  PROVE  (\A a \in Accounts : \A f, g \in FamiliesOf(a) : f = g)'
<1> USE DEF FamilyInv
<1>1. CASE UNCHANGED members BY <1>1 DEF FamiliesOf, Belongs
<1>2. ASSUME NEW f \in FamilyIds, NEW a \in Accounts, NEW row \in MemberRow,
             members' = [members EXCEPT ![<<f, a>>] = row],
             row.status = "active" => Belongs(f, a) \/ FamiliesOf(a) \subseteq {f}
      PROVE  (\A b \in Accounts : \A g, k \in FamiliesOf(b) : g = k)'
 <2>1. /\ members'[<<f, a>>] = row
       /\ \A g \in FamilyIds, b \in Accounts : g # f \/ b # a => members'[<<g, b>>] = members[<<g, b>>]
   BY <1>2, MemberWritten
 <2>2. ASSUME NEW b \in Accounts, b # a PROVE FamiliesOf(b)' = FamiliesOf(b)
   BY <2>1, <2>2 DEF FamiliesOf, Belongs
 <2>3. ASSUME NEW g \in FamiliesOf(a)', NEW k \in FamiliesOf(a)' PROVE g = k
  <3>1. /\ g \in FamilyIds /\ k \in FamilyIds
        /\ members'[<<g, a>>].status = "active" /\ members'[<<k, a>>].status = "active"
    BY DEF FamiliesOf, Belongs
  <3>2. /\ g # f => g \in FamiliesOf(a)
        /\ k # f => k \in FamiliesOf(a)
    BY <2>1, <3>1 DEF FamiliesOf, Belongs
  <3>3. g = f \/ k = f => f \in FamiliesOf(a) \/ FamiliesOf(a) \subseteq {f}
    BY <1>2, <2>1, <3>1 DEF FamiliesOf
  <3> QED BY <3>2, <3>3
 <2> QED BY <2>2, <2>3
<1> QED BY <1>1, <1>2, OneRow

\* A step writes rows of the family its request is about.
LEMMA RowsOfOthers ==
  ASSUME FamilyInv, NEW h \in Handlers, FamilyMove(h), NEW f \in FamilyIds, ~Serves(h, f)
  PROVE  /\ families'[f] = families[f]
         /\ \A a \in Accounts : members'[<<f, a>>] = members[<<f, a>>]
<1> USE DEF FamilyInv
<1>1. \A a \in Accounts : members'[<<f, a>>] = members[<<f, a>>]
 <2>1. ASSUME NEW g \in FamilyIds, NEW b \in Accounts, NEW row \in MemberRow,
              members' = [members EXCEPT ![<<g, b>>] = row], Serves(h, g)
       PROVE  \A a \in Accounts : members'[<<f, a>>] = members[<<f, a>>]
   BY <2>1, MemberWritten
 <2> QED BY <2>1, OneRow
<1>2. CASE CreateFamily(h)
 <2>1. job[h] # Idle BY <1>2 DEF CreateFamily, Doing, Idle
 <2>2. PICK g \in FamilyIds, a \in Accounts : g = job[h].family /\ a = job[h].account /\ g # f
   BY <1>2, <2>1, CreateWrites DEF Serves
 <2>3. \/ UNCHANGED families
       \/ families' = [families EXCEPT ![g] = [owner |-> a, xp |-> 0, level |-> 0]]
   BY <1>2, <2>2, CreateWrites
 <2> QED BY <1>1, <2>2, <2>3 DEF FamiliesTyped
<1>3. CASE SetOwner(h)
 <2>1. job[h] # Idle /\ families' = [families EXCEPT ![job[h].family].owner = job[h].target]
   BY <1>3 DEF SetOwner, Doing, Idle
 <2>2. job[h].family # f BY <2>1 DEF Serves
 <2> QED BY <1>1, <2>1, <2>2 DEF FamiliesTyped
<1>4. CASE AddContribution(h)
 <2>1. job[h] # Idle BY <1>4 DEF AddContribution, Doing, Idle
 <2>2. job[h].family # f /\ families' = [families EXCEPT ![job[h].family] = families'[job[h].family]]
   BY <1>4, <2>1, ContributionWrites DEF Serves
 <2> QED BY <1>1, <2>2 DEF FamiliesTyped
<1>5. CASE \/ InsertOffer(h) \/ Join(h) \/ MarkJoined(h) \/ Withdraw(h) \/ WriteMember(h)
           \/ RaiseNewOwner(h) \/ LowerOldOwner(h) \/ DebitDonation(h)
  BY <1>1, <1>5 DEF InsertOffer, Join, MarkJoined, Withdraw, WriteMember, RaiseNewOwner, LowerOldOwner,
     DebitDonation, SetRole, familyVars
<1> QED BY <1>1, <1>2, <1>3, <1>4, <1>5, Reads DEF Writes

\* A family with two requests at work is contended from then on.
LEMMA OneServes ==
  ASSUME FamilyInv, NEW h \in Handlers, FamilyMove(h), NEW f \in FamilyIds \ contended'
  PROVE  /\ f \in FamilyIds \ contended
         /\ \A g \in Handlers \ {h} : Serves(g, f)' <=> Serves(g, f)
         /\ \A g, k \in Handlers : Serves(g, f)' /\ Serves(k, f)' => g = k
         /\ Taken(h) /\ Serves(h, f)' => \A g \in Handlers : ~Serves(g, f)
         /\ Serves(h, f)' => Taken(h) \/ GoesOn(h)
         /\ GoesOn(h) => (Serves(h, f)' <=> Serves(h, f))
<1> USE DEF FamilyInv
<1>1. f \in FamilyIds \ contended BY ContendedGrow
<1>2. \A g \in Handlers \ {h} : Serves(g, f)' <=> Serves(g, f) BY RequestsTyped DEF Serves
<1>3. Serves(h, f)' => Taken(h) \/ GoesOn(h) BY Continues DEF Serves
<1>4. ASSUME Taken(h), Serves(h, f)' PROVE \A g \in Handlers : ~Serves(g, f) BY <1>4 DEF Taken, Serves
<1>5. GoesOn(h) => (Serves(h, f)' <=> Serves(h, f))
 <2>1. GoesOn(h) => job[h] # Idle /\ job'[h] \in FamilyJobs /\ job'[h].family = job[h].family BY DEF GoesOn
 <2>2. Idle \notin FamilyJobs
   BY DEF Idle, FamilyJobs, CreateJob, OfferJob, JoinJob, WithdrawJob, ModerateJob, LeaveJob, DonateJob
 <2> QED BY <2>1, <2>2 DEF Serves
<1>6. \A g, k \in Handlers : Serves(g, f) /\ Serves(k, f) => g = k BY <1>1 DEF Uncontended
<1> QED BY <1>1, <1>2, <1>3, <1>4, <1>5, <1>6

\* A request alone with its family still sees what it has read, when another
\* has moved ...
LEMMA OthersStillSo ==
  ASSUME FamilyInv, NEW h \in Handlers, FamilyMove(h), NEW f \in FamilyIds \ contended',
         NEW g \in Handlers \ {h}, Serves(g, f)
  PROVE  StillSo(g)'
<1> USE DEF FamilyInv
<1>1. /\ f \in FamilyIds \ contended /\ ~Serves(h, f) /\ StillSo(g) /\ job'[g] = job[g]
      /\ job[g].family = f /\ job[g] # Idle
 <2>1. f \in FamilyIds \ contended BY OneServes
 <2>2. Serves(h, f) => h = g BY <2>1 DEF Uncontended
 <2> QED BY <2>1, <2>2, RequestsTyped DEF Uncontended, Serves
<1>2. families'[f] = families[f] /\ \A a \in Accounts : members'[<<f, a>>] = members[<<f, a>>]
  BY <1>1, RowsOfOthers
<1>3. job[g].op \in {"join", "moderate"} => job[g].account \in Accounts
  BY FamilyKinds DEF JoinJob, ModerateJob, LeaveJob
<1>4. job[g].op = "moderate" => job[g].target \in Accounts BY FamilyKinds DEF ModerateJob, LeaveJob
<1>5. job[g].op = "join" => StillSo(g)' BY <1>1, <1>2, <1>3, <1>5 DEF StillSo, Belongs
<1>6. ASSUME job[g].op = "moderate" PROVE StillSo(g)'
 <2>1. /\ job[g].account \in Accounts /\ job[g].target \in Accounts
       /\ members'[<<f, job[g].account>>] = members[<<f, job[g].account>>]
       /\ members'[<<f, job[g].target>>] = members[<<f, job[g].target>>]
   BY <1>2, <1>3, <1>4, <1>6
 <2>2. /\ \A act : MayAct(f, act, job[g].account)' <=> MayAct(f, act, job[g].account)
       /\ job[g].account \in Owners(f)' <=> job[g].account \in Owners(f)
       /\ job[g].target \in Owners(f)' <=> job[g].target \in Owners(f)
   BY <1>1, <2>1 DEF MayAct, Outranks, Belongs, Owners
 <2>3. MayAct(f, job[g].act, job[g].account)' <=> MayAct(f, job[g].act, job[g].account)
   BY <1>1, <2>1 DEF MayAct, Outranks, Belongs
 <2>4. /\ Owners(f)' = Owners(f) BY <1>2 DEF Owners, Belongs
 <2>5. job'[g] = job[g] /\ job[g].family = f /\ families'[f] = families[f] BY <1>1, <1>2
 <2>6. CASE job[g].act = "leave"
  <3>1. /\ members[<<f, job[g].account>>].status = "active"
        /\ members[<<f, job[g].account>>].role # "owner"
    BY <1>1, <1>6, <2>6 DEF StillSo
  <3>2. /\ members'[<<f, job[g].account>>].status = "active"
        /\ members'[<<f, job[g].account>>].role # "owner"
    BY <2>1, <3>1
  <3> QED BY <1>6, <2>5, <2>6, <3>2 DEF StillSo
 <2>7. CASE job[g].act # "leave" /\ job[g].at = "target" BY <1>1, <1>6, <2>1, <2>3, <2>5, <2>7 DEF StillSo
 <2>8. CASE job[g].act # "leave" /\ job[g].at \in {"write", "owner"}
   BY <1>1, <1>6, <2>1, <2>3, <2>5, <2>8 DEF StillSo
 <2>9. CASE job[g].act # "leave" /\ job[g].at = "newRole" BY <1>1, <1>6, <2>1, <2>4, <2>5, <2>9 DEF StillSo
 <2>10. CASE job[g].act # "leave" /\ job[g].at = "oldRole"
   BY <1>1, <1>6, <2>1, <2>4, <2>5, <2>10 DEF StillSo
 <2>11. job[g].at \in {"target", "write", "owner", "newRole", "oldRole"}
   BY <1>6, FamilyKinds DEF ModerateJob, LeaveJob
 <2> QED BY <2>6, <2>7, <2>8, <2>9, <2>10, <2>11
<1> QED BY <1>1, <1>5, <1>6 DEF StillSo

\* ... and when it has moved itself.
LEMMA OwnStillSo ==
  ASSUME FamilyInv, NEW h \in Handlers, FamilyMove(h), NEW f \in FamilyIds \ contended', Serves(h, f)'
  PROVE  StillSo(h)'
<1> USE DEF FamilyInv
<1>1. f \in FamilyIds \ contended /\ FamilyJobsTyped' BY OneServes, RequestsTyped
<1>2. CASE Taken(h)
 <2>1. /\ job'[h].op = "join" => job'[h].at = "free"
       /\ UNCHANGED members
   BY <1>2 DEF Taken
 <2>2. ASSUME job'[h].op = "moderate" PROVE StillSo(h)'
  <3> DEFINE own == members[<<job'[h].family, job'[h].account>>]
  <3>1. /\ own \in MemberRow /\ own.status = "active"
        /\ job'[h].act = "leave" => job'[h].at = "write" /\ own.role # "owner"
        /\ job'[h].act # "leave" =>
             /\ job'[h].at = "target" /\ job'[h].rank = RoleRank[own.role]
             /\ MayAct(job'[h].family, job'[h].act, job'[h].account)
    BY <1>2, <2>2 DEF Taken
  <3>2. CASE job'[h].act = "leave"
   <4>1. /\ members'[<<job'[h].family, job'[h].account>>].status = "active"
         /\ members'[<<job'[h].family, job'[h].account>>].role # "owner"
     BY <2>1, <3>1, <3>2
   <4> QED BY <2>2, <3>2, <4>1 DEF StillSo
  <3>3. CASE job'[h].act # "leave"
   <4>1. MayAct(job[h].family, job[h].act, job[h].account)'
     BY <2>1, <3>1, <3>3 DEF MayAct, Outranks, Belongs
   <4> QED BY <2>1, <2>2, <3>1, <3>3, <4>1 DEF StillSo
  <3> QED BY <3>2, <3>3
 <2> QED BY <2>1, <2>2 DEF StillSo
<1>3. CASE GoesOn(h)
 <2>1. /\ Serves(h, f) /\ StillSo(h) /\ job[h].family = f /\ job'[h].family = f
       /\ job[h] # Idle /\ job'[h].op = job[h].op
  <3>1. Serves(h, f) BY <1>3, OneServes
  <3>2. StillSo(h) BY <1>1, <3>1 DEF Uncontended
  <3> QED BY <1>3, <3>1, <3>2 DEF Serves, GoesOn
 <2>2. ASSUME job[h].op = "join", job'[h].at \in {"member", "insert", "rejoin"} PROVE StillSo(h)'
  <3>1. job[h].account = job'[h].account /\ job[h].account \in Accounts
    BY <1>3, <2>2, FamilyKinds DEF GoesOn, JoinJob
  <3>2. \/ /\ job[h].at = "free" /\ job'[h].at = "member"
           /\ FamiliesOf(job[h].account) = {} /\ UNCHANGED members
        \/ /\ job[h].at = "member" /\ job'[h].at \in {"insert", "rejoin"} /\ UNCHANGED members
           /\ members[<<f, job[h].account>>].status # "banned"
    BY <1>3, <2>1, <2>2 DEF GoesOn
  <3>3. ~Belongs(f, job[h].account) BY <2>1, <2>2, <3>2 DEF FamiliesOf, StillSo
  <3> QED BY <2>1, <2>2, <3>1, <3>2, <3>3 DEF StillSo, Belongs
 <2>3. ASSUME job[h].op = "moderate" PROVE StillSo(h)'
  <3>1. /\ job[h] \in ModerateJob /\ job'[h].act = job[h].act /\ job'[h].target = job[h].target
        /\ job'[h].rank = job[h].rank /\ job'[h].account = job[h].account
    BY <1>3, <2>3 DEF GoesOn
  <3>2. PICK a \in Accounts, b \in Accounts : a = job[h].account /\ b = job[h].target
    BY <3>1 DEF ModerateJob
  <3>3. job[h].act # "leave" /\ a # b BY <2>3, <3>1, <3>2 DEF ModerateJob, FamilyJobsTyped, ModerationFits
  <3>4. CASE job[h].at = "target"
   <4>1. /\ job'[h].at \in {"write", "owner"} /\ UNCHANGED <<members, families>>
         /\ MayBeDone(job[h].act, members[<<f, b>>], job[h].rank)
     BY <1>3, <2>1, <2>3, <3>2, <3>4 DEF GoesOn
   <4>2. MayAct(f, job[h].act, a) /\ job[h].rank = RoleRank[members[<<f, a>>].role]
     BY <2>1, <2>3, <3>2, <3>3, <3>4 DEF StillSo
   <4>3. \A act : MayAct(f, act, a)' <=> MayAct(f, act, a) BY <4>1 DEF MayAct, Outranks, Belongs
   <4>4. MayAct(f, job[h].act, a)' BY <3>1, <4>2, <4>3
   <4> QED BY <2>1, <2>3, <3>1, <3>2, <3>3, <4>1, <4>2, <4>4 DEF StillSo
  <3>5. CASE job[h].at = "owner"
   <4>1. job'[h].at = "newRole" /\ SetOwner(h) BY <1>3, <2>3, <3>5 DEF GoesOn
   <4>2. job[h].act = "transfer" BY <2>3, <3>5 DEF FamilyJobsTyped, ModerationFits
   <4>3. MayAct(f, "transfer", a) /\ MayBeDone("transfer", members[<<f, b>>], job[h].rank)
     BY <2>1, <2>3, <3>2, <3>3, <3>5, <4>2 DEF StillSo
   <4>4. members[<<f, b>>].status = "active" /\ Outranks(f, a, "owner") BY <4>3 DEF MayBeDone, MayAct
   <4>5. a \in Owners(f)
    <5>1. members[<<f, a>>] \in MemberRow /\ RoleRank[members[<<f, a>>].role] >= RoleRank["owner"]
      BY <4>4, RowsOfFamilies DEF Outranks, Belongs
    <5>2. members[<<f, a>>].role = "owner" BY <5>1, Ranks DEF MemberRow
    <5> QED BY <4>4, <5>2 DEF Owners, Outranks
   <4>6. UNCHANGED members /\ families' = [families EXCEPT ![f].owner = b] BY <2>1, <3>2, <4>1 DEF SetOwner
   <4>7. families[f] \in FamilyRow BY <2>1, <4>1, OwnerWrites
   <4>8. families'[f].owner = b BY <4>6, <4>7 DEF FamiliesTyped, FamilyRow
   <4>9. a \in Owners(f)' BY <4>5, <4>6 DEF Owners, Belongs
   <4> QED BY <2>1, <2>3, <3>1, <3>2, <3>3, <4>1, <4>4, <4>6, <4>8, <4>9 DEF StillSo
  <3>6. CASE job[h].at = "newRole"
   <4>1. job'[h].at = "oldRole" /\ RaiseNewOwner(h) BY <1>3, <2>3, <3>6 DEF GoesOn
   <4>2. a \in Owners(f) /\ members[<<f, b>>].status = "active" /\ families[f].owner = b
     BY <2>1, <2>3, <3>2, <3>3, <3>6 DEF StillSo
   <4> DEFINE new == [members[<<f, b>>] EXCEPT !.role = "owner"]
   <4>3. /\ new \in MemberRow /\ new.status = members[<<f, b>>].status /\ new.role = "owner"
         /\ members' = [members EXCEPT ![<<f, b>>] = new] /\ families' = families
     BY <2>1, <3>2, <4>1, RoleWrites
   <4> HIDE DEF new
   <4>4. members'[<<f, b>>] = new /\ members'[<<f, a>>] = members[<<f, a>>] BY <3>3, <4>3, MemberWritten
   <4>5. a \in Owners(f)' /\ b \in Owners(f)' BY <4>2, <4>3, <4>4 DEF Owners, Belongs
   <4> QED BY <2>1, <2>3, <3>1, <3>2, <3>3, <4>1, <4>2, <4>3, <4>5 DEF StillSo
  <3> QED BY <1>3, <2>3, <3>4, <3>5, <3>6 DEF GoesOn
 <2>4. job[h].op # "moderate" /\ ~(job[h].op = "join" /\ job'[h].at \in {"member", "insert", "rejoin"}) =>
         StillSo(h)'
   BY <2>1 DEF StillSo
 <2> QED BY <2>2, <2>3, <2>4
<1> QED BY <1>2, <1>3, OneServes

\* Whom a step makes an owner, and whom it does not, of a family that only
\* its request is about.
LEMMA OwnersMove ==
  ASSUME FamilyInv, NEW h \in Handlers, FamilyMove(h), NEW f \in FamilyIds \ contended, Serves(h, f)
  PROVE  /\ SetOwner(h) => Owners(f)' = Owners(f) /\ families'[f].owner = job[h].target
         /\ RaiseNewOwner(h) =>
              Owners(f)' = Owners(f) \cup {job[h].target} /\ families'[f] = families[f]
         /\ LowerOldOwner(h) =>
              Owners(f)' = Owners(f) \ {job[h].account} /\ families'[f] = families[f]
         /\ \/ SetOwner(h) \/ RaiseNewOwner(h) \/ LowerOldOwner(h)
            \/ /\ CreateFamily(h) /\ Owners(f)' = {job[h].account}
               /\ families'[f].owner = job[h].account
            \/ /\ Owners(f)' = Owners(f) /\ families'[f].owner = families[f].owner
               /\ families[f] = NoFamily => families'[f] = NoFamily
<1> USE DEF FamilyInv
<1>0. job[h].family = f /\ job[h] # Idle /\ StillSo(h) BY DEF Serves, Uncontended
<1> DEFINE Same == /\ Owners(f)' = Owners(f) /\ families'[f].owner = families[f].owner
                   /\ families[f] = NoFamily => families'[f] = NoFamily
<1>1. ASSUME UNCHANGED <<members, families>> PROVE Same BY <1>1 DEF Owners, Belongs
<1>2. ASSUME CreateFamily(h), ~UNCHANGED <<families, members>>
      PROVE  Owners(f)' = {job[h].account} /\ families'[f].owner = job[h].account
 <2>1. PICK a \in Accounts :
         /\ a = job[h].account /\ families[f] = NoFamily
         /\ families' = [families EXCEPT ![f] = [owner |-> a, xp |-> 0, level |-> 0]]
         /\ members' = [members EXCEPT ![<<f, a>>] =
                          [role |-> "owner", status |-> "active", contribution |-> 0]]
   BY <1>0, <1>2, CreateWrites
 <2> DEFINE row == [role |-> "owner", status |-> "active", contribution |-> 0]
            new == [owner |-> a, xp |-> 0, level |-> 0]
 <2>2. row \in MemberRow /\ row.role = "owner" /\ row.status = "active" /\ new.owner = a BY DEF MemberRow
 <2>3. members' = [members EXCEPT ![<<f, a>>] = row] /\ families' = [families EXCEPT ![f] = new] BY <2>1
 <2> HIDE DEF row, new
 <2>4. /\ members'[<<f, a>>] = row
       /\ \A b \in Accounts \ {a} : members'[<<f, b>>] = members[<<f, b>>]
   BY <2>2, <2>3, MemberWritten
 <2>5. \A b \in Accounts : members[<<f, b>>] = NoMember BY <2>1 DEF RowsFounded
 <2>6. NoMember.status # "active" BY DEF NoMember
 <2>7. Owners(f)' = {a} BY <2>2, <2>4, <2>5, <2>6 DEF Owners, Belongs
 <2>8. families'[f].owner = a BY <2>2, <2>3 DEF FamiliesTyped
 <2> QED BY <1>2, <2>1, <2>7, <2>8
<1>3. ASSUME Join(h) PROVE Same
 <2>1. /\ job[h] \in JoinJob /\ job[h].op = "join" /\ job[h].at \in {"insert", "rejoin"}
       /\ families' = families
   BY <1>3, JoinWrites
 <2>2. PICK a \in Accounts : a = job[h].account BY <2>1 DEF JoinJob
 <2> DEFINE row == [role |-> "member", status |-> "active",
                    contribution |-> members[<<f, a>>].contribution]
 <2>3. \/ UNCHANGED members
       \/ row \in MemberRow /\ members' = [members EXCEPT ![<<f, a>>] = row]
   BY <1>0, <1>3, <2>2, JoinWrites
 <2>4. row.role = "member" OBVIOUS
 <2> HIDE DEF row
 <2>5. ~Belongs(f, a) BY <1>0, <2>1, <2>2 DEF StillSo
 <2>6. ASSUME row \in MemberRow, members' = [members EXCEPT ![<<f, a>>] = row]
       PROVE  Owners(f)' = Owners(f)
  <3>1. /\ members'[<<f, a>>] = row
        /\ \A b \in Accounts \ {a} : members'[<<f, b>>] = members[<<f, b>>]
    BY <2>6, MemberWritten
  <3> QED BY <2>4, <2>5, <3>1 DEF Owners, Belongs
 <2> QED BY <1>1, <2>1, <2>3, <2>6
<1>4. ASSUME WriteMember(h) PROVE Same
 <2>1. /\ job[h] \in ModerateJob \cup LeaveJob /\ job[h].op = "moderate" /\ job[h].at = "write"
       /\ families' = families
       /\ job[h].act \in {"kick", "ban", "unban", "promote", "demote", "leave"}
   BY <1>4, MemberWrites
 <2>2. PICK a \in Accounts, b \in Accounts : a = job[h].account /\ b = job[h].target
   BY <2>1 DEF ModerateJob, LeaveJob
 <2> DEFINE row == members[<<f, b>>]
            new == Done(job[h].act, row)
 <2>3. /\ row \in MemberRow /\ new \in MemberRow
       /\ members' = [members EXCEPT ![<<f, b>>] = new]
   BY <1>0, <1>4, <2>2, MemberWrites
 <2>4. new.role = "owner" => row.role = "owner" BY <2>1, <2>3, DoneToRow
 <2>5. b \notin Owners(f)
  <3>1. CASE job[h].act = "leave"
   <4>1. a = b BY <2>1, <2>2, <3>1 DEF FamilyJobsTyped, ModerationFits
   <4>2. members[<<f, a>>].role # "owner" BY <1>0, <2>1, <2>2, <3>1 DEF StillSo
   <4> QED BY <4>1, <4>2 DEF Owners
  <3>2. CASE job[h].act # "leave"
   <4>1. job[h].rank \in 0..2 /\ MayBeDone(job[h].act, row, job[h].rank)
     BY <1>0, <2>1, <2>2, <3>2 DEF StillSo, ModerateJob, LeaveJob
   <4>2. job[h].act = "unban" => row.status = "banned" BY <4>1 DEF MayBeDone
   <4>3. job[h].act \in {"promote", "demote"} => row.role # "owner" BY <4>1 DEF MayBeDone
   <4>4. job[h].act \in {"kick", "ban"} => job[h].rank > RoleRank[row.role] BY <4>1 DEF MayBeDone
   <4>5. job[h].act \in {"kick", "ban"} => row.role # "owner" BY <4>1, <4>4, Ranks
   <4> QED BY <2>1, <3>2, <4>2, <4>3, <4>5 DEF Owners, Belongs
  <3> QED BY <3>1, <3>2
 <2>6. new.status = "active" => row.status = "active" BY <2>1, <2>3, DoneToRow
 <2>7. /\ members'[<<f, b>>] = new
       /\ \A c \in Accounts \ {b} : members'[<<f, c>>] = members[<<f, c>>]
   BY <2>3, MemberWritten
 <2>8. Owners(f)' = Owners(f)
  <3> HIDE DEF new
  <3> QED BY <2>4, <2>5, <2>6, <2>7 DEF Owners, Belongs
 <2> QED BY <2>1, <2>8
<1>5. ASSUME SetOwner(h) PROVE Owners(f)' = Owners(f) /\ families'[f].owner = job[h].target
 <2>1. PICK b \in Accounts : b = job[h].target /\ families[f] \in FamilyRow
   BY <1>0, <1>5, OwnerWrites DEF ModerateJob
 <2>2. UNCHANGED members /\ families' = [families EXCEPT ![f].owner = b] BY <1>0, <1>5, <2>1 DEF SetOwner
 <2>3. families'[f].owner = b BY <2>1, <2>2 DEF FamiliesTyped, FamilyRow
 <2> QED BY <1>5, <2>1, <2>2, <2>3 DEF Owners, Belongs
<1>6. ASSUME RaiseNewOwner(h)
      PROVE  Owners(f)' = Owners(f) \cup {job[h].target} /\ families'[f] = families[f]
 <2>1. job[h] \in ModerateJob /\ job[h].act = "transfer" /\ job[h].at = "newRole" /\ families' = families
       /\ job[h].op = "moderate"
   BY <1>6, RoleWrites
 <2>2. PICK b \in Accounts : b = job[h].target BY <2>1 DEF ModerateJob
 <2> DEFINE new == [members[<<f, b>>] EXCEPT !.role = "owner"]
 <2>3. /\ new \in MemberRow /\ new.status = members[<<f, b>>].status /\ new.role = "owner"
       /\ members' = [members EXCEPT ![<<f, b>>] = new]
   BY <1>0, <1>6, <2>2, RoleWrites
 <2> HIDE DEF new
 <2>4. /\ members'[<<f, b>>] = new
       /\ \A c \in Accounts \ {b} : members'[<<f, c>>] = members[<<f, c>>]
   BY <2>3, MemberWritten
 <2>5. members[<<f, b>>].status = "active" BY <1>0, <2>1, <2>2 DEF StillSo
 <2>6. Owners(f)' = Owners(f) \cup {b} BY <2>3, <2>4, <2>5 DEF Owners, Belongs
 <2> QED BY <1>6, <2>1, <2>2, <2>6
<1>7. ASSUME LowerOldOwner(h)
      PROVE  Owners(f)' = Owners(f) \ {job[h].account} /\ families'[f] = families[f]
 <2>0. ~RaiseNewOwner(h) BY <1>7 DEF RaiseNewOwner, LowerOldOwner, Doing
 <2>1. job[h] \in ModerateJob /\ families' = families BY <1>7, RoleWrites
 <2>2. PICK b \in Accounts : b = job[h].account BY <2>1 DEF ModerateJob
 <2> DEFINE new == [members[<<f, b>>] EXCEPT !.role = "admin"]
 <2>3. /\ new \in MemberRow /\ new.role = "admin"
       /\ members' = [members EXCEPT ![<<f, b>>] = new]
   BY <1>0, <1>7, <2>0, <2>2, RoleWrites
 <2> HIDE DEF new
 <2>4. /\ members'[<<f, b>>] = new
       /\ \A c \in Accounts \ {b} : members'[<<f, c>>] = members[<<f, c>>]
   BY <2>3, MemberWritten
 <2>5. Owners(f)' = Owners(f) \ {b} BY <2>3, <2>4 DEF Owners, Belongs
 <2> QED BY <1>7, <2>1, <2>2, <2>5
<1>8. ASSUME AddContribution(h) PROVE Same
 <2>1. PICK a \in Accounts : a = job[h].account BY <1>8, ContributionWrites DEF DonateJob
 <2> DEFINE new == [members[<<f, a>>] EXCEPT !.contribution = @ + DonationCoins]
 <2>2. /\ new \in MemberRow /\ new.status = members[<<f, a>>].status /\ new.role = members[<<f, a>>].role
       /\ members' = [members EXCEPT ![<<f, a>>] = new]
       /\ families[f] \in FamilyRow /\ families'[f].owner = families[f].owner
   BY <1>0, <1>8, <2>1, ContributionWrites
 <2> HIDE DEF new
 <2>3. /\ members'[<<f, a>>] = new
       /\ \A c \in Accounts \ {a} : members'[<<f, c>>] = members[<<f, c>>]
   BY <2>2, MemberWritten
 <2>4. Owners(f)' = Owners(f) BY <2>2, <2>3 DEF Owners, Belongs
 <2> QED BY <2>2, <2>4, RowsOfFamilies
<1>9. ASSUME InsertOffer(h) \/ MarkJoined(h) \/ Withdraw(h) \/ DebitDonation(h) PROVE Same
  BY <1>1, <1>9 DEF InsertOffer, MarkJoined, Withdraw, DebitDonation, familyVars
<1> QED BY <1>1, <1>2, <1>3, <1>4, <1>5, <1>6, <1>7, <1>8, <1>9, Reads DEF Writes

\* A transfer that has begun goes on to its next write or is cut off.
LEMMA TransferGoesOn ==
  ASSUME NEW h \in Handlers, FamilyMove(h), job[h].op = "moderate", job[h].at \in {"newRole", "oldRole"}
  PROVE  RaiseNewOwner(h) \/ LowerOldOwner(h) \/ Break(h)
<1>1. ~(CreateFamily(h) \/ CheckTarget(h) \/ CheckNoneWaits(h) \/ InsertOffer(h) \/ NotifyOffer(h))
  BY DEF CreateFamily, CheckTarget, CheckNoneWaits, InsertOffer, NotifyOffer, Doing
<1>2. ~(CheckFree(h) \/ FindMember(h) \/ Join(h) \/ MarkJoined(h) \/ NotifyJoin(h))
  BY DEF CheckFree, FindMember, Join, MarkJoined, NotifyJoin, Doing
<1>3. ~(CheckRevoker(h) \/ Withdraw(h) \/ CheckModerated(h) \/ WriteMember(h) \/ SetOwner(h))
  BY DEF CheckRevoker, Withdraw, CheckModerated, WriteMember, SetOwner, Doing
<1>4. ~(DebitDonation(h) \/ AddContribution(h) \/ Ready(h))
  BY DEF DebitDonation, AddContribution, Doing, Ready, Idle
<1> QED BY <1>1, <1>2, <1>3, <1>4 DEF FamilyMove, FamilyStep, Interrupted

\* A family with one request at a time keeps its owner in place.
LEMMA UncontendedStays ==
  ASSUME FamilyInv, NEW h \in Handlers, FamilyMove(h)
  PROVE  Uncontended'
<1> USE DEF FamilyInv
<1> SUFFICES ASSUME NEW f \in FamilyIds \ contended'
             PROVE  /\ \A g, k \in Handlers : Serves(g, f)' /\ Serves(k, f)' => g = k
                    /\ \A g \in Handlers : Serves(g, f)' => StillSo(g)'
                    /\ families'[f] # NoFamily =>
                         /\ Owners(f)' # {}
                         /\ \/ f \in dropped'
                            \/ (\A g \in Handlers : ~Serves(g, f)') /\ Owners(f)' = {families'[f].owner}
                            \/ \E g \in Handlers : Serves(g, f)' /\ Owners(f)' = OwnersAre(g, f)'
  BY DEF Uncontended
<1> DEFINE InPlace ==
      /\ Owners(f)' # {}
      /\ \/ f \in dropped'
         \/ (\A g \in Handlers : ~Serves(g, f)') /\ Owners(f)' = {families'[f].owner}
         \/ \E g \in Handlers : Serves(g, f)' /\ Owners(f)' = OwnersAre(g, f)'
<1>1. /\ f \in FamilyIds \ contended
      /\ \A g \in Handlers \ {h} : Serves(g, f)' <=> Serves(g, f)
      /\ \A g, k \in Handlers : Serves(g, f)' /\ Serves(k, f)' => g = k
      /\ Serves(h, f)' => Taken(h) \/ GoesOn(h)
      /\ GoesOn(h) => (Serves(h, f)' <=> Serves(h, f))
      /\ Taken(h) /\ Serves(h, f)' => \A g \in Handlers : ~Serves(g, f)
  BY OneServes
<1>2. ASSUME NEW g \in Handlers, Serves(g, f)' PROVE StillSo(g)' BY <1>1, <1>2, OthersStillSo, OwnStillSo
<1>3. dropped \subseteq dropped' BY IdsGrow
<1>4. families[f] # NoFamily =>
        /\ Owners(f) # {}
        /\ \/ f \in dropped
           \/ (\A g \in Handlers : ~Serves(g, f)) /\ Owners(f) = {families[f].owner}
           \/ \E g \in Handlers : Serves(g, f) /\ Owners(f) = OwnersAre(g, f)
  BY <1>1 DEF Uncontended
<1>5. ASSUME ~Serves(h, f), families'[f] # NoFamily PROVE InPlace
 <2>1. families'[f] = families[f] /\ Owners(f)' = Owners(f) BY <1>1, <1>5, RowsOfOthers DEF Owners, Belongs
 <2>2. CASE f \in dropped BY <1>3, <1>4, <1>5, <2>1, <2>2
 <2>3. CASE (\A g \in Handlers : ~Serves(g, f)) /\ Owners(f) = {families[f].owner}
  <3>1. CASE Serves(h, f)'
   <4>1. Taken(h) BY <1>1, <1>5, <3>1
   <4>2. ~(job'[h].op = "moderate" /\ job'[h].at \in {"newRole", "oldRole"}) BY <4>1 DEF Taken
   <4>3. OwnersAre(h, f)' = {families'[f].owner} BY <4>2 DEF OwnersAre
   <4> QED BY <2>1, <2>3, <3>1, <4>3
  <3>2. CASE ~Serves(h, f)' BY <1>1, <2>1, <2>3, <3>2
  <3> QED BY <3>1, <3>2
 <2>4. ASSUME NEW g \in Handlers, Serves(g, f), Owners(f) = OwnersAre(g, f) PROVE InPlace
  <3>1. g # h /\ Serves(g, f)' /\ job'[g] = job[g] BY <1>1, <1>5, <2>4, RequestsTyped
  <3>2. OwnersAre(g, f)' = OwnersAre(g, f) BY <2>1, <2>4, <3>1 DEF OwnersAre
  <3> QED BY <1>4, <1>5, <2>1, <2>4, <3>1, <3>2
 <2> QED BY <1>4, <1>5, <2>1, <2>2, <2>3, <2>4
<1>6. ASSUME Serves(h, f), families'[f] # NoFamily PROVE InPlace
 <2>1. /\ job[h] # Idle /\ job[h].family = f /\ StillSo(h)
       /\ \A g \in Handlers \ {h} : ~Serves(g, f) /\ ~Serves(g, f)'
       /\ families[f] # NoFamily => Owners(f) # {} /\ (f \in dropped \/ Owners(f) = OwnersAre(h, f))
   BY <1>1, <1>4, <1>6 DEF Uncontended, Serves
 <2>2. job'[h] = Idle \/ (GoesOn(h) /\ Serves(h, f)') BY <1>1, <1>6, <2>1, Continues DEF Taken
 <2>3. job'[h] = Idle => \A g \in Handlers : ~Serves(g, f)' BY <2>1 DEF Serves
 <2>4. CASE CreateFamily(h) /\ Owners(f)' = {job[h].account} /\ families'[f].owner = job[h].account
   BY <2>3, <2>4, CreateWrites
 <2>5. CASE SetOwner(h)
  <3>1. /\ job[h] \in ModerateJob /\ job[h].op = "moderate" /\ job[h].at = "owner"
        /\ families[f] \in FamilyRow /\ Goto(h, "newRole")
    BY <2>1, <2>5, OwnerWrites
  <3>2. job'[h] = [job[h] EXCEPT !.at = "newRole"] /\ job[h] \in FamilyJobs
    BY <2>1, <3>1, OneMoves DEF FamilyJobsTyped
  <3>3. /\ job'[h].at = "newRole" /\ job'[h].op = "moderate" /\ job'[h].act = job[h].act
        /\ job'[h].account = job[h].account
   <4>1. job[h] \notin OfferJob BY <3>1 DEF OfferJob
   <4> QED BY <3>1, <3>2, <4>1, SameRequest
  <3>4. job'[h] # Idle /\ Serves(h, f)' BY <2>2, <3>3 DEF Idle
  <3>5. job[h].act = "transfer" BY <3>1 DEF FamilyJobsTyped, ModerationFits
  <3>6. job[h].account \in Owners(f)'
   <4>1. StillSo(h)' /\ job'[h].family = f BY <1>2, <3>4 DEF Serves
   <4>2. job'[h].account \in Owners(f)' BY <3>3, <3>5, <4>1 DEF StillSo
   <4> QED BY <3>3, <4>2
  <3>7. Owners(f)' = Owners(f) BY <1>1, <1>6, <2>5, OwnersMove
  <3>8. OwnersAre(h, f) = {families[f].owner} /\ families[f] # NoFamily
    BY <3>1, RowsOfFamilies DEF OwnersAre
  <3>9. OwnersAre(h, f)' = {job[h].account} BY <3>3, <3>4 DEF OwnersAre
  <3>10. f \in dropped \/ Owners(f)' = {job[h].account} BY <2>1, <3>6, <3>7, <3>8
  <3> QED BY <1>3, <3>4, <3>6, <3>9, <3>10
 <2>6. CASE RaiseNewOwner(h)
  <3>1. /\ job[h] \in ModerateJob /\ job[h].op = "moderate" /\ job[h].at = "newRole"
        /\ Goto(h, "oldRole")
    BY <2>6, RoleWrites
  <3>2. job'[h] = [job[h] EXCEPT !.at = "oldRole"] /\ job[h] \in FamilyJobs
    BY <2>1, <3>1, OneMoves DEF FamilyJobsTyped
  <3>3. /\ job'[h].at = "oldRole" /\ job'[h].op = "moderate"
        /\ job'[h].account = job[h].account /\ job'[h].target = job[h].target
   <4>1. job[h] \notin OfferJob BY <3>1 DEF OfferJob
   <4> QED BY <3>1, <3>2, <4>1, SameRequest
  <3>4. job'[h] # Idle /\ Serves(h, f)' BY <2>2, <3>3 DEF Idle
  <3>5. Owners(f)' = Owners(f) \cup {job[h].target} /\ families'[f] = families[f]
    BY <1>1, <1>6, <2>6, OwnersMove
  <3>6. OwnersAre(h, f) = {job[h].account} BY <1>6, <3>1 DEF OwnersAre
  <3>7. OwnersAre(h, f)' = {job[h].account, job[h].target} BY <3>3, <3>4 DEF OwnersAre
  <3>8. f \in dropped \/ Owners(f)' = OwnersAre(h, f)' BY <1>6, <2>1, <3>5, <3>6, <3>7
  <3> QED BY <1>3, <3>4, <3>5, <3>8
 <2>7. CASE LowerOldOwner(h)
  <3>0. ~RaiseNewOwner(h) BY <2>7 DEF RaiseNewOwner, LowerOldOwner, Doing
  <3>1. /\ job[h] \in ModerateJob /\ job[h].op = "moderate" /\ job[h].at = "oldRole"
        /\ job[h].account # job[h].target /\ job[h].act = "transfer" /\ Finish(h)
    BY <2>7, <3>0, RoleWrites
  <3>2. job'[h] = Idle BY <3>1, OneMoves DEF FamilyJobsTyped
  <3>3. Owners(f)' = Owners(f) \ {job[h].account} /\ families'[f] = families[f]
    BY <1>1, <1>6, <2>7, OwnersMove
  <3>4. OwnersAre(h, f) = {job[h].account, job[h].target} BY <1>6, <3>1 DEF OwnersAre
  <3>5. {job[h].account, job[h].target} \subseteq Owners(f) /\ families[f].owner = job[h].target
    BY <2>1, <3>1 DEF StillSo
  <3>6. job[h].target \in Owners(f)' BY <3>1, <3>3, <3>5
  <3>7. f \in dropped \/ Owners(f)' = {families'[f].owner} BY <1>6, <2>1, <3>1, <3>3, <3>4, <3>5
  <3> QED BY <1>3, <2>3, <3>2, <3>6, <3>7
 <2>8. CASE /\ Owners(f)' = Owners(f) /\ families'[f].owner = families[f].owner
            /\ families[f] = NoFamily => families'[f] = NoFamily
            /\ ~(SetOwner(h) \/ RaiseNewOwner(h) \/ LowerOldOwner(h))
  <3>1. Owners(f)' # {} /\ (f \in dropped \/ Owners(f)' = OwnersAre(h, f)) BY <1>6, <2>1, <2>8
  <3>2. CASE job[h].op = "moderate" /\ job[h].at \in {"newRole", "oldRole"}
   <4>1. Break(h) BY <2>8, <3>2, TransferGoesOn
   <4>2. job[h].key = f BY <2>1, <3>2 DEF FamilyJobsTyped, ModerationFits
   <4> QED BY <3>1, <4>1, <4>2 DEF Break
  <3>3. CASE ~(job[h].op = "moderate" /\ job[h].at \in {"newRole", "oldRole"})
   <4>1. OwnersAre(h, f) = {families[f].owner} BY <3>3 DEF OwnersAre
   <4>2. ASSUME GoesOn(h), Serves(h, f)' PROVE OwnersAre(h, f)' = {families'[f].owner}
    <5>1. ~(job'[h].op = "moderate" /\ job'[h].at \in {"newRole", "oldRole"}) BY <2>8, <4>2 DEF GoesOn
    <5> QED BY <5>1 DEF OwnersAre
   <4> QED BY <1>3, <2>2, <2>3, <2>8, <3>1, <4>1, <4>2
  <3> QED BY <3>2, <3>3
 <2> QED BY <1>1, <1>6, <2>4, <2>5, <2>6, <2>7, <2>8, OwnersMove
<1> QED BY <1>1, <1>2, <1>5, <1>6
-----------------------------
\* What an account contributed to a family.
Gave(f, a) == members[<<f, a>>].contribution

\* Only a contribution changes what was contributed, a family's points and
\* its level.
LEMMA OnlyContributions ==
  ASSUME FamilyInv, NEW h \in Handlers, FamilyMove(h), ~AddContribution(h)
  PROVE  /\ \A f \in FamilyIds : families'[f].xp = families[f].xp /\ families'[f].level = families[f].level
         /\ \A f \in FamilyIds, a \in Accounts : Gave(f, a)' = Gave(f, a)
<1> USE DEF FamilyInv
<1>0. ASSUME NEW f \in FamilyIds, NEW a \in Accounts, NEW row \in MemberRow,
             members' = [members EXCEPT ![<<f, a>>] = row],
             row.contribution = members[<<f, a>>].contribution
      PROVE  \A g \in FamilyIds, b \in Accounts : Gave(g, b)' = Gave(g, b)
 <2>1. /\ members'[<<f, a>>] = row
       /\ \A g \in FamilyIds, b \in Accounts : g # f \/ b # a => members'[<<g, b>>] = members[<<g, b>>]
   BY <1>0, MemberWritten
 <2>2. ASSUME NEW g \in FamilyIds, NEW b \in Accounts
       PROVE  Gave(g, b)' = Gave(g, b)
  <3>1. CASE g = f /\ b = a BY <1>0, <2>1, <3>1 DEF Gave
  <3> QED BY <2>1, <3>1 DEF Gave
 <2> QED BY <2>2
<1>1. CASE CreateFamily(h) /\ ~UNCHANGED <<families, members>>
 <2>1. PICK f \in FamilyIds, a \in Accounts :
         /\ families[f] = NoFamily
         /\ families' = [families EXCEPT ![f] = [owner |-> a, xp |-> 0, level |-> 0]]
         /\ members' = [members EXCEPT ![<<f, a>>] =
                          [role |-> "owner", status |-> "active", contribution |-> 0]]
   BY <1>1, CreateWrites
 <2> DEFINE row == [role |-> "owner", status |-> "active", contribution |-> 0]
            new == [owner |-> a, xp |-> 0, level |-> 0]
 <2>2. row \in MemberRow /\ row.contribution = 0 /\ new.xp = 0 /\ new.level = 0 BY DEF MemberRow
 <2>3. members' = [members EXCEPT ![<<f, a>>] = row] /\ families' = [families EXCEPT ![f] = new] BY <2>1
 <2>4. members[<<f, a>>].contribution = 0 /\ families[f].xp = 0 /\ families[f].level = 0
   BY <2>1 DEF RowsFounded, NoMember, NoFamily
 <2> HIDE DEF row, new
 <2>5. \A g \in FamilyIds, b \in Accounts : Gave(g, b)' = Gave(g, b)
  <3>1. row.contribution = members[<<f, a>>].contribution BY <2>2, <2>4
  <3> QED BY <1>0, <2>2, <2>3, <3>1
 <2> QED BY <2>2, <2>3, <2>4, <2>5 DEF FamiliesTyped
<1>2. CASE Join(h)
 <2>1. PICK f \in FamilyIds, a \in Accounts : f = job[h].family /\ a = job[h].account
   BY <1>2, JoinWrites DEF JoinJob
 <2> DEFINE row == [role |-> "member", status |-> "active",
                    contribution |-> members[<<f, a>>].contribution]
 <2>2. /\ families' = families
       /\ \/ UNCHANGED members
          \/ row \in MemberRow /\ members' = [members EXCEPT ![<<f, a>>] = row]
   BY <1>2, <2>1, JoinWrites
 <2>3. row.contribution = members[<<f, a>>].contribution OBVIOUS
 <2> HIDE DEF row
 <2>4. ASSUME row \in MemberRow, members' = [members EXCEPT ![<<f, a>>] = row]
       PROVE  \A g \in FamilyIds, b \in Accounts : Gave(g, b)' = Gave(g, b)
   BY <1>0, <2>3, <2>4
 <2>5. UNCHANGED members => \A g \in FamilyIds, b \in Accounts : Gave(g, b)' = Gave(g, b) BY DEF Gave
 <2> QED BY <2>2, <2>4, <2>5
<1>3. CASE WriteMember(h)
 <2>1. PICK f \in FamilyIds, b \in Accounts : f = job[h].family /\ b = job[h].target
   BY <1>3, MemberWrites DEF ModerateJob, LeaveJob
 <2>2. PICK new \in MemberRow :
         /\ new = Done(job[h].act, members[<<f, b>>]) /\ members[<<f, b>>] \in MemberRow
         /\ members' = [members EXCEPT ![<<f, b>>] = new] /\ families' = families
         /\ job[h].act \in {"kick", "ban", "unban", "promote", "demote", "leave"}
   BY <1>3, <2>1, MemberWrites
 <2>3. new.contribution = members[<<f, b>>].contribution BY <2>2, DoneToRow
 <2> QED BY <1>0, <2>2, <2>3
<1>4. CASE SetOwner(h)
 <2>1. UNCHANGED members /\ families' = [families EXCEPT ![job[h].family].owner = job[h].target]
   BY <1>4 DEF SetOwner
 <2>2. families[job[h].family] \in FamilyRow /\ job[h].family \in FamilyIds
   BY <1>4, OwnerWrites DEF ModerateJob
 <2> QED BY <2>1, <2>2 DEF FamiliesTyped, FamilyRow, Gave
<1>5. CASE RaiseNewOwner(h) \/ LowerOldOwner(h)
 <2>1. job[h] \in ModerateJob /\ families' = families BY <1>5, RoleWrites
 <2>2. PICK f \in FamilyIds, a \in Accounts :
         f = job[h].family /\ a = IF RaiseNewOwner(h) THEN job[h].target ELSE job[h].account
   BY <2>1 DEF ModerateJob
 <2> DEFINE new == [members[<<f, a>>] EXCEPT !.role = IF RaiseNewOwner(h) THEN "owner" ELSE "admin"]
 <2>3. /\ new \in MemberRow /\ new.contribution = members[<<f, a>>].contribution
       /\ members' = [members EXCEPT ![<<f, a>>] = new]
   BY <1>5, <2>2, RoleWrites
 <2> HIDE DEF new
 <2> QED BY <1>0, <2>1, <2>3
<1>6. CASE InsertOffer(h) \/ MarkJoined(h) \/ Withdraw(h) \/ DebitDonation(h)
  BY <1>6 DEF InsertOffer, MarkJoined, Withdraw, DebitDonation, familyVars, Gave
<1> QED BY <1>1, <1>2, <1>3, <1>4, <1>5, <1>6, Reads DEF Writes, Gave

\* What a contribution adds.
LEMMA ContributionAdds ==
  ASSUME FamilyInv, NEW h \in Handlers, AddContribution(h)
  PROVE  LET f == job[h].family
             a == job[h].account IN
         /\ f \in FamilyIds /\ a \in Accounts
         /\ families'[f].xp = families[f].xp + DonationCoins
         /\ LevelReached(families'[f].level, FamilyFactor, families'[f].xp)
         /\ \A g \in FamilyIds \ {f} : families'[g] = families[g]
         /\ members'[<<f, a>>].contribution = members[<<f, a>>].contribution + DonationCoins
         /\ \A g \in FamilyIds, b \in Accounts : g # f \/ b # a => members'[<<g, b>>] = members[<<g, b>>]
         /\ job'[h] = Idle /\ dropped' = dropped /\ ledger' = ledger
<1> USE DEF FamilyInv
<1>1. PICK f \in FamilyIds, a \in Accounts : f = job[h].family /\ a = job[h].account
  BY ContributionWrites DEF DonateJob
<1> DEFINE new == [members[<<f, a>>] EXCEPT !.contribution = @ + DonationCoins]
<1>2. /\ new \in MemberRow /\ new.contribution = members[<<f, a>>].contribution + DonationCoins
      /\ members' = [members EXCEPT ![<<f, a>>] = new]
  BY <1>1, ContributionWrites
<1> HIDE DEF new
<1>3. /\ members'[<<f, a>>] = new
      /\ \A g \in FamilyIds, b \in Accounts : g # f \/ b # a => members'[<<g, b>>] = members[<<g, b>>]
  BY <1>2, MemberWritten
<1>4. /\ families'[f] \in FamilyRow /\ families' = [families EXCEPT ![f] = families'[f]]
      /\ families'[f].xp = families[f].xp + DonationCoins
      /\ LevelReached(families'[f].level, FamilyFactor, families'[f].xp)
      /\ Finish(h) /\ ledger' = ledger
  BY <1>1, ContributionWrites
<1>5. \A g \in FamilyIds \ {f} : families'[g] = families[g] BY <1>4 DEF FamiliesTyped
<1>6. job'[h] = Idle /\ dropped' = dropped BY <1>4, OneMoves DEF FamilyJobsTyped
<1> QED BY <1>1, <1>2, <1>3, <1>4, <1>5, <1>6

\* What members contributed are numbers.
LEMMA ContributionsTyped ==
  ASSUME FamiliesTyped, NEW f \in FamilyIds, NEW a \in Accounts
  PROVE  Gave(f, a) \in Nat /\ families[f].xp \in Nat
<1>1. NoMember.contribution = 0 /\ NoFamily.xp = 0 BY DEF NoMember, NoFamily
<1>2. \A row \in MemberRow : row.contribution \in Nat BY DEF MemberRow
<1>3. families[f] \in {NoFamily} \cup FamilyRow /\ \A row \in FamilyRow : row.xp \in Nat
  BY DEF FamiliesTyped, FamilyRow
<1> QED BY <1>1, <1>2, <1>3, RowsOfFamilies DEF Gave

\* A family's points stay the sum of what its members contributed.
LEMMA PointsStay ==
  ASSUME FamilyInv, NEW h \in Handlers, FamilyMove(h)
  PROVE  PointsCount'
<1> USE DEF FamilyInv
<1> DEFINE Con(f) == [a \in Accounts |-> Gave(f, a)]
           Next(f) == [a \in Accounts |-> Gave(f, a)']
<1>1. IsFiniteSet(Accounts) /\ FamiliesTyped' /\ DonationCoins \in Nat
  BY GroupsFinite, Effects, DonationIsAmount, AmountsPositive DEF Effect
<1>2. ASSUME NEW f \in FamilyIds
      PROVE  /\ \A a \in Accounts : Con(f)[a] \in Int /\ Next(f)[a] \in Int
             /\ families[f].xp = SumFunctionOnSet(Con(f), Accounts)
             /\ LevelReached(families[f].level, FamilyFactor, families[f].xp)
 <2>1. ASSUME NEW a \in Accounts PROVE Gave(f, a) \in Nat BY ContributionsTyped
 <2>2. ASSUME NEW a \in Accounts PROVE Gave(f, a)' \in Nat
  <3>1. <<f, a>> \in FamilyIds \X Accounts OBVIOUS
  <3>2. members'[<<f, a>>] \in {NoMember} \cup MemberRow BY <1>1, <3>1 DEF FamiliesTyped
  <3> QED BY <3>2 DEF NoMember, MemberRow, Gave
 <2>3. \A a \in Accounts : Con(f)[a] \in Int /\ Next(f)[a] \in Int BY <2>1, <2>2
 <2> QED BY <2>3 DEF PointsCount, PointsOf, Gave
<1>3. ASSUME NEW f \in FamilyIds
      PROVE  /\ families'[f].xp = SumFunctionOnSet(Next(f), Accounts)
             /\ LevelReached(families'[f].level, FamilyFactor, families'[f].xp)
 <2>1. CASE \/ ~AddContribution(h)
            \/ AddContribution(h) /\ f # job[h].family
  <3>1. /\ families'[f].xp = families[f].xp /\ families'[f].level = families[f].level
        /\ \A a \in Accounts : Gave(f, a)' = Gave(f, a)
    BY <2>1, OnlyContributions, ContributionAdds DEF Gave
  <3>2. SumFunctionOnSet(Next(f), Accounts) = SumFunctionOnSet(Con(f), Accounts)
   <4>1. Next(f) = Con(f) BY <3>1
   <4> QED BY <4>1
  <3> QED BY <1>2, <3>1, <3>2
 <2>2. CASE AddContribution(h) /\ f = job[h].family
  <3>1. PICK a \in Accounts : a = job[h].account BY <2>2, ContributionAdds
  <3>2. /\ families'[f].xp = families[f].xp + DonationCoins
        /\ LevelReached(families'[f].level, FamilyFactor, families'[f].xp)
        /\ members'[<<f, a>>].contribution = members[<<f, a>>].contribution + DonationCoins
        /\ \A b \in Accounts \ {a} : members'[<<f, b>>] = members[<<f, b>>]
    BY <2>2, <3>1, ContributionAdds
  <3>3. Next(f)[a] = Con(f)[a] + DonationCoins /\ \A b \in Accounts \ {a} : Next(f)[b] = Con(f)[b]
    BY <3>2 DEF Gave
  <3>4. SumFunctionOnSet(Con(f), Accounts) \in Int
   <4>1. \A b \in Accounts : Con(f)[b] \in Int BY <1>2
   <4> HIDE DEF Con
   <4> QED BY <1>1, <4>1, SumInt
  <3>5. SumFunctionOnSet(Next(f), Accounts) = SumFunctionOnSet(Con(f), Accounts) - Con(f)[a] + Next(f)[a]
   <4>1. \A b \in Accounts : Con(f)[b] \in Int /\ Next(f)[b] \in Int BY <1>2
   <4> HIDE DEF Con, Next
   <4> QED BY <1>1, <3>3, <4>1, SumExcept
  <3>6. SumFunctionOnSet(Next(f), Accounts) = SumFunctionOnSet(Con(f), Accounts) + DonationCoins
   <4>1. Con(f)[a] \in Int /\ Next(f)[a] \in Int BY <1>2
   <4> HIDE DEF Con, Next
   <4> QED BY <1>1, <3>3, <3>4, <3>5, <4>1
  <3> QED BY <1>2, <3>2, <3>6
 <2> QED BY <2>1, <2>2
<1> QED BY <1>3 DEF PointsCount, PointsOf, Gave

\* Donations of an account that were added to what it contributed.
Counted(a) == Debits(a) \ Pending(a)

\* A donation counts from its contribution on, or when its request is cut off
\* before.
LEMMA CountedMove ==
  ASSUME FamilyInv, NEW h \in Handlers, FamilyMove(h), NEW a \in Accounts
  PROVE  /\ Counted(a) \subseteq Counted(a)'
         /\ \A n \in Counted(a)' \ Counted(a) :
              \/ n \in dropped'
              \/ AddContribution(h) /\ n = job[h].key /\ a = job[h].account
         /\ AddContribution(h) /\ a = job[h].account => job[h].key \in Counted(a)' \ Counted(a)
<1> USE DEF FamilyInv
<1> DEFINE Waits(g, n) == job[g].op = "donate" /\ job[g].key = n /\ job[g].at = "contribute"
           WaitsNext(g, n) == job'[g].op = "donate" /\ job'[g].key = n /\ job'[g].at = "contribute"
<1>1. \A n : /\ n \in Counted(a) <=> n \in DonationIds /\ a \in Payers(n) /\ \A g \in Handlers : ~Waits(g, n)
             /\ n \in Counted(a)' <=>
                  n \in DonationIds /\ a \in Payers(n)' /\ \A g \in Handlers : ~WaitsNext(g, n)
  BY DEF Counted, Debits, Pending, InFlight
<1>2. \A g \in Handlers \ {h} : job'[g] = job[g] BY RequestsTyped
<1>3. \A n \in DonationIds : \/ Payers(n)' = Payers(n)
                             \/ job[h].op = "donate" /\ job[h].at = "debit" /\ job[h].key = n
  BY Effects DEF Effect
<1>4. ASSUME NEW n \in DonationIds, job[h].op = "donate", job[h].key = n
      PROVE  /\ Payers(n) = IF job[h].at = "debit" THEN {} ELSE {job[h].account}
             /\ \A g \in Handlers : job[g].op = "donate" /\ job[g].key = n => g = h
             /\ job[h].at \in {"debit", "contribute"} /\ job[h].account \in Accounts
 <2>1. JobFresh(h) /\ job[h] \in DonateJob BY <1>4, FamilyKinds
 <2>2. \A m : m = job[h].key => Payers(m) = IF job[h].at = "debit" THEN {} ELSE {job[h].account}
   BY <1>4, <2>1 DEF JobFresh
 <2> QED BY <1>4, <2>1, <2>2 DEF JobFresh, DonateJob
<1>5. job'[h] = Idle \/ Taken(h) \/ GoesOn(h) BY Continues
<1>6. ASSUME NEW n \in DonationIds, WaitsNext(h, n)
      PROVE  job[h].op = "donate" /\ job[h].key = n /\ job[h].at = "debit"
 <2>1. job'[h] # Idle BY <1>6 DEF Idle
 <2>2. ~Taken(h) BY <1>6 DEF Taken
 <2> QED BY <1>5, <1>6, <2>1, <2>2 DEF GoesOn
<1>7. ASSUME NEW n \in Counted(a) PROVE n \in Counted(a)'
 <2>1. n \in DonationIds /\ a \in Payers(n) /\ \A g \in Handlers : ~Waits(g, n) BY <1>1
 <2>2. ~(job[h].op = "donate" /\ job[h].key = n /\ job[h].at = "debit") BY <1>4, <2>1
 <2>3. a \in Payers(n)' BY <1>3, <2>1, <2>2
 <2>4. ASSUME NEW g \in Handlers PROVE ~WaitsNext(g, n) BY <1>2, <1>6, <2>1, <2>2
 <2> HIDE DEF WaitsNext, Waits
 <2> QED BY <1>1, <2>1, <2>3, <2>4
<1>8. ASSUME NEW n \in Counted(a)', n \notin Counted(a)
      PROVE  \/ n \in dropped'
             \/ AddContribution(h) /\ n = job[h].key /\ a = job[h].account
 <2>1. n \in DonationIds /\ a \in Payers(n)' /\ \A g \in Handlers : ~WaitsNext(g, n) BY <1>1
 <2>2. job[h].op = "donate" /\ job[h].key = n
  <3>1. CASE a \in Payers(n) BY <1>1, <1>2, <1>8, <2>1, <3>1
  <3>2. CASE a \notin Payers(n) BY <1>3, <2>1, <3>2
  <3> QED BY <3>1, <3>2
 <2>3. CASE job[h].at = "debit"
  <3>1. DebitDonation(h) \/ UNCHANGED ledger BY LedgerMoves
  <3>2. ~UNCHANGED ledger
   <4>1. Payers(n) = {} BY <1>4, <2>1, <2>2, <2>3
   <4> QED BY <2>1, <4>1, SamePayers
  <3>3. \A m : m = job[h].key =>
          \/ Payers(m)' = {job[h].account} /\ Goto(h, "contribute")
          \/ Payers(m)' = {} /\ Finish(h)
    BY <3>1, <3>2, DebitWrites
  <3>4. Goto(h, "contribute") BY <2>1, <2>2, <3>3
  <3>5. job'[h] = [job[h] EXCEPT !.at = "contribute"] /\ job[h] \in DonateJob
    BY <2>2, <3>4, OneMoves, FamilyKinds DEF FamilyJobsTyped
  <3>6. WaitsNext(h, n) BY <2>2, <3>5 DEF DonateJob
  <3> QED BY <2>1, <3>6
 <2>4. CASE job[h].at = "contribute"
  <3>1. AddContribution(h) \/ Break(h)
   <4>1. ~(CreateFamily(h) \/ CheckTarget(h) \/ CheckNoneWaits(h) \/ InsertOffer(h) \/ NotifyOffer(h))
     BY <2>2 DEF CreateFamily, CheckTarget, CheckNoneWaits, InsertOffer, NotifyOffer, Doing
   <4>2. ~(CheckFree(h) \/ FindMember(h) \/ Join(h) \/ MarkJoined(h) \/ NotifyJoin(h))
     BY <2>2 DEF CheckFree, FindMember, Join, MarkJoined, NotifyJoin, Doing
   <4>3. ~(CheckRevoker(h) \/ Withdraw(h) \/ CheckModerated(h) \/ WriteMember(h) \/ SetOwner(h))
     BY <2>2 DEF CheckRevoker, Withdraw, CheckModerated, WriteMember, SetOwner, Doing
   <4>4. ~(RaiseNewOwner(h) \/ LowerOldOwner(h) \/ DebitDonation(h) \/ Ready(h))
     BY <2>2, <2>4 DEF RaiseNewOwner, LowerOldOwner, DebitDonation, Doing, Ready, Idle
   <4> QED BY <4>1, <4>2, <4>3, <4>4 DEF FamilyMove, FamilyStep, Interrupted
  <3>2. CASE Break(h) BY <2>2, <3>2 DEF Break
  <3>3. CASE AddContribution(h)
   <4>1. Payers(n)' = Payers(n) BY <1>3, <2>1, <2>4
   <4>2. Payers(n) = {job[h].account} BY <1>4, <2>1, <2>2, <2>4
   <4> QED BY <2>1, <2>2, <3>3, <4>1, <4>2
  <3> QED BY <3>1, <3>2, <3>3
 <2> QED BY <1>4, <2>1, <2>2, <2>3, <2>4
<1>9. ASSUME AddContribution(h), a = job[h].account PROVE job[h].key \in Counted(a)' \ Counted(a)
 <2>1. job[h].op = "donate" /\ job[h].at = "contribute" /\ job[h] \in DonateJob /\ job'[h] = Idle
   BY <1>9, ContributionWrites, ContributionAdds
 <2>2. PICK n \in DonationIds : n = job[h].key BY <2>1 DEF DonateJob
 <2>3. Payers(n)' = {a} BY <1>3, <1>4, <1>9, <2>1, <2>2
 <2>4. ASSUME NEW g \in Handlers PROVE ~WaitsNext(g, n)
  <3>1. CASE g = h BY <2>1, <3>1 DEF Idle
  <3>2. CASE g # h BY <1>2, <1>4, <2>1, <2>2, <3>2
  <3> QED BY <3>1, <3>2
 <2>5. Waits(h, n) BY <2>1, <2>2
 <2> HIDE DEF Waits, WaitsNext
 <2> QED BY <1>1, <2>2, <2>3, <2>4, <2>5
<1> QED BY <1>7, <1>8, <1>9

\* More coins for more donations.
LEMMA MoreCoins ==
  ASSUME NEW m \in Nat, NEW n \in Nat
  PROVE  /\ DonationCoins \in Nat /\ DonationCoins * m \in Nat
         /\ m <= n => DonationCoins * m <= DonationCoins * n
         /\ DonationCoins * (m + 1) = DonationCoins * m + DonationCoins
<1>1. DonationCoins \in Nat BY DonationIsAmount, AmountsPositive
<1>2. \A i, j, k \in Nat : k * i \in Nat /\ (i <= j => k * i <= k * j) /\ k * (i + 1) = k * i + k OBVIOUS
<1> QED BY <1>1, <1>2

\* What was given stays what was paid.
LEMMA GivenStaysPaid ==
  ASSUME FamilyInv, NEW h \in Handlers, FamilyMove(h)
  PROVE  GivenIsPaid'
<1> USE DEF FamilyInv
<1> SUFFICES ASSUME NEW a \in Accounts
             PROVE  /\ DonationCoins * Cardinality(Counted(a)' \ dropped') <= Given(a)'
                    /\ Given(a)' <= DonationCoins * Cardinality(Counted(a)')
  BY DEF GivenIsPaid, PaidBy, Counted
<1> DEFINE C == Counted(a)
           D == Counted(a)'
<1>1. /\ DonationCoins * Cardinality(C \ dropped) <= Given(a)
      /\ Given(a) <= DonationCoins * Cardinality(C)
  BY DEF GivenIsPaid, PaidBy, Counted
<1>2. /\ C \subseteq D /\ D \subseteq DonationIds /\ dropped \subseteq dropped'
      /\ \A n \in D \ C : n \in dropped' \/ (AddContribution(h) /\ n = job[h].key /\ a = job[h].account)
      /\ AddContribution(h) /\ a = job[h].account => job[h].key \in D \ C
  BY CountedMove, IdsGrow DEF Counted, Debits
<1>3. /\ IsFiniteSet(D) /\ IsFiniteSet(C) /\ IsFiniteSet(C \ dropped) /\ IsFiniteSet(D \ dropped')
      /\ Cardinality(C) \in Nat /\ Cardinality(D) \in Nat
      /\ Cardinality(C \ dropped) \in Nat /\ Cardinality(D \ dropped') \in Nat
 <2> HIDE DEF C, D
 <2>1. \A S : S \subseteq DonationIds => IsFiniteSet(S) /\ Cardinality(S) \in Nat
   BY GroupsFinite, FS_Subset, FS_CardinalityType
 <2>2. C \subseteq DonationIds /\ C \ dropped \subseteq DonationIds /\ D \ dropped' \subseteq DonationIds
   BY <1>2
 <2> QED BY <1>2, <2>1, <2>2
<1> DEFINE Con == [f \in FamilyIds |-> Gave(f, a)]
           Next == [f \in FamilyIds |-> Gave(f, a)']
<1>4. Given(a) = SumFunctionOnSet(Con, FamilyIds) /\ Given(a)' = SumFunctionOnSet(Next, FamilyIds)
  BY DEF Given, Gave
<1>5. Given(a) \in Int
 <2>1. \A f \in FamilyIds : Con[f] \in Int BY ContributionsTyped
 <2> HIDE DEF Con
 <2> QED BY <1>4, <2>1, GroupsFinite, SumInt
<1>6. CASE ~AddContribution(h) \/ a # job[h].account
 <2>1. Next = Con
  <3>1. \A f \in FamilyIds : Gave(f, a)' = Gave(f, a) BY <1>6, OnlyContributions, ContributionAdds DEF Gave
  <3> QED BY <3>1
 <2>2. D \ dropped' \subseteq C \ dropped BY <1>2, <1>6
 <2>3. Cardinality(D \ dropped') <= Cardinality(C \ dropped) /\ Cardinality(C) <= Cardinality(D)
  <3> HIDE DEF C, D
  <3> QED BY <1>2, <1>3, <2>2, FS_Subset
 <2> HIDE DEF C, D
 <2>4. DonationCoins * Cardinality(D \ dropped') <= DonationCoins * Cardinality(C \ dropped)
   BY <1>3, <2>3, MoreCoins
 <2>5. DonationCoins * Cardinality(C) <= DonationCoins * Cardinality(D) BY <1>3, <2>3, MoreCoins
 <2>6. /\ DonationCoins * Cardinality(D \ dropped') \in Nat /\ DonationCoins * Cardinality(D) \in Nat
       /\ DonationCoins * Cardinality(C \ dropped) \in Nat /\ DonationCoins * Cardinality(C) \in Nat
   BY <1>3, MoreCoins
 <2>7. Given(a)' = Given(a) BY <1>4, <2>1
 <2> QED BY <1>1, <1>5, <2>4, <2>5, <2>6, <2>7 DEF C, D
<1>7. CASE AddContribution(h) /\ a = job[h].account
 <2>1. PICK f \in FamilyIds : f = job[h].family BY <1>7, ContributionAdds
 <2>2. /\ Next[f] = Con[f] + DonationCoins /\ \A g \in FamilyIds \ {f} : Next[g] = Con[g]
       /\ \A g \in FamilyIds : Con[g] \in Int
       /\ dropped' = dropped
   BY <1>7, <2>1, ContributionAdds, ContributionsTyped DEF Gave
 <2>3. DonationCoins \in Nat BY DonationIsAmount, AmountsPositive
 <2>4. Given(a)' = Given(a) + DonationCoins
  <3>1. \A g \in FamilyIds : Con[g] \in Int /\ Next[g] \in Int BY <2>2, <2>3
  <3> HIDE DEF Con, Next
  <3>2. SumFunctionOnSet(Next, FamilyIds) = SumFunctionOnSet(Con, FamilyIds) - Con[f] + Next[f]
    BY <2>2, <3>1, GroupsFinite, SumExcept
  <3> QED BY <1>4, <1>5, <2>2, <2>3, <3>1, <3>2
 <2> DEFINE n == job[h].key
 <2>5. n \in D \ C /\ D \ dropped' \subseteq (C \ dropped) \cup {n} BY <1>2, <1>7, <2>2
 <2> HIDE DEF C, D, n
 <2>6. /\ Cardinality(C \cup {n}) = Cardinality(C) + 1
       /\ Cardinality((C \ dropped) \cup {n}) = Cardinality(C \ dropped) + 1
       /\ IsFiniteSet((C \ dropped) \cup {n})
   BY <1>3, <2>5, FS_AddElement
 <2>7. Cardinality(C) + 1 <= Cardinality(D) BY <1>2, <1>3, <2>5, <2>6, FS_Subset
 <2>8. Cardinality(D \ dropped') <= Cardinality(C \ dropped) + 1 BY <2>5, <2>6, FS_Subset
 <2>9. DonationCoins * (Cardinality(C) + 1) <= DonationCoins * Cardinality(D) BY <1>3, <2>7, MoreCoins
 <2>10. DonationCoins * Cardinality(D \ dropped') <= DonationCoins * (Cardinality(C \ dropped) + 1)
   BY <1>3, <2>8, MoreCoins
 <2>11. /\ DonationCoins * (Cardinality(C) + 1) = DonationCoins * Cardinality(C) + DonationCoins
        /\ DonationCoins * (Cardinality(C \ dropped) + 1) =
             DonationCoins * Cardinality(C \ dropped) + DonationCoins
        /\ DonationCoins * Cardinality(D \ dropped') \in Nat /\ DonationCoins * Cardinality(D) \in Nat
        /\ DonationCoins * Cardinality(C \ dropped) \in Nat /\ DonationCoins * Cardinality(C) \in Nat
   BY <1>3, MoreCoins
 <2> QED BY <1>1, <1>5, <2>3, <2>4, <2>9, <2>10, <2>11 DEF C, D
<1> QED BY <1>6, <1>7

\* The families' invariant is kept.
LEMMA FamilyInvStays ==
  ASSUME FamilyInv, NEW h \in Handlers, FamilyMove(h)
  PROVE  FamilyInv'
<1>1. FamilyJobsTyped' /\ Books' /\ FamiliesTyped' BY RequestsTyped, Effects DEF Effect
<1>2. \A g \in Handlers : JobFounded(g)' /\ JobFresh(g)' BY OthersFounded, OthersFresh, OwnFounded, OwnFresh
<1>3. RowsFounded' /\ Donated' BY RowsStay, DonatedStays
<1>4. (\A a \in Accounts : \A f, g \in FamiliesOf(a) : f = g)' BY OneFamilyStays
<1>5. Uncontended' /\ PointsCount' /\ GivenIsPaid' BY UncontendedStays, PointsStay, GivenStaysPaid
<1> QED BY <1>1, <1>2, <1>3, <1>4, <1>5 DEF FamilyInv
-----------------------------
\* The membership row a run starts with.
StartRow(f, a) ==
  IF f \in DOMAIN FamilySeed /\ FamilySeed[f][a] # "none"
  THEN [role |-> FamilySeed[f][a], status |-> "active", contribution |-> 0] ELSE NoMember

\* The families a run starts with.
LEMMA FamiliesAtStart ==
  ASSUME FamiliesInit, SeededLedger
  PROVE  /\ FamiliesTyped /\ contended = {}
         /\ \A f \in FamilyIds : families[f] # NoFamily <=> f \in DOMAIN FamilySeed
         /\ \A f \in FamilyIds, a \in Accounts :
              members[<<f, a>>] # NoMember => f \in DOMAIN FamilySeed
         /\ \A i \in OfferIds : offers[i] = NoOffer
         /\ \A a \in Accounts : \A f, g \in FamiliesOf(a) : f = g
         /\ \A f \in FamilyIds : families[f] # NoFamily => Owners(f) = {families[f].owner}
         /\ PointsCount
         /\ \A a \in Accounts : Given(a) = 0 /\ Debits(a) = {}
         /\ \A row \in CoinRows : row.key = SeedKey /\ row.direction = "credit"
<1>1. /\ \A f \in FamilyIds : /\ f \notin DOMAIN FamilySeed => families[f] = NoFamily
                              /\ f \in DOMAIN FamilySeed =>
                                   /\ families[f] \in FamilyRow
                                   /\ families[f].xp = 0 /\ families[f].level = 0
                                   /\ \A b \in Accounts :
                                        FamilySeed[f][b] = "owner" <=> b = families[f].owner
      /\ families \in [FamilyIds -> {NoFamily} \cup FamilyRow]
 <2>1. ASSUME NEW f \in FamilyIds, f \notin DOMAIN FamilySeed PROVE families[f] = NoFamily
   BY <2>1 DEF FamiliesInit
 <2>2. ASSUME NEW f \in FamilyIds, f \in DOMAIN FamilySeed
       PROVE  /\ families[f] \in FamilyRow
              /\ families[f].xp = 0 /\ families[f].level = 0
              /\ \A b \in Accounts : FamilySeed[f][b] = "owner" <=> b = families[f].owner
  <3>1. PICK owner \in Accounts : \A b \in Accounts : FamilySeed[f][b] = "owner" <=> b = owner
    BY <2>2, FamiliesSeeded
  <3>2. (CHOOSE a \in Accounts : FamilySeed[f][a] = "owner") = owner BY <3>1
  <3>3. families[f] = [owner |-> owner, xp |-> 0, level |-> 0] BY <2>2, <3>2 DEF FamiliesInit
  <3> QED BY <3>1, <3>3 DEF FamilyRow
 <2>3. \A f \in FamilyIds : families[f] \in {NoFamily} \cup FamilyRow BY <2>1, <2>2
 <2>4. \E F : families = [f \in FamilyIds |-> F[f]]
  <3>1. families = [f \in FamilyIds |-> families[f]] BY DEF FamiliesInit
  <3> QED BY <3>1
 <2> QED BY <2>1, <2>2, <2>3, <2>4
<1>2. ASSUME NEW f \in FamilyIds, NEW a \in Accounts
      PROVE  /\ members[<<f, a>>] = StartRow(f, a)
             /\ StartRow(f, a) \in {NoMember} \cup MemberRow /\ StartRow(f, a).contribution = 0
             /\ IF f \in DOMAIN FamilySeed /\ FamilySeed[f][a] # "none"
                THEN StartRow(f, a).status = "active" /\ StartRow(f, a).role = FamilySeed[f][a]
                ELSE StartRow(f, a) = NoMember
 <2>1. <<f, a>> \in FamilyIds \X Accounts /\ <<f, a>>[1] = f /\ <<f, a>>[2] = a OBVIOUS
 <2>2. members[<<f, a>>] = StartRow(f, a) BY <2>1 DEF FamiliesInit, StartRow
 <2>3. f \in DOMAIN FamilySeed => FamilySeed[f][a] \in {"none", "member", "admin", "owner"}
   BY FamiliesSeeded
 <2> QED BY <2>2, <2>3 DEF MemberRow, StartRow, NoMember
<1>3. \A i \in OfferIds : offers[i] = NoOffer BY DEF FamiliesInit
<1>4. FamiliesTyped
 <2>1. ASSUME NEW p \in FamilyIds \X Accounts PROVE members[p] \in {NoMember} \cup MemberRow
  <3>1. PICK f \in FamilyIds, a \in Accounts : p = <<f, a>> OBVIOUS
  <3> QED BY <1>2, <3>1
 <2>2. members = [p \in FamilyIds \X Accounts |-> members[p]] BY DEF FamiliesInit
 <2>3. members \in [FamilyIds \X Accounts -> {NoMember} \cup MemberRow] BY <2>1, <2>2
 <2>4. offers \in [OfferIds -> {NoOffer} \cup OfferRow] /\ contended = {} BY DEF FamiliesInit
 <2> QED BY <1>1, <2>3, <2>4 DEF FamiliesTyped
<1>5. /\ \A f \in FamilyIds : families[f] # NoFamily <=> f \in DOMAIN FamilySeed
      /\ \A f \in FamilyIds, a \in Accounts : members[<<f, a>>] # NoMember => f \in DOMAIN FamilySeed
 <2>1. \A f \in FamilyIds : families[f] # NoFamily <=> f \in DOMAIN FamilySeed BY <1>1, <1>4, RowsOfFamilies
 <2>2. ASSUME NEW f \in FamilyIds, NEW a \in Accounts, members[<<f, a>>] # NoMember
       PROVE  f \in DOMAIN FamilySeed
   BY <1>2, <2>2
 <2> QED BY <2>1, <2>2
<1>6. \A row \in CoinRows : row.key = SeedKey /\ row.direction = "credit"
 <2> SUFFICES ASSUME NEW row \in CoinRows PROVE row.key = SeedKey /\ row.direction = "credit" OBVIOUS
 <2>1. PICK a \in Accounts : \E i \in DOMAIN ledger[a]["coins"] : row = ledger[a]["coins"][i] BY InCoins
 <2>2. ledger[a]["coins"] = SeedRows(a) BY CoinsAreCurrency DEF SeededLedger
 <2> QED BY <2>1, <2>2 DEF SeedRows
<1>7. \A a \in Accounts : \A f, g \in FamiliesOf(a) : f = g
 <2>1. ASSUME NEW a \in Accounts, NEW f \in FamiliesOf(a)
       PROVE  f \in FamilyIds /\ f \in DOMAIN FamilySeed /\ FamilySeed[f][a] # "none"
   BY <1>2 DEF FamiliesOf, Belongs, NoMember
 <2> QED BY <2>1, FamiliesSeeded
<1>8. \A f \in FamilyIds : families[f] # NoFamily => Owners(f) = {families[f].owner}
 <2>1. ASSUME NEW f \in FamilyIds, families[f] # NoFamily PROVE Owners(f) = {families[f].owner}
  <3>1. /\ f \in DOMAIN FamilySeed /\ families[f].owner \in Accounts
        /\ \A b \in Accounts : FamilySeed[f][b] = "owner" <=> b = families[f].owner
    BY <1>1, <2>1 DEF FamilyRow
  <3>2. ASSUME NEW b \in Accounts PROVE b \in Owners(f) <=> b = families[f].owner
    BY <1>2, <3>1 DEF Owners, Belongs, NoMember
  <3>3. Owners(f) \subseteq Accounts BY DEF Owners
  <3> QED BY <3>1, <3>2, <3>3
 <2> QED BY <2>1
<1>9. \A f \in FamilyIds, a \in Accounts : Gave(f, a) = 0
 <2>1. ASSUME NEW f \in FamilyIds, NEW a \in Accounts PROVE Gave(f, a) = 0 BY <1>2 DEF Gave
 <2> QED BY <2>1
<1>10. PointsCount
 <2>1. LevelReached(0, FamilyFactor, 0) BY FactorPositive DEF LevelReached, PointsRequired
 <2>2. ASSUME NEW f \in FamilyIds PROVE PointsOf(f)
  <3> DEFINE Con == [a \in Accounts |-> Gave(f, a)]
  <3>1. \A a \in Accounts : Con[a] = 0 BY <1>9
  <3> HIDE DEF Con
  <3>2. SumFunctionOnSet(Con, Accounts) = 0 BY <3>1, GroupsFinite, SumNat
  <3>3. families[f].xp = 0 /\ families[f].level = 0 BY <1>1 DEF NoFamily
  <3> QED BY <2>1, <3>2, <3>3 DEF Con, PointsOf, Gave
 <2> QED BY <2>2 DEF PointsCount
<1>11. \A a \in Accounts : Given(a) = 0 /\ Debits(a) = {}
 <2>1. ASSUME NEW a \in Accounts PROVE Given(a) = 0
  <3> DEFINE Con == [f \in FamilyIds |-> Gave(f, a)]
  <3>1. \A f \in FamilyIds : Con[f] = 0 BY <1>9
  <3> HIDE DEF Con
  <3>2. SumFunctionOnSet(Con, FamilyIds) = 0 BY <3>1, GroupsFinite, SumNat
  <3> QED BY <3>2 DEF Con, Given, Gave
 <2>2. ASSUME NEW a \in Accounts PROVE Debits(a) = {} BY <1>6 DEF Debits, Payers
 <2> QED BY <2>1, <2>2, Zenon
<1>12. contended = {} BY DEF FamiliesInit
<1> QED BY <1>3, <1>4, <1>5, <1>6, <1>7, <1>8, <1>10, <1>11, <1>12

\* The invariant holds when the run starts.
LEMMA FamilyInvInit ==
  ASSUME GroupsInit
  PROVE  FamilyInv
<1>1. /\ \A h \in Handlers : job[h] = Idle
      /\ job \in [Handlers -> {Idle} \cup FamilyJobs] /\ notices \in [Ids -> Nat]
      /\ dropped = {} /\ issued = DOMAIN FamilySeed
  BY DEF GroupsInit, HandlersInit
<1>2. FamilyJobsTyped BY <1>1 DEF FamilyJobsTyped, ModerationFits, Idle
<1>3. Books /\ FamiliesInit /\ SeededLedger BY BooksInit DEF GroupsInit
<1>4. RowsFounded BY <1>1, <1>3, FamiliesAtStart DEF RowsFounded
<1>5. Donated BY <1>3, FamiliesAtStart DEF Donated
<1>6. \A h \in Handlers : JobFounded(h) /\ JobFresh(h) BY <1>1 DEF JobFounded, JobFresh, Idle
<1>7. Uncontended
 <2>1. \A f \in FamilyIds, h \in Handlers : ~Serves(h, f) BY <1>1 DEF Serves
 <2> QED BY <1>3, <2>1, FamiliesAtStart DEF Uncontended
<1>8. GivenIsPaid
 <2>1. DonationCoins * 0 = 0 BY DonationIsAmount, AmountsPositive
 <2>2. ASSUME NEW a \in Accounts PROVE PaidBy(a)
  <3>1. Given(a) = 0 /\ Debits(a) \ Pending(a) = {} /\ (Debits(a) \ Pending(a)) \ dropped = {}
    BY <1>3, FamiliesAtStart
  <3> QED BY <2>1, <3>1, FS_EmptySet DEF PaidBy
 <2> QED BY <2>2, Zenon DEF GivenIsPaid
<1>9. FamiliesTyped /\ PointsCount /\ (\A a \in Accounts : \A f, g \in FamiliesOf(a) : f = g)
  BY <1>3, FamiliesAtStart
<1> QED BY <1>2, <1>3, <1>4, <1>5, <1>6, <1>7, <1>8, <1>9 DEF FamilyInv
-----------------------------
\* A step of the handler, a request it takes, or an interruption, of couples.
CoupleMove(h) ==
  \/ PairingStep(h) \/ UnpairStep(h)
  \/ \E a, b \in Accounts : StartInvite(h, a, b)
  \/ \E i \in InviteIds :
       StartPair(h, i) \/ \E status \in {"declined", "cancelled"} : StartReject(h, i, status)
  \/ \E c \in CoupleIds : StartUnpair(h, c)
  \/ Interrupted(h) /\ UNCHANGED coupleVars

\* A request of some kind is one.
LEMMA CoupleKinds ==
  ASSUME CoupleInv, NEW h \in Handlers
  PROVE  /\ job[h].op = "invite" => job[h] \in InviteJob
         /\ job[h].op = "pair" => job[h] \in PairJob
         /\ job[h].op = "reject" => job[h] \in RejectJob
         /\ job[h].op = "unpair" => job[h] \in UnpairJob
         /\ job[h].op = "none" => job[h] = Idle
         /\ job[h].op \in {"invite", "pair", "reject", "unpair", "none"}
  BY DEF CoupleInv, CoupleJobs, InviteJob, PairJob, RejectJob, UnpairJob, Idle

\* Rows that say something are rows.
LEMMA RowsOfCouples ==
  ASSUME CouplesTyped
  PROVE  /\ \A i \in InviteIds : /\ invites[i].status # "none" => invites[i] \in InviteRow
                                 /\ invites[i] # NoInvite => invites[i] \in InviteRow
         /\ \A c \in CoupleIds : /\ couples[c].status # "none" => couples[c] \in CoupleRow
                                 /\ couples[c] # NoCouple => couples[c] \in CoupleRow
         /\ NoInvite \notin InviteRow /\ NoCouple \notin CoupleRow
<1>1. \A row \in InviteRow : row.status # "none" BY DEF InviteRow
<1>2. \A row \in CoupleRow : row.status # "none" BY DEF CoupleRow
<1>3. NoInvite.status = "none" /\ NoCouple.status = "none" BY DEF NoInvite, NoCouple
<1>4. \A i \in InviteIds : invites[i] \in {NoInvite} \cup InviteRow BY DEF CouplesTyped
<1>5. \A c \in CoupleIds : couples[c] \in {NoCouple} \cup CoupleRow BY DEF CouplesTyped
<1> QED BY <1>1, <1>2, <1>3, <1>4, <1>5

\* What a move of a handler does to invitations: it inserts its own or sets
\* the status of one.
InviteEffect(h) ==
  /\ invites' \in [InviteIds -> {NoInvite} \cup InviteRow]
  /\ \A i \in InviteIds :
       IF invites[i] # NoInvite
       THEN /\ invites'[i] # NoInvite
            /\ invites'[i].from = invites[i].from /\ invites'[i].to = invites[i].to
            /\ invites'[i].status = "accepted" =>
                 \/ invites[i].status = "accepted"
                 \/ job[h].op = "pair" /\ job[h].at = "accepted" /\ job[h].key = i
       ELSE invites'[i] # NoInvite =>
              /\ job[h].op = "invite" /\ job[h].at # "notify" /\ job[h].key = i
              /\ invites'[i].status = "pending"

\* What it does to couples: it inserts one of the two its invitation is
\* about, whom no other active couple's row has on the same side, or ends one.
CoupleEffect(h) ==
  /\ couples' \in [CoupleIds -> {NoCouple} \cup CoupleRow]
  /\ \A c \in CoupleIds :
       IF couples[c] # NoCouple
       THEN /\ couples'[c] # NoCouple
            /\ couples'[c].first = couples[c].first /\ couples'[c].second = couples[c].second
            /\ couples'[c].status = "active" => couples[c].status = "active"
       ELSE couples'[c] # NoCouple =>
              /\ c \notin issued /\ c \in issued' /\ job[h].op = "pair"
              /\ {couples'[c].first, couples'[c].second} = {invites[job[h].key].from, invites[job[h].key].to}
              /\ \A d \in Active :
                   couples[d].first # couples'[c].first /\ couples[d].second # couples'[c].second
              /\ \A d \in CoupleIds \ {c} : couples'[d] = couples[d]

\* Rows of invitations, one by one.
LEMMA InviteMoves ==
  ASSUME CoupleInv, NEW h \in Handlers, CoupleMove(h)
  PROVE  InviteEffect(h)
<1> USE DEF CoupleInv
<1>0. UNCHANGED invites => InviteEffect(h) BY DEF InviteEffect, CouplesTyped
<1>1. CASE InsertInvite(h)
 <2>1. job[h] \in InviteJob /\ job[h].op = "invite" /\ job[h].at = "insert"
   BY <1>1, CoupleKinds DEF InsertInvite, Doing
 <2>2. PICK i \in InviteIds, a \in Accounts, b \in Accounts :
         i = job[h].key /\ a = job[h].from /\ b = job[h].to
   BY <2>1 DEF InviteJob
 <2>3. invites[i] = NoInvite BY <2>1, <2>2 DEF CoupleJobSound
 <2> DEFINE row == [status |-> "pending", from |-> a, to |-> b]
 <2>4. row \in InviteRow /\ row.status = "pending" /\ invites' = [invites EXCEPT ![i] = row]
   BY <1>1, <2>2 DEF InviteRow, InsertInvite
 <2> HIDE DEF row
 <2>5. /\ invites'[i] = row /\ \A k \in InviteIds \ {i} : invites'[k] = invites[k]
       /\ invites' \in [InviteIds -> {NoInvite} \cup InviteRow]
   BY <2>4 DEF CouplesTyped
 <2> QED BY <2>1, <2>2, <2>3, <2>4, <2>5 DEF InviteEffect
<1>2. CASE MarkAccepted(h) \/ Reject(h)
 <2>1. PICK status \in {"accepted", "declined", "cancelled"} :
         /\ invites' = [invites EXCEPT ![job[h].key].status = status]
         /\ job[h] \in PairJob \cup RejectJob /\ job[h].op \in {"pair", "reject"}
         /\ status = "accepted" => job[h].op = "pair" /\ job[h].at = "accepted"
  <3>1. CASE MarkAccepted(h) BY <3>1, CoupleKinds DEF MarkAccepted, Doing
  <3>2. CASE Reject(h) BY <3>2, CoupleKinds DEF Reject, Doing, RejectJob
  <3> QED BY <1>2, <3>1, <3>2
 <2>2. PICK i \in InviteIds : i = job[h].key BY <2>1 DEF PairJob, RejectJob
 <2>3. invites[i] # NoInvite /\ invites[i] \in InviteRow BY <2>1, <2>2, RowsOfCouples DEF CoupleJobSound
 <2> DEFINE row == [invites[i] EXCEPT !.status = status]
 <2>4. /\ row \in InviteRow /\ row.status = status
       /\ row.from = invites[i].from /\ row.to = invites[i].to
   BY <2>3 DEF InviteRow
 <2>5. invites' = [invites EXCEPT ![i] = row] BY <2>1, <2>2, <2>3 DEF CouplesTyped
 <2> HIDE DEF row
 <2>6. /\ invites'[i] = row /\ row # NoInvite /\ \A k \in InviteIds \ {i} : invites'[k] = invites[k]
       /\ invites' \in [InviteIds -> {NoInvite} \cup InviteRow]
   BY <2>4, <2>5, RowsOfCouples DEF CouplesTyped
 <2> QED BY <2>1, <2>2, <2>3, <2>4, <2>6 DEF InviteEffect
<1>3. CASE \/ CheckPending(h) \/ NotifyInvite(h) \/ CheckInvitee(h) \/ CheckInviter(h)
           \/ NotifyPair(h) \/ EndCouple(h)
  BY <1>0, <1>3 DEF CheckPending, NotifyInvite, CheckInvitee, CheckInviter, NotifyPair, EndCouple, coupleVars
<1>4. CASE CreateCouple(h) BY <1>0, <1>4 DEF CreateCouple, NewCouple, coupleVars
<1>5. CASE \/ \E a, b \in Accounts : StartInvite(h, a, b)
           \/ \E i \in InviteIds :
                StartPair(h, i) \/ \E status \in {"declined", "cancelled"} : StartReject(h, i, status)
           \/ \E c \in CoupleIds : StartUnpair(h, c)
           \/ UNCHANGED coupleVars
  BY <1>0, <1>5 DEF StartInvite, StartPair, StartReject, StartUnpair, coupleVars
<1> QED BY <1>1, <1>2, <1>3, <1>4, <1>5 DEF CoupleMove, PairingStep, UnpairStep

\* Rows of couples, one by one.
LEMMA CoupleMoves ==
  ASSUME CoupleInv, NEW h \in Handlers, CoupleMove(h)
  PROVE  CoupleEffect(h)
<1> USE DEF CoupleInv
<1>0. UNCHANGED couples => CoupleEffect(h) BY DEF CoupleEffect, CouplesTyped
<1>1. CASE CreateCouple(h)
 <2>1. job[h] \in PairJob /\ job[h].op = "pair" BY <1>1, CoupleKinds DEF CreateCouple, Doing
 <2>2. PICK i \in InviteIds : i = job[h].key BY <2>1 DEF PairJob
 <2>3. invites[i] \in InviteRow BY <2>1, <2>2, RowsOfCouples DEF CoupleJobSound
 <2>4. PICK a \in Accounts, b \in Accounts : a = invites[i].from /\ b = invites[i].to BY <2>3 DEF InviteRow
 <2> DEFINE first == FirstOf(a, b)
            second == SecondOf(a, b)
 <2>5. first \in Accounts /\ second \in Accounts /\ {first, second} = {a, b} BY DEF FirstOf, SecondOf
 <2>6. \/ UNCHANGED couples
       \/ /\ Admits(first, second)
          /\ \E c \in CoupleIds \ issued :
               /\ couples' = [couples EXCEPT ![c] =
                     [status |-> "active", first |-> first, second |-> second, cp |-> 0, level |-> 0]]
               /\ issued' = issued \cup {c}
   BY <1>1, <2>2, <2>4 DEF CreateCouple, NewCouple, coupleVars
 <2>7. ASSUME Admits(first, second), NEW c \in CoupleIds \ issued,
              couples' = [couples EXCEPT ![c] =
                     [status |-> "active", first |-> first, second |-> second, cp |-> 0, level |-> 0]],
              issued' = issued \cup {c}
       PROVE  CoupleEffect(h)
  <3> DEFINE row == [status |-> "active", first |-> first, second |-> second, cp |-> 0, level |-> 0]
  <3>1. /\ row \in CoupleRow /\ row.first = first /\ row.second = second
        /\ couples' = [couples EXCEPT ![c] = row]
    BY <2>5, <2>7 DEF CoupleRow
  <3>2. couples[c] = NoCouple OBVIOUS
  <3> HIDE DEF row
  <3>3. /\ couples'[c] = row /\ \A d \in CoupleIds \ {c} : couples'[d] = couples[d]
        /\ couples' \in [CoupleIds -> {NoCouple} \cup CoupleRow]
    BY <3>1 DEF CouplesTyped
  <3>4. /\ \A d \in Active : couples[d].first # first /\ couples[d].second # second BY <2>7 DEF Admits
  <3> HIDE DEF first, second
  <3>5. /\ c \notin issued /\ c \in issued' /\ job[h].op = "pair"
        /\ {couples'[c].first, couples'[c].second} = {invites[job[h].key].from, invites[job[h].key].to}
        /\ \A d \in Active :
             couples[d].first # couples'[c].first /\ couples[d].second # couples'[c].second
        /\ \A d \in CoupleIds \ {c} : couples'[d] = couples[d]
    BY <2>1, <2>2, <2>4, <2>5, <2>7, <3>1, <3>3, <3>4
  <3> QED BY <3>2, <3>3, <3>5 DEF CoupleEffect
 <2> QED BY <1>0, <2>6, <2>7
<1>2. CASE EndCouple(h)
 <2>1. /\ job[h] \in UnpairJob /\ job[h].op = "unpair"
       /\ couples' = [couples EXCEPT ![job[h].key].status = "ended"]
   BY <1>2, CoupleKinds DEF EndCouple, Doing
 <2>2. PICK c \in CoupleIds : c = job[h].key BY <2>1 DEF UnpairJob
 <2>3. couples[c] # NoCouple /\ couples[c] \in CoupleRow BY <2>1, <2>2, RowsOfCouples DEF CoupleJobSound
 <2> DEFINE row == [couples[c] EXCEPT !.status = "ended"]
 <2>4. /\ row \in CoupleRow /\ row.status = "ended"
       /\ row.first = couples[c].first /\ row.second = couples[c].second
   BY <2>3 DEF CoupleRow
 <2>5. couples' = [couples EXCEPT ![c] = row] BY <2>1, <2>2, <2>3 DEF CouplesTyped
 <2> HIDE DEF row
 <2>6. /\ couples'[c] = row /\ row # NoCouple /\ \A d \in CoupleIds \ {c} : couples'[d] = couples[d]
       /\ couples' \in [CoupleIds -> {NoCouple} \cup CoupleRow]
   BY <2>4, <2>5, RowsOfCouples DEF CouplesTyped
 <2> QED BY <2>3, <2>4, <2>6 DEF CoupleEffect
<1>3. CASE \/ CheckPending(h) \/ InsertInvite(h) \/ NotifyInvite(h) \/ CheckInvitee(h) \/ CheckInviter(h)
           \/ MarkAccepted(h) \/ NotifyPair(h) \/ Reject(h)
  BY <1>0, <1>3 DEF CheckPending, InsertInvite, NotifyInvite, CheckInvitee, CheckInviter, MarkAccepted,
     NotifyPair, Reject, coupleVars
<1>5. CASE \/ \E a, b \in Accounts : StartInvite(h, a, b)
           \/ \E i \in InviteIds :
                StartPair(h, i) \/ \E status \in {"declined", "cancelled"} : StartReject(h, i, status)
           \/ \E c \in CoupleIds : StartUnpair(h, c)
           \/ UNCHANGED coupleVars
  BY <1>0, <1>5 DEF StartInvite, StartPair, StartReject, StartUnpair, coupleVars
<1> QED BY <1>1, <1>2, <1>3, <1>5 DEF CoupleMove, PairingStep, UnpairStep

\* A request to the couples is taken with what its service has read ...
CoupleTaken(h) ==
  /\ UNCHANGED <<couples, invites>> /\ job[h] = Idle /\ job'[h] \in CoupleJobs
  /\ job'[h].key \in issued'
  /\ job'[h].op = "invite" => job'[h].key \notin issued
  /\ job'[h].op \in {"pair", "reject"} => invites[job'[h].key] # NoInvite
  /\ job'[h].op = "pair" => job'[h].at = "invitee"
  /\ job'[h].op = "unpair" => couples[job'[h].key] # NoCouple

\* ... and goes on with what it has found.
CoupleGoesOn(h) ==
  /\ job[h] # Idle /\ job'[h] \in CoupleJobs
  /\ job'[h].op = job[h].op /\ job'[h].key = job[h].key
  /\ job'[h].op = "invite" /\ job'[h].at # "notify" => job[h].at # "notify" /\ UNCHANGED invites
  /\ job'[h].op = "pair" /\ job'[h].at = "accepted" => (\E c \in CoupleIds : Answers(c, job[h].key))'

\* A handler of the couples goes on, ends, or takes a request.
LEMMA CoupleRequests ==
  ASSUME CoupleInv, NEW h \in Handlers, CoupleMove(h)
  PROVE  /\ job' \in [Handlers -> {Idle} \cup CoupleJobs] /\ notices' \in [Ids -> Nat]
         /\ issued \subseteq issued'
         /\ \A g \in Handlers \ {h} : job'[g] = job[g]
         /\ job'[h] = Idle \/ CoupleTaken(h) \/ CoupleGoesOn(h)
<1> USE DEF CoupleInv
<1> DEFINE Fine == /\ job' \in [Handlers -> {Idle} \cup CoupleJobs] /\ notices' \in [Ids -> Nat]
                   /\ issued \subseteq issued'
                   /\ \A g \in Handlers \ {h} : job'[g] = job[g]
                   /\ job'[h] = Idle \/ CoupleTaken(h) \/ CoupleGoesOn(h)
<1> SUFFICES Fine OBVIOUS
<1>1. ASSUME Finish(h) \/ Break(h) PROVE Fine BY <1>1 DEF Finish, Break
<1>2. ASSUME Notify(h) PROVE Fine
 <2>1. /\ notices' = [notices EXCEPT ![job[h].key] = @ + 1] /\ job' = [job EXCEPT ![h] = Idle]
       /\ issued' = issued
   BY <1>2 DEF Notify
 <2>2. notices' \in [Ids -> Nat]
  <3>1. DOMAIN notices' = Ids /\ notices' = [k \in Ids |-> notices'[k]] BY <2>1
  <3>2. ASSUME NEW k \in Ids PROVE notices'[k] \in Nat
   <4>1. CASE k = job[h].key BY <2>1, <4>1
   <4>2. CASE k # job[h].key BY <2>1, <4>2
   <4> QED BY <4>1, <4>2
  <3> QED BY <3>1, <3>2
 <2> QED BY <2>1, <2>2
<1>3. ASSUME NEW j \in CoupleJobs, job' = [job EXCEPT ![h] = j],
             notices' = notices, issued \subseteq issued',
             CoupleTaken(h) \/ CoupleGoesOn(h)
      PROVE  Fine
  BY <1>3
<1> HIDE DEF Fine
<1>4. ASSUME job[h] \in InviteJob, NEW at \in {"insert", "notify"}, Goto(h, at),
             at = "insert" => job[h].at = "pending" /\ UNCHANGED invites
      PROVE  Fine
 <2> DEFINE j == [job[h] EXCEPT !.at = at]
 <2>1. j \in InviteJob /\ j.op = job[h].op /\ j.key = job[h].key /\ j.at = at /\ j.op = "invite"
   BY <1>4 DEF InviteJob
 <2>2. job' = [job EXCEPT ![h] = j] /\ notices' = notices /\ issued' = issued BY <1>4 DEF Goto
 <2> HIDE DEF j
 <2>3. job'[h] = j BY <2>2
 <2>4. job[h] # Idle BY <1>4 DEF InviteJob, Idle
 <2>5. CoupleGoesOn(h) /\ j \in CoupleJobs BY <1>4, <2>1, <2>3, <2>4 DEF CoupleGoesOn, CoupleJobs
 <2> QED BY <1>3, <2>2, <2>5
<1>5. ASSUME job[h] \in PairJob, NEW at \in {"inviter", "create", "accepted", "notify"},
             job' = [job EXCEPT ![h].at = at], notices' = notices, issued \subseteq issued',
             at = "accepted" => (\E c \in CoupleIds : Answers(c, job[h].key))'
      PROVE  Fine
 <2> DEFINE j == [job[h] EXCEPT !.at = at]
 <2>1. j \in PairJob /\ j.op = job[h].op /\ j.key = job[h].key /\ j.at = at /\ j.op = "pair"
   BY <1>5 DEF PairJob
 <2>2. job' = [job EXCEPT ![h] = j] BY <1>5
 <2> HIDE DEF j
 <2>3. job'[h] = j BY <2>2
 <2>4. job[h] # Idle BY <1>5 DEF PairJob, Idle
 <2>5. CoupleGoesOn(h) /\ j \in CoupleJobs BY <1>5, <2>1, <2>3, <2>4 DEF CoupleGoesOn, CoupleJobs
 <2> QED BY <1>3, <1>5, <2>2, <2>5
<1>6. CASE CheckPending(h) \/ InsertInvite(h) \/ NotifyInvite(h)
 <2>1. job[h] \in InviteJob BY <1>6, CoupleKinds DEF CheckPending, InsertInvite, NotifyInvite, Doing
 <2>2. CASE CheckPending(h) BY <1>1, <1>4, <2>1, <2>2 DEF CheckPending, Doing, coupleVars
 <2>3. CASE InsertInvite(h) BY <1>4, <2>1, <2>3 DEF InsertInvite
 <2> QED BY <1>2, <1>6, <2>2, <2>3 DEF NotifyInvite
<1>7. CASE CheckInvitee(h) \/ CheckInviter(h) \/ CreateCouple(h) \/ MarkAccepted(h) \/ NotifyPair(h)
 <2>1. job[h] \in PairJob /\ job[h].op = "pair"
   BY <1>7, CoupleKinds DEF CheckInvitee, CheckInviter, CreateCouple, MarkAccepted, NotifyPair, Doing
 <2>2. \A at : Goto(h, at) => job' = [job EXCEPT ![h].at = at] /\ notices' = notices /\ issued' = issued
   BY DEF Goto
 <2>3. CASE CheckInvitee(h) BY <1>1, <1>5, <2>1, <2>2, <2>3 DEF CheckInvitee
 <2>4. CASE CheckInviter(h) BY <1>1, <1>5, <2>1, <2>2, <2>4 DEF CheckInviter
 <2>5. CASE MarkAccepted(h) BY <1>5, <2>1, <2>2, <2>5 DEF MarkAccepted
 <2>6. CASE CreateCouple(h)
  <3>1. CASE Break(h) BY <1>1, <3>1
  <3>2. CASE ~Break(h)
   <4>1. PICK i \in InviteIds : i = job[h].key BY <2>1 DEF PairJob
   <4> DEFINE first == FirstOf(invites[i].from, invites[i].to)
              second == SecondOf(invites[i].from, invites[i].to)
              row == [status |-> "active", first |-> first, second |-> second, cp |-> 0, level |-> 0]
   <4>2. PICK c \in CoupleIds \ issued :
           /\ couples' = [couples EXCEPT ![c] = row]
           /\ issued' = issued \cup {c} /\ job' = [job EXCEPT ![h].at = "accepted"]
           /\ UNCHANGED <<notices, invites>>
     BY <2>6, <3>2, <4>1 DEF CreateCouple, NewCouple
   <4>3. row.first = first /\ row.second = second /\ row.status = "active" OBVIOUS
   <4>4. couples'[c] = row BY <4>2 DEF CouplesTyped
   <4>5. {first, second} = {invites[i].from, invites[i].to} BY DEF FirstOf, SecondOf
   <4> HIDE DEF row, first, second
   <4>6. couples'[c] # NoCouple BY <4>3, <4>4 DEF NoCouple
   <4>7. invites[i] # NoInvite BY <2>1, <4>1 DEF CoupleJobSound
   <4>8. /\ {couples'[c].first, couples'[c].second} = {invites'[i].from, invites'[i].to}
         /\ invites'[i] # NoInvite
     BY <4>2, <4>3, <4>4, <4>5, <4>7
   <4>9. job'[h].key = i BY <2>1, <4>1, <4>2 DEF PairJob
   <4>10. (\E d \in CoupleIds : Answers(d, job[h].key))' BY <4>6, <4>8, <4>9 DEF Answers
   <4> QED BY <1>5, <2>1, <4>2, <4>10
  <3> QED BY <3>1, <3>2
 <2> QED BY <1>2, <1>7, <2>3, <2>4, <2>5, <2>6 DEF NotifyPair
<1>8. CASE Reject(h) \/ EndCouple(h) \/ Interrupted(h) BY <1>1, <1>8 DEF Reject, EndCouple, Interrupted
<1>9. ASSUME NEW j \in CoupleJobs, Accept(h, j), UNCHANGED coupleVars,
             issued \subseteq issued', j.key \in issued',
             j.op = "invite" => j.key \notin issued,
             j.op \in {"pair", "reject"} => invites[j.key] # NoInvite,
             j.op = "pair" => j.at = "invitee",
             j.op = "unpair" => couples[j.key] # NoCouple
      PROVE  Fine
 <2>1. job[h] = Idle /\ job' = [job EXCEPT ![h] = j] /\ notices' = notices BY <1>9 DEF Accept, Ready
 <2>2. job'[h] = j BY <2>1
 <2>3. CoupleTaken(h) BY <1>9, <2>1, <2>2 DEF CoupleTaken, coupleVars
 <2> QED BY <1>3, <1>9, <2>1, <2>3
<1>10. ASSUME NEW a \in Accounts, NEW b \in Accounts, StartInvite(h, a, b) PROVE Fine
 <2>1. PICK i \in InviteIds \ issued :
         /\ Accept(h, [op |-> "invite", at |-> "pending", key |-> i, from |-> a, to |-> b])
         /\ issued' = issued \cup {i}
   BY <1>10 DEF StartInvite
 <2> DEFINE j == [op |-> "invite", at |-> "pending", key |-> i, from |-> a, to |-> b]
 <2>2. j \in CoupleJobs /\ j.op = "invite" /\ j.key = i BY DEF CoupleJobs, InviteJob
 <2>3. Accept(h, j) BY <2>1
 <2> HIDE DEF j
 <2> QED BY <1>9, <1>10, <2>1, <2>2, <2>3 DEF StartInvite
<1>11. ASSUME NEW i \in InviteIds, StartPair(h, i) PROVE Fine
 <2> DEFINE j == [op |-> "pair", at |-> "invitee", key |-> i]
 <2>1. j \in CoupleJobs /\ j.op = "pair" /\ j.key = i /\ j.at = "invitee" BY DEF CoupleJobs, PairJob
 <2>2. Accept(h, j) /\ UNCHANGED coupleVars /\ issued' = issued BY <1>11 DEF StartPair
 <2>3. invites[i] # NoInvite /\ i \in issued BY <1>11 DEF StartPair, NoInvite
 <2> HIDE DEF j
 <2> QED BY <1>9, <2>1, <2>2, <2>3
<1>12. ASSUME NEW i \in InviteIds, NEW status \in {"declined", "cancelled"}, StartReject(h, i, status)
       PROVE  Fine
 <2> DEFINE j == [op |-> "reject", at |-> "update", key |-> i, status |-> status]
 <2>1. j \in CoupleJobs /\ j.op = "reject" /\ j.key = i BY DEF CoupleJobs, RejectJob
 <2>2. Accept(h, j) /\ UNCHANGED coupleVars /\ issued' = issued BY <1>12 DEF StartReject
 <2>3. invites[i] # NoInvite /\ i \in issued BY <1>12 DEF StartReject, NoInvite
 <2> HIDE DEF j
 <2> QED BY <1>9, <2>1, <2>2, <2>3
<1>13. ASSUME NEW c \in CoupleIds, StartUnpair(h, c) PROVE Fine
 <2> DEFINE j == [op |-> "unpair", at |-> "end", key |-> c]
 <2>1. j \in CoupleJobs /\ j.op = "unpair" /\ j.key = c BY DEF CoupleJobs, UnpairJob
 <2>2. Accept(h, j) /\ UNCHANGED coupleVars /\ issued' = issued BY <1>13 DEF StartUnpair
 <2>3. couples[c] # NoCouple BY <1>13 DEF StartUnpair, Active, NoCouple
 <2>4. c \in issued BY <2>3
 <2> HIDE DEF j
 <2> QED BY <1>9, <2>1, <2>2, <2>3, <2>4
<1> QED BY <1>6, <1>7, <1>8, <1>10, <1>11, <1>12, <1>13 DEF CoupleMove, PairingStep, UnpairStep

\* The couples' invariant is kept ...
LEMMA CoupleInvStays ==
  ASSUME CoupleInv, NEW h \in Handlers, CoupleMove(h)
  PROVE  CoupleInv'
<1> USE DEF CoupleInv
<1>1. /\ job' \in [Handlers -> {Idle} \cup CoupleJobs] /\ notices' \in [Ids -> Nat]
      /\ issued \subseteq issued' /\ \A g \in Handlers \ {h} : job'[g] = job[g]
      /\ job'[h] = Idle \/ CoupleTaken(h) \/ CoupleGoesOn(h)
  BY CoupleRequests
<1>2. InviteEffect(h) /\ CoupleEffect(h) /\ CoupleJobSound(h) BY InviteMoves, CoupleMoves
<1>3. CouplesTyped' BY <1>2 DEF CouplesTyped, InviteEffect, CoupleEffect
<1>4. ASSUME NEW i \in InviteIds, invites'[i] # NoInvite PROVE i \in issued'
 <2>1. CASE invites[i] # NoInvite BY <1>1, <2>1
 <2>2. CASE invites[i] = NoInvite BY <1>1, <1>2, <1>4, <2>2 DEF InviteEffect, CoupleJobSound, Idle
 <2> QED BY <2>1, <2>2
<1>5. ASSUME NEW c \in CoupleIds, NEW i \in InviteIds, Answers(c, i) PROVE Answers(c, i)'
  BY <1>2, <1>5 DEF Answers, InviteEffect, CoupleEffect
<1>6. ASSUME NEW c \in CoupleIds, couples'[c] # NoCouple
      PROVE  c \in issued' /\ \E i \in InviteIds : Answers(c, i)'
 <2>1. CASE couples[c] # NoCouple BY <1>1, <1>5, <2>1
 <2>2. CASE couples[c] = NoCouple
  <3>1. /\ c \in issued' /\ job[h].op = "pair"
        /\ {couples'[c].first, couples'[c].second} = {invites[job[h].key].from, invites[job[h].key].to}
    BY <1>2, <1>6, <2>2 DEF CoupleEffect
  <3>2. PICK i \in InviteIds : i = job[h].key BY <3>1, CoupleKinds DEF PairJob
  <3>3. invites[i] # NoInvite BY <1>2, <3>1, <3>2 DEF CoupleJobSound
  <3>4. Answers(c, i)' BY <1>2, <1>6, <3>1, <3>2, <3>3 DEF Answers, InviteEffect
  <3> QED BY <3>1, <3>4
 <2> QED BY <2>1, <2>2
<1>7. ASSUME NEW i \in InviteIds, invites'[i].status = "accepted" PROVE \E c \in CoupleIds : Answers(c, i)'
 <2>1. CASE invites[i].status = "accepted" BY <1>5, <2>1
 <2>2. CASE job[h].op = "pair" /\ job[h].at = "accepted" /\ job[h].key = i
   BY <1>2, <1>5, <2>2 DEF CoupleJobSound
 <2>3. CASE invites[i] = NoInvite BY <1>2, <1>7, <2>3 DEF InviteEffect, NoInvite
 <2> QED BY <1>2, <1>7, <2>1, <2>2, <2>3 DEF InviteEffect
<1>8. ASSUME NEW c \in Active', NEW d \in Active', c # d
      PROVE  couples'[c].first # couples'[d].first /\ couples'[c].second # couples'[d].second
 <2>1. /\ c \in CoupleIds /\ d \in CoupleIds
       /\ couples'[c].status = "active" /\ couples'[d].status = "active"
       /\ couples'[c] # NoCouple /\ couples'[d] # NoCouple
   BY <1>8 DEF Active, NoCouple
 <2>2. CASE couples[c] # NoCouple /\ couples[d] # NoCouple
   BY <1>2, <1>8, <2>1, <2>2 DEF CoupleEffect, Active
 <2>3. CASE couples[c] = NoCouple
  <3>1. couples'[d] = couples[d] /\ d \in Active BY <1>2, <1>8, <2>1, <2>3 DEF CoupleEffect, Active
  <3> QED BY <1>2, <2>1, <2>3, <3>1 DEF CoupleEffect
 <2>4. CASE couples[d] = NoCouple
  <3>1. couples'[c] = couples[c] /\ c \in Active BY <1>2, <1>8, <2>1, <2>4 DEF CoupleEffect, Active
  <3> QED BY <1>2, <2>1, <2>4, <3>1 DEF CoupleEffect
 <2> QED BY <2>2, <2>3, <2>4
<1>9. ASSUME NEW g \in Handlers \ {h} PROVE CoupleJobSound(g)'
 <2>1. CoupleJobSound(g) /\ job'[g] = job[g] BY <1>1
 <2>2. job[g] # Idle => job[g].key \in issued' BY <1>1, <2>1 DEF CoupleJobSound
 <2>3. ASSUME job[g].op = "invite"
       PROVE  /\ ~(job[h].op = "invite" /\ job[h].key = job[g].key)
              /\ \A e \in Handlers : job'[e].op = "invite" /\ job'[e].key = job[g].key => e = g
  <3>1. \A e \in Handlers : job[e].op = "invite" /\ job[e].key = job[g].key => e = g
    BY <2>1, <2>3 DEF CoupleJobSound
  <3>2. job[g].key \in issued BY <2>1, <2>3 DEF CoupleJobSound, Idle
  <3>3. ~(job'[h].op = "invite" /\ job'[h].key = job[g].key)
    BY <1>1, <3>1, <3>2 DEF CoupleTaken, CoupleGoesOn, Idle
  <3> QED BY <1>1, <3>1, <3>3
 <2>4. ASSUME job[g].op = "invite", job[g].at # "notify" PROVE invites'[job[g].key] = NoInvite
  <3>1. job[g].key \in InviteIds BY <2>4, CoupleKinds DEF InviteJob
  <3> QED BY <1>2, <2>1, <2>3, <2>4, <3>1 DEF InviteEffect, CoupleJobSound
 <2>5. ASSUME job[g].op \in {"pair", "reject"} PROVE invites'[job[g].key] # NoInvite
  <3>1. job[g].key \in InviteIds BY <2>5, CoupleKinds DEF PairJob, RejectJob
  <3> QED BY <1>2, <2>1, <2>5, <3>1 DEF InviteEffect, CoupleJobSound
 <2>6. ASSUME job[g].op = "pair", job[g].at = "accepted"
       PROVE  \A i : i = job[g].key => \E c \in CoupleIds : Answers(c, i)'
  <3>1. job[g].key \in InviteIds BY <2>6, CoupleKinds DEF PairJob
  <3>2. \E c \in CoupleIds : Answers(c, job[g].key) BY <2>1, <2>6 DEF CoupleJobSound
  <3> QED BY <1>5, <3>1, <3>2
 <2>7. ASSUME job[g].op = "unpair" PROVE couples'[job[g].key] # NoCouple
  <3>1. job[g].key \in CoupleIds BY <2>7, CoupleKinds DEF UnpairJob
  <3> QED BY <1>2, <2>1, <2>7, <3>1 DEF CoupleEffect, CoupleJobSound
 <2> QED BY <2>1, <2>2, <2>3, <2>4, <2>5, <2>6, <2>7 DEF CoupleJobSound
<1>10. CoupleJobSound(h)'
 <2>1. CASE job'[h] = Idle BY <2>1 DEF CoupleJobSound, Idle
 <2>2. CASE CoupleTaken(h)
  <3>1. /\ UNCHANGED <<couples, invites>> /\ job'[h] \in CoupleJobs /\ job'[h].key \in issued'
        /\ job'[h].op = "invite" => job'[h].key \notin issued
        /\ job'[h].op \in {"pair", "reject"} => invites[job'[h].key] # NoInvite
        /\ job'[h].op = "pair" => job'[h].at = "invitee"
        /\ job'[h].op = "unpair" => couples[job'[h].key] # NoCouple
    BY <2>2 DEF CoupleTaken
  <3>2. ASSUME job'[h].op = "invite"
        PROVE  /\ invites[job'[h].key] = NoInvite
               /\ \A g \in Handlers : job'[g].op = "invite" /\ job'[g].key = job'[h].key => g = h
   <4>1. job'[h].key \in InviteIds BY <3>1, <3>2 DEF CoupleJobs, InviteJob, PairJob, RejectJob, UnpairJob
   <4>2. ASSUME NEW g \in Handlers \ {h}, job'[g].op = "invite" PROVE job'[g].key # job'[h].key
    <5>1. job'[g] = job[g] /\ job[g].key \in issued BY <1>1, <4>2 DEF CoupleJobSound, Idle
    <5> QED BY <3>1, <3>2, <5>1
   <4> QED BY <3>1, <3>2, <4>1, <4>2
  <3> QED BY <3>1, <3>2 DEF CoupleJobSound
 <2>3. CASE CoupleGoesOn(h)
  <3>1. /\ job[h] # Idle /\ job'[h] \in CoupleJobs
        /\ job'[h].op = job[h].op /\ job'[h].key = job[h].key
        /\ job[h].op = "invite" /\ job'[h].at # "notify" => job[h].at # "notify" /\ UNCHANGED invites
        /\ job[h].op = "pair" /\ job'[h].at = "accepted" => (\E c \in CoupleIds : Answers(c, job[h].key))'
    BY <2>3 DEF CoupleGoesOn
  <3>2. job'[h].key \in issued' BY <1>1, <1>2, <3>1 DEF CoupleJobSound
  <3>3. ASSUME job[h].op = "invite"
        PROVE  /\ job'[h].at # "notify" => invites'[job[h].key] = NoInvite
               /\ \A g \in Handlers : job'[g].op = "invite" /\ job'[g].key = job[h].key => g = h
    BY <1>1, <1>2, <3>1, <3>3 DEF CoupleJobSound
  <3>4. ASSUME job[h].op \in {"pair", "reject"} PROVE invites'[job[h].key] # NoInvite
   <4>1. job[h].key \in InviteIds BY <3>4, CoupleKinds DEF PairJob, RejectJob
   <4> QED BY <1>2, <3>4, <4>1 DEF InviteEffect, CoupleJobSound
  <3>5. ASSUME job[h].op = "unpair" PROVE couples'[job[h].key] # NoCouple
   <4>1. job[h].key \in CoupleIds BY <3>5, CoupleKinds DEF UnpairJob
   <4> QED BY <1>2, <3>5, <4>1 DEF CoupleEffect, CoupleJobSound
  <3> QED BY <3>1, <3>2, <3>3, <3>4, <3>5 DEF CoupleJobSound
 <2> QED BY <1>1, <2>1, <2>2, <2>3
<1> QED BY <1>1, <1>3, <1>4, <1>6, <1>7, <1>8, <1>9, <1>10

\* ... and holds when the run starts.
LEMMA CoupleInvInit ==
  ASSUME GroupsInit
  PROVE  CoupleInv
<1>1. /\ \A i \in InviteIds : invites[i] = NoInvite
      /\ \A c \in CoupleIds : couples[c] = NoCouple
      /\ CouplesTyped /\ Active = {}
  BY DEF GroupsInit, CouplesInit, CouplesTyped, Active, NoCouple
<1>2. /\ job \in [Handlers -> {Idle} \cup CoupleJobs] /\ notices \in [Ids -> Nat]
      /\ \A h \in Handlers : job[h] = Idle
  BY DEF GroupsInit, HandlersInit
<1>3. \A h \in Handlers : CoupleJobSound(h) BY <1>2 DEF CoupleJobSound, Idle
<1>4. \A i \in InviteIds : invites[i].status # "accepted" BY <1>1 DEF NoInvite
<1> QED BY <1>1, <1>2, <1>3, <1>4 DEF CoupleInv
-----------------------------
\* The invariant of the two services.
LEMMA GroupsInvInit == GroupsInit => GroupsInv
  BY FamilyInvInit, CoupleInvInit DEF GroupsInit, GroupsInv

\* Each step of either service keeps it.
LEMMA GroupsInvStays ==
  ASSUME GroupsInv, [GroupsNext]_groupVars
  PROVE  GroupsInv'
<1>1. CASE UNCHANGED groupVars
 <2>1. /\ UNCHANGED <<balance, ledger, job, issued, dropped, notices>>
       /\ UNCHANGED <<families, members, offers, contended, couples, invites, serving>>
   BY <1>1 DEF groupVars, ledgerVars, handlerVars, familyVars, coupleVars
 <2>2. CouplesInit' <=> CouplesInit BY <2>1 DEF CouplesInit
 <2>3. (FamiliesInit /\ SeededLedger)' <=> FamiliesInit /\ SeededLedger
   BY <2>1 DEF FamiliesInit, SeededLedger
 <2>4. CoupleInv' <=> CoupleInv
  <3>1. Active' = Active /\ \A h \in Handlers : CoupleJobSound(h)' <=> CoupleJobSound(h)
    BY <2>1 DEF Active, CoupleJobSound, Answers
  <3> QED BY <2>1, <3>1 DEF CoupleInv, CouplesTyped, Answers
 <2>5. FamilyInv' <=> FamilyInv
  <3>1. CoinRows' = CoinRows /\ \A n : Payers(n)' = Payers(n) BY <2>1, SamePayers
  <3>2. FamilyJobsTyped' <=> FamilyJobsTyped BY <2>1 DEF FamilyJobsTyped, ModerationFits
  <3>3. Books' <=> Books BY <2>1, <3>1 DEF Books
  <3>4. (FamiliesTyped' <=> FamiliesTyped) /\ (RowsFounded' <=> RowsFounded) /\ (Donated' <=> Donated)
    BY <2>1, <3>1 DEF FamiliesTyped, RowsFounded, Donated
  <3>5. \A h \in Handlers : (JobFounded(h)' <=> JobFounded(h)) /\ (JobFresh(h)' <=> JobFresh(h))
    BY <2>1, <3>1 DEF JobFounded, JobFresh
  <3>6. \A a \in Accounts : FamiliesOf(a)' = FamiliesOf(a) BY <2>1 DEF FamiliesOf, Belongs
  <3>7. Uncontended' <=> Uncontended
   <4>1. \A f : Owners(f)' = Owners(f) BY <2>1 DEF Owners, Belongs
   <4>2. \A f, a : (Belongs(f, a)' <=> Belongs(f, a)) /\ \A act : MayAct(f, act, a)' <=> MayAct(f, act, a)
     BY <2>1 DEF MayAct, Outranks, Belongs
   <4>3. ASSUME NEW h \in Handlers PROVE StillSo(h)' <=> StillSo(h)
    <5> DEFINE f == job[h].family
    <5>1. /\ job' = job /\ members' = members /\ families' = families
          /\ Owners(f)' = Owners(f)
          /\ Belongs(f, job[h].account)' <=> Belongs(f, job[h].account)
          /\ MayAct(f, job[h].act, job[h].account)' <=> MayAct(f, job[h].act, job[h].account)
      BY <2>1 DEF Owners, MayAct, Outranks, Belongs
    <5> QED BY <5>1 DEF StillSo
   <4>4. \A h \in Handlers, f \in FamilyIds :
           (Serves(h, f)' <=> Serves(h, f)) /\ OwnersAre(h, f)' = OwnersAre(h, f)
     BY <2>1 DEF Serves, OwnersAre
   <4> QED BY <2>1, <4>1, <4>3, <4>4 DEF Uncontended
  <3>8. PointsCount' <=> PointsCount BY <2>1 DEF PointsCount, PointsOf
  <3>9. GivenIsPaid' <=> GivenIsPaid
   <4>1. \A a \in Accounts : Debits(a)' = Debits(a) /\ Given(a)' = Given(a) /\ Pending(a)' = Pending(a)
     BY <2>1, <3>1 DEF Debits, Given, Pending, InFlight
   <4> QED BY <2>1, <4>1 DEF GivenIsPaid, PaidBy
  <3> QED BY <3>2, <3>3, <3>4, <3>5, <3>6, <3>7, <3>8, <3>9 DEF FamilyInv
 <2> QED BY <2>1, <2>2, <2>3, <2>4, <2>5 DEF GroupsInv
<1>2. CASE GroupsNext /\ serving = "families"
 <2>1. CouplesInit /\ FamilyInv /\ serving' = serving BY <1>2 DEF GroupsInv, GroupsNext
 <2>2. UNCHANGED coupleVars BY <1>2 DEF GroupsNext, Belonging, Pairing, CutOff
 <2>3. CouplesInit' BY <2>1, <2>2 DEF CouplesInit, coupleVars
 <2>4. \E h \in Handlers : FamilyMove(h) BY <1>2 DEF GroupsNext, Belonging, Pairing, CutOff, FamilyMove
 <2>5. FamilyInv' BY <2>1, <2>4, FamilyInvStays
 <2> QED BY <1>2, <2>1, <2>3, <2>5 DEF GroupsInv
<1>3. CASE GroupsNext /\ serving = "couples"
 <2>1. FamiliesInit /\ SeededLedger /\ CoupleInv /\ serving' = serving BY <1>3 DEF GroupsInv, GroupsNext
 <2>2. UNCHANGED <<ledgerVars, familyVars>> BY <1>3 DEF GroupsNext, Belonging, Pairing, CutOff
 <2>3. FamiliesInit' /\ SeededLedger' BY <2>1, <2>2 DEF FamiliesInit, SeededLedger, ledgerVars, familyVars
 <2>4. \E h \in Handlers : CoupleMove(h)
   BY <1>3 DEF GroupsNext, Belonging, Pairing, CutOff, CoupleMove, PairingRequest, UnpairRequest
 <2>5. CoupleInv' BY <2>1, <2>4, CoupleInvStays
 <2> QED BY <1>3, <2>1, <2>3, <2>5 DEF GroupsInv
<1> QED BY <1>1, <1>2, <1>3 DEF GroupsInv
\* The seeded balances are amounts of coins.
LEMMA SeededTyped ==
  ASSUME SeededLedger
  PROVE  balance \in [Accounts -> [Currencies -> Nat]]
<1>1. Books BY BooksInit
<1> QED BY <1>1 DEF Books

\* The families' invariant says what a reader of the families wants to know.
LEMMA FamilyInvIsSound ==
  ASSUME FamilyInv, CouplesInit
  PROVE  FamilySound
<1> USE DEF FamilyInv
<1>1. GroupsTypeOK
 <2>1. CouplesTyped BY DEF CouplesInit, CouplesTyped
 <2>2. balance \in [Accounts -> [Currencies -> Nat]] /\ notices \in [Ids -> Nat]
   BY DEF Books, FamilyJobsTyped
 <2>3. \A h \in Handlers : job[h] = Idle \/ job[h].key \in Ids BY FamilyKinds
 <2> QED BY <2>1, <2>2, <2>3 DEF GroupsTypeOK
<1>2. OneFamily
 <2> SUFFICES ASSUME NEW a \in Accounts PROVE Cardinality(FamiliesOf(a)) <= 1 BY Zenon DEF OneFamily
 <2>1. CASE FamiliesOf(a) = {} BY <2>1, FS_EmptySet
 <2>2. CASE FamiliesOf(a) # {}
  <3>1. PICK f : FamiliesOf(a) = {f} BY <2>2
  <3>2. Cardinality({f}) = 1 BY FS_Singleton
  <3> QED BY <3>1, <3>2
 <2> QED BY <2>1, <2>2
<1>3. OwnerInPlace
 <2> SUFFICES ASSUME NEW f \in FamilyIds \ contended, families[f] # NoFamily
              PROVE  /\ Owners(f) # {}
                     /\ \/ Owners(f) = {families[f].owner}
                        \/ InFlight("moderate", f, {"newRole", "oldRole"})
                        \/ f \in dropped
   BY DEF OwnerInPlace
 <2>1. /\ Owners(f) # {}
       /\ \/ f \in dropped
          \/ Owners(f) = {families[f].owner}
          \/ \E h \in Handlers : Serves(h, f) /\ Owners(f) = OwnersAre(h, f)
   BY DEF Uncontended
 <2>2. ASSUME NEW h \in Handlers, Serves(h, f), Owners(f) = OwnersAre(h, f)
       PROVE  Owners(f) = {families[f].owner} \/ InFlight("moderate", f, {"newRole", "oldRole"})
  <3>1. job[h].op = "moderate" => job[h].key = f BY <2>2 DEF FamilyJobsTyped, ModerationFits, Serves
  <3> QED BY <2>2, <3>1 DEF OwnersAre, InFlight
 <2> QED BY <2>1, <2>2
<1>4. DonationsCount
 <2>1. ASSUME NEW a \in Accounts
       PROVE  /\ Given(a) \in Nat
              /\ DonationCoins * Cardinality({n \in Debits(a) \ dropped :
                                                ~InFlight("donate", n, {"contribute"})}) <= Given(a)
              /\ Given(a) <= DonationCoins * Cardinality(Debits(a))
  <3>1. {n \in Debits(a) \ dropped : ~InFlight("donate", n, {"contribute"})}
          = (Debits(a) \ Pending(a)) \ dropped
    BY DEF Pending
  <3>2. IsFiniteSet(Debits(a)) /\ IsFiniteSet(Debits(a) \ Pending(a))
   <4>1. Debits(a) \subseteq DonationIds /\ Debits(a) \ Pending(a) \subseteq DonationIds BY DEF Debits
   <4> QED BY <4>1, GroupsFinite, FS_Subset
  <3>3. Cardinality(Debits(a) \ Pending(a)) <= Cardinality(Debits(a)) BY <3>2, FS_Subset
  <3>4. /\ DonationCoins \in Nat /\ Cardinality(Debits(a)) \in Nat
        /\ Cardinality(Debits(a) \ Pending(a)) \in Nat
    BY <3>2, FS_CardinalityType, DonationIsAmount, AmountsPositive
  <3>5. DonationCoins * Cardinality(Debits(a) \ Pending(a)) <= DonationCoins * Cardinality(Debits(a))
    BY <3>3, <3>4
  <3>6. PaidBy(a) BY DEF GivenIsPaid
  <3>7. Given(a) \in Nat
   <4> DEFINE Con == [f \in FamilyIds |-> Gave(f, a)]
   <4>1. \A f \in FamilyIds : Con[f] \in Nat
    <5>1. ASSUME NEW f \in FamilyIds PROVE Gave(f, a) \in Nat
      BY RowsOfFamilies DEF Gave, NoMember, MemberRow
    <5> QED BY <5>1
   <4> HIDE DEF Con
   <4>2. SumFunctionOnSet(Con, FamilyIds) \in Nat BY <4>1, GroupsFinite, SumNat
   <4> QED BY <4>2 DEF Con, Given, Gave
  <3> DEFINE paid == DonationCoins * Cardinality(Debits(a))
             now == DonationCoins * Cardinality(Debits(a) \ Pending(a))
  <3>8. now \in Nat /\ paid \in Nat /\ now <= paid BY <3>4, <3>5
  <3>9. Given(a) <= now BY <3>6 DEF PaidBy
  <3>10. Given(a) <= paid
   <4> HIDE DEF now, paid
   <4> QED BY <3>7, <3>8, <3>9
  <3> QED BY <3>1, <3>6, <3>7, <3>10 DEF PaidBy
 <2>2. ASSUME NEW a \in Accounts
       PROVE  LET debits == {n \in DonationIds : a \in Payers(n)}
                  settled == {n \in debits \ dropped : ~InFlight("donate", n, {"contribute"})}
                  given == SumFunctionOnSet([f \in FamilyIds |-> members[<<f, a>>].contribution], FamilyIds)
              IN given \in DonationCoins * Cardinality(settled) .. DonationCoins * Cardinality(debits)
  <3> DEFINE settled == {n \in Debits(a) \ dropped : ~InFlight("donate", n, {"contribute"})}
  <3>1. IsFiniteSet(Debits(a)) /\ IsFiniteSet(settled)
   <4>1. Debits(a) \subseteq DonationIds /\ settled \subseteq DonationIds BY DEF Debits
   <4> QED BY <4>1, GroupsFinite, FS_Subset
  <3>2. Cardinality(Debits(a)) \in Nat /\ Cardinality(settled) \in Nat /\ DonationCoins \in Nat
    BY <3>1, FS_CardinalityType, DonationIsAmount, AmountsPositive
  <3>3. Given(a) \in DonationCoins * Cardinality(settled) .. DonationCoins * Cardinality(Debits(a))
   <4>1. /\ DonationCoins * Cardinality(settled) <= Given(a)
         /\ Given(a) <= DonationCoins * Cardinality(Debits(a))
         /\ Given(a) \in Nat
     BY <2>1
   <4> HIDE DEF settled
   <4>2. DonationCoins * Cardinality(settled) \in Int /\ DonationCoins * Cardinality(Debits(a)) \in Int
     BY <3>2
   <4> QED BY <4>1, <4>2
  <3> QED BY <3>3 DEF Debits, Given
 <2>3. \A f \in FamilyIds : PointsOf(f) BY DEF PointsCount
 <2> QED BY <2>2, <2>3, Zenon DEF DonationsCount, PointsOf
<1> QED BY <1>1, <1>2, <1>3, <1>4 DEF FamilySound

\* While the couples are served, the families are as the run found them.
LEMMA RestingFamiliesSound ==
  ASSUME FamiliesInit, SeededLedger, CoupleInv
  PROVE  FamilySound
<1>1. GroupsTypeOK
 <2>1. FamiliesTyped /\ balance \in [Accounts -> [Currencies -> Nat]] BY FamiliesAtStart, SeededTyped
 <2>2. CouplesTyped /\ notices \in [Ids -> Nat] BY DEF CoupleInv
 <2>3. \A h \in Handlers : job[h] = Idle \/ job[h].key \in Ids
   BY CoupleIdsKnown DEF CoupleInv, CoupleJobs, InviteJob, PairJob, RejectJob, UnpairJob
 <2> QED BY <2>1, <2>2, <2>3 DEF GroupsTypeOK
<1>2. OneFamily
 <2> SUFFICES ASSUME NEW a \in Accounts PROVE Cardinality(FamiliesOf(a)) <= 1 BY Zenon DEF OneFamily
 <2>1. \A f, g \in FamiliesOf(a) : f = g BY FamiliesAtStart
 <2>2. CASE FamiliesOf(a) = {} BY <2>2, FS_EmptySet
 <2>3. CASE FamiliesOf(a) # {}
  <3>1. PICK f : FamiliesOf(a) = {f} BY <2>1, <2>3
  <3>2. Cardinality({f}) = 1 BY FS_Singleton
  <3> QED BY <3>1, <3>2
 <2> QED BY <2>2, <2>3
<1>3. OwnerInPlace BY FamiliesAtStart DEF OwnerInPlace
<1>4. DonationsCount
 <2>1. DonationCoins * 0 = 0 BY DonationIsAmount, AmountsPositive
 <2>2. ASSUME NEW a \in Accounts
       PROVE  LET debits == {n \in DonationIds : a \in Payers(n)}
                  settled == {n \in debits \ dropped : ~InFlight("donate", n, {"contribute"})}
                  given == SumFunctionOnSet([f \in FamilyIds |-> members[<<f, a>>].contribution], FamilyIds)
              IN given \in DonationCoins * Cardinality(settled) .. DonationCoins * Cardinality(debits)
  <3>1. Given(a) = 0 /\ Debits(a) = {} BY FamiliesAtStart
  <3>2. {n \in Debits(a) \ dropped : ~InFlight("donate", n, {"contribute"})} = {} BY <3>1
  <3>3. Given(a) \in DonationCoins * Cardinality({}) .. DonationCoins * Cardinality({})
    BY <2>1, <3>1, FS_EmptySet
  <3> QED BY <3>1, <3>2, <3>3 DEF Debits, Given
 <2>3. \A f \in FamilyIds : PointsOf(f) BY FamiliesAtStart DEF PointsCount
 <2> QED BY <2>2, <2>3, Zenon DEF DonationsCount, PointsOf
<1> QED BY <1>1, <1>2, <1>3, <1>4 DEF FamilySound

\* Either service's invariant says that accepted invitations came true.
LEMMA InvIsSound == GroupsInv => FamilySound /\ InvitesSound
<1>1. ASSUME CouplesInit, FamilyInv PROVE FamilySound /\ InvitesSound
 <2>1. /\ \A i \in InviteIds : invites[i] = NoInvite /\ invites[i].status # "accepted"
       /\ \A c \in CoupleIds : couples[c] = NoCouple
       /\ Active = {}
   BY <1>1 DEF CouplesInit, NoInvite, Active, NoCouple
 <2>2. \A i \in OfferIds : offers[i].status = "accepted" =>
         members[<<offers[i].family, offers[i].to>>] # NoMember
   BY <1>1 DEF FamilyInv, RowsFounded, NoOffer
 <2>3. AcceptedCameTrue /\ CouplesDistinct BY <2>1, <2>2 DEF AcceptedCameTrue, CouplesDistinct
 <2> QED BY <1>1, <2>3, FamilyInvIsSound DEF InvitesSound
<1>2. ASSUME FamiliesInit, SeededLedger, CoupleInv PROVE FamilySound /\ InvitesSound
 <2>1. \A i \in OfferIds : offers[i].status # "accepted" BY <1>2, FamiliesAtStart DEF NoOffer
 <2>2. \A i \in InviteIds : invites[i].status = "accepted" =>
         \E c \in CoupleIds : couples[c] # NoCouple
            /\ {couples[c].first, couples[c].second} = {invites[i].from, invites[i].to}
   BY <1>2 DEF CoupleInv, Answers
 <2>3. \A c \in CoupleIds : couples[c] # NoCouple =>
         \E i \in InviteIds : invites[i] # NoInvite
            /\ {couples[c].first, couples[c].second} = {invites[i].from, invites[i].to}
   BY <1>2 DEF CoupleInv, Answers
 <2>4. \A c, d \in Active : c # d =>
         couples[c].first # couples[d].first /\ couples[c].second # couples[d].second
   BY <1>2 DEF CoupleInv
 <2>5. AcceptedCameTrue BY <2>1, <2>2 DEF AcceptedCameTrue
 <2>6. CouplesDistinct BY <2>3, <2>4 DEF CouplesDistinct
 <2> QED BY <1>2, <2>5, <2>6, RestingFamiliesSound DEF InvitesSound
<1> QED BY <1>1, <1>2 DEF GroupsInv
-----------------------------
\* The invariant holds in every state of the system, however the handlers
\* interleave and wherever they are cut off.
THEOREM GroupsKeep == GroupsSpec => []GroupsInv
<1>1. GroupsInit => GroupsInv BY GroupsInvInit
<1>2. GroupsInv /\ [GroupsNext]_groupVars => GroupsInv' BY GroupsInvStays
<1> QED BY <1>1, <1>2, PTL DEF GroupsSpec

\* An account is in one family at most, a family whose requests did not
\* overlap has its owner, and contributions are what was donated, for any
\* number of accounts, families and handlers (family.service.js).
THEOREM FamiliesSound == GroupsSpec => []FamilySound
<1>1. GroupsInv => FamilySound BY InvIsSound
<1> QED BY <1>1, GroupsKeep, PTL

\* An invitation that says accepted came true, and active couples share
\* neither first nor second account (couple.repository.js, schema/019).
THEOREM InvitationsSound == GroupsSpec => []InvitesSound
<1>1. GroupsInv => InvitesSound BY InvIsSound
<1> QED BY <1>1, GroupsKeep, PTL
-----------------------------
\* Who is banned from a family that is not contended stays banned, or is let go.
LEMMA BannedStay ==
  ASSUME FamilyInv, NEW h \in Handlers, FamilyMove(h), NEW f \in FamilyIds \ contended, NEW a \in Accounts,
         members[<<f, a>>].status = "banned"
  PROVE  members'[<<f, a>>].status \in {"banned", "left"}
<1> USE DEF FamilyInv
<1> DEFINE Still == members'[<<f, a>>].status \in {"banned", "left"}
<1> SUFFICES Still OBVIOUS
<1>1. members'[<<f, a>>] = members[<<f, a>>] => Still OBVIOUS
<1>2. CASE ~Serves(h, f) BY <1>1, <1>2, RowsOfOthers
<1> SUFFICES ASSUME Serves(h, f) PROVE Still BY <1>2
<1>3. job[h].family = f /\ StillSo(h) BY DEF Serves, Uncontended
<1>4. members[<<f, a>>] \in MemberRow BY RowsOfFamilies
<1>5. ASSUME NEW b \in Accounts, NEW row \in MemberRow, members' = [members EXCEPT ![<<f, b>>] = row],
             b = a => row.status \in {"banned", "left"}
      PROVE  Still
 <2>1. /\ members'[<<f, b>>] = row
       /\ b # a => members'[<<f, a>>] = members[<<f, a>>]
   BY <1>5, MemberWritten
 <2> QED BY <1>1, <1>5, <2>1
<1> HIDE DEF Still
<1>6. CASE CreateFamily(h)
 <2>1. families[f] = NoFamily BY <1>3, <1>6, CreateWrites
 <2> QED BY <1>4, <2>1, RowsOfFamilies DEF RowsFounded
<1>7. CASE Join(h)
 <2>1. job[h] \in JoinJob /\ job[h].op = "join" /\ job[h].at \in {"insert", "rejoin"} BY <1>7, JoinWrites
 <2>2. PICK b \in Accounts : b = job[h].account BY <2>1 DEF JoinJob
 <2> DEFINE row == [role |-> "member", status |-> "active", contribution |-> members[<<f, b>>].contribution]
 <2>3. \/ UNCHANGED members
       \/ /\ row \in MemberRow /\ members' = [members EXCEPT ![<<f, b>>] = row]
          /\ job[h].at = "insert" => members[<<f, b>>] = NoMember
   BY <1>3, <1>7, <2>2, JoinWrites
 <2> HIDE DEF row
 <2>4. job[h].at = "rejoin" => members[<<f, b>>].status # "banned" BY <1>3, <2>1, <2>2 DEF StillSo
 <2>5. NoMember.status # "banned" BY DEF NoMember
 <2> QED BY <1>1, <1>5, <2>1, <2>3, <2>4, <2>5
<1>8. CASE WriteMember(h)
 <2>1. /\ job[h] \in ModerateJob \cup LeaveJob /\ job[h].op = "moderate" /\ job[h].at = "write"
       /\ job[h].act \in {"kick", "ban", "unban", "promote", "demote", "leave"}
   BY <1>8, MemberWrites
 <2>2. PICK b \in Accounts, c \in Accounts : b = job[h].target /\ c = job[h].account
   BY <2>1 DEF ModerateJob, LeaveJob
 <2> DEFINE row == members[<<f, b>>]
            new == Done(job[h].act, row)
 <2>3. new \in MemberRow /\ row \in MemberRow /\ members' = [members EXCEPT ![<<f, b>>] = new]
   BY <1>3, <1>8, <2>2, MemberWrites
 <2>4. ASSUME row.status = "banned" PROVE new.status = "left"
  <3>1. job[h].act # "leave"
   <4>1. ASSUME job[h].act = "leave" PROVE FALSE
    <5>1. b = c BY <2>1, <2>2, <4>1 DEF FamilyJobsTyped, ModerationFits
    <5>2. members[<<f, c>>].status = "active" BY <1>3, <2>1, <2>2, <4>1 DEF StillSo
    <5> QED BY <2>4, <5>1, <5>2
   <4> QED BY <4>1
  <3>2. MayBeDone(job[h].act, row, job[h].rank) BY <1>3, <2>1, <2>2, <3>1 DEF StillSo
  <3>3. job[h].act = "unban" BY <2>1, <2>4, <3>1, <3>2 DEF MayBeDone
  <3> QED BY <2>3, <3>3 DEF Done, MemberRow
 <2> HIDE DEF new
 <2> QED BY <1>5, <2>3, <2>4
<1>9. CASE RaiseNewOwner(h) \/ LowerOldOwner(h)
 <2>1. job[h] \in ModerateJob BY <1>9, RoleWrites
 <2>2. PICK b \in Accounts : b = IF RaiseNewOwner(h) THEN job[h].target ELSE job[h].account
   BY <2>1 DEF ModerateJob
 <2> DEFINE new == [members[<<f, b>>] EXCEPT !.role = IF RaiseNewOwner(h) THEN "owner" ELSE "admin"]
 <2>3. /\ new \in MemberRow /\ new.status = members[<<f, b>>].status
       /\ members' = [members EXCEPT ![<<f, b>>] = new]
   BY <1>3, <1>9, <2>2, RoleWrites
 <2> HIDE DEF new
 <2> QED BY <1>5, <2>3
<1>10. CASE AddContribution(h)
 <2>1. PICK b \in Accounts : b = job[h].account BY <1>10, ContributionWrites DEF DonateJob
 <2> DEFINE new == [members[<<f, b>>] EXCEPT !.contribution = @ + DonationCoins]
 <2>2. /\ new \in MemberRow /\ new.status = members[<<f, b>>].status
       /\ members' = [members EXCEPT ![<<f, b>>] = new]
   BY <1>3, <1>10, <2>1, ContributionWrites
 <2> HIDE DEF new
 <2> QED BY <1>5, <2>2
<1>11. CASE InsertOffer(h) \/ MarkJoined(h) \/ Withdraw(h) \/ DebitDonation(h) \/ SetOwner(h)
 <2>1. UNCHANGED members BY <1>11 DEF InsertOffer, MarkJoined, Withdraw, DebitDonation, SetOwner, familyVars
 <2> QED BY <1>1, <2>1
<1>12. CASE UNCHANGED members BY <1>1, <1>12
<1> QED BY <1>6, <1>7, <1>8, <1>9, <1>10, <1>11, <1>12, Reads DEF Writes

\* A banned account comes back only after it was unbanned, to a family whose
\* requests did not overlap (family.service.js:19-20).
THEOREM BannedStaysBanned == GroupsSpec => BannedStaysOut
<1> DEFINE Kept == \A f \in FamilyIds \ contended, a \in Accounts :
                     members[<<f, a>>].status = "banned" => members'[<<f, a>>].status \in {"banned", "left"}
<1>1. GroupsInv /\ [GroupsNext]_groupVars => [Kept]_members
 <2> SUFFICES ASSUME GroupsInv, [GroupsNext]_groupVars, members' # members PROVE Kept BY DEF Kept
 <2>1. GroupsNext BY DEF groupVars, familyVars
 <2>2. CASE serving = "families"
  <3>1. FamilyInv BY <2>2 DEF GroupsInv
  <3>2. PICK h \in Handlers : FamilyMove(h)
    BY <2>1, <2>2 DEF GroupsNext, Belonging, Pairing, CutOff, FamilyMove
  <3> QED BY <3>1, <3>2, BannedStay
 <2>3. CASE serving # "families" BY <2>1, <2>3 DEF GroupsNext, Belonging, Pairing, CutOff, familyVars
 <2> QED BY <2>2, <2>3
<1> HIDE DEF Kept
<1>2. GroupsSpec => [][Kept]_members BY <1>1, GroupsKeep, PTL DEF GroupsSpec
<1> QED BY <1>2 DEF Kept, BannedStaysOut
=============================
