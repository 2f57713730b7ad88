-------- MODULE Families --------
(***************************************************************************)
(* family.service.js and PostgresFamilyRepository: membership, invitations,*)
(* moderation by rank, ownership and donations.  Every operation reads     *)
(* what its rules are about, one row at a time, and then writes; the       *)
(* writes are unconditional but for three unique constraints.              *)
(***************************************************************************)
EXTENDS WalletSeed, RequestHandlers

CONSTANTS FamilyIds, OfferIds, DonationIds,   \* ids families, invitations and donations may draw
          DonationCoins,                      \* the price of the donation tier
          FamilyFactor,                       \* FAMILY_XP_PER_LEVEL_FACTOR
          FamilySeed                          \* family -> account -> role, when the run starts

ASSUME FamilyIdsKnown ==
  /\ FamilyIds \cup OfferIds \subseteq Ids
  /\ DonationIds \subseteq (Ids \cap Keys) \ {SeedKey}
ASSUME DonationIsAmount == DonationCoins \in Amounts
ASSUME FactorPositive == FamilyFactor \in Nat \ {0}

\* Each family has one owner when the run starts, and an account one family.
ASSUME FamiliesSeeded ==
  /\ DOMAIN FamilySeed \subseteq FamilyIds
  /\ "none" \notin Accounts
  /\ \A f \in DOMAIN FamilySeed :
       /\ FamilySeed[f] \in [Accounts -> {"none", "member", "admin", "owner"}]
       /\ \E a \in Accounts : \A b \in Accounts : FamilySeed[f][b] = "owner" <=> b = a
  /\ \A f, g \in DOMAIN FamilySeed : \A a \in Accounts :
       FamilySeed[f][a] # "none" /\ FamilySeed[g][a] # "none" => f = g

VARIABLES families,   \* the table families
          members,    \* family_memberships: <<family, account>> -> its row
          offers,     \* the table family_invites
          contended   \* families two of whose requests were at work at once

familyVars == <<families, members, offers, contended>>

\* The rows of the three tables, and what stands for a row that is not there.
FamilyRow == [owner : Accounts, xp : Nat, level : Nat]
MemberRow == [role : {"member", "admin", "owner"},
              status : {"active", "left", "kicked", "banned"}, contribution : Nat]
OfferRow == [status : {"pending", "accepted", "declined", "revoked"},
             family : FamilyIds, from : Accounts, to : Accounts]

NoFamily == [owner |-> "none", xp |-> 0, level |-> 0]
NoMember == [role |-> "none", status |-> "none", contribution |-> 0]
NoOffer == [status |-> "none"]

FamiliesTyped ==
  /\ families \in [FamilyIds -> {NoFamily} \cup FamilyRow]
  /\ members \in [FamilyIds \X Accounts -> {NoMember} \cup MemberRow]
  /\ offers \in [OfferIds -> {NoOffer} \cup OfferRow]
  /\ contended \subseteq FamilyIds

FamiliesInit ==
  /\ families = [f \in FamilyIds |->
       IF f \in DOMAIN FamilySeed
       THEN [owner |-> CHOOSE a \in Accounts : FamilySeed[f][a] = "owner", xp |-> 0, level |-> 0]
       ELSE NoFamily]
  /\ members = [p \in FamilyIds \X Accounts |->
       IF p[1] \in DOMAIN FamilySeed /\ FamilySeed[p[1]][p[2]] # "none"
       THEN [role |-> FamilySeed[p[1]][p[2]], status |-> "active", contribution |-> 0]
       ELSE NoMember]
  /\ offers = [i \in OfferIds |-> NoOffer]
  /\ contended = {}

RoleRank == [role \in {"member", "admin", "owner"} |->
               CASE role = "member" -> 0 [] role = "admin" -> 1 [] role = "owner" -> 2]

Belongs(f, a) == members[<<f, a>>].status = "active"
Outranks(f, a, role) == Belongs(f, a) /\ RoleRank[members[<<f, a>>].role] >= RoleRank[role]
FamiliesOf(a) == {f \in FamilyIds : Belongs(f, a)}
OffersPending(f, a) ==
  {i \in OfferIds : offers[i].status = "pending" /\ offers[i].family = f /\ offers[i].to = a}

\* An idle handler takes request j, which is about j.family.
Work(h, j) ==
  /\ Accept(h, j)
  /\ contended' =
       IF \E g \in Handlers : "family" \in DOMAIN job[g] /\ job[g].family = j.family
       THEN contended \cup {j.family} ELSE contended
  /\ UNCHANGED <<ledgerVars, families, members, offers>>

\* A step that only reads goes on to step at, or ends the request.
Proceed(h, condition, at) ==
  /\ IF condition THEN Goto(h, at) ELSE Finish(h)
  /\ UNCHANGED <<ledgerVars, familyVars>>
-----------------------------
\* createFamily: the account is in no family, and then the family and its
\* owner's row are inserted in one transaction.
StartCreate(h, a) ==
  /\ FamiliesOf(a) = {}
  /\ \E f \in FamilyIds \ issued :
        /\ Work(h, [op |-> "create", at |-> "insert", key |-> f, family |-> f, account |-> a])
        /\ issued' = issued \cup {f}

CreateFamily(h) ==
  LET f == job[h].key
      a == job[h].account IN
  /\ Doing(h, "create", "insert")
  /\ IF FamiliesOf(a) # {} THEN Break(h) /\ UNCHANGED <<families, members>>
     ELSE /\ families' = [families EXCEPT ![f].owner = a]
          /\ members' = [members EXCEPT ![<<f, a>>] =
                           [role |-> "owner", status |-> "active", contribution |-> 0]]
          /\ Finish(h)
  /\ UNCHANGED <<ledgerVars, offers, contended>>
-----------------------------
\* inviteMember: a is an admin or the owner, ...
StartOffer(h, f, a, b) ==
  /\ a # b /\ Outranks(f, a, "admin")
  /\ \E i \in OfferIds \ issued :
        /\ Work(h, [op |-> "offer", at |-> "target", key |-> i, family |-> f, from |-> a, to |-> b])
        /\ issued' = issued \cup {i}

\* ... b is neither a member nor banned, ...
CheckTarget(h) ==
  /\ Doing(h, "offer", "target")
  /\ Proceed(h, members[<<job[h].family, job[h].to>>].status \notin {"active", "banned"}, "pending")

\* ... has no invitation pending, ...
CheckNoneWaits(h) ==
  /\ Doing(h, "offer", "pending")
  /\ Proceed(h, OffersPending(job[h].family, job[h].to) = {}, "insert")

\* ... which a unique index checks again when the row is inserted.
InsertOffer(h) ==
  LET j == job[h] IN
  /\ Doing(h, "offer", "insert")
  /\ IF OffersPending(j.family, j.to) # {} THEN Break(h) /\ UNCHANGED offers
     ELSE /\ offers' = [offers EXCEPT ![j.key] =
                          [status |-> "pending", family |-> j.family, from |-> j.from, to |-> j.to]]
          /\ Goto(h, "notify")
  /\ UNCHANGED <<ledgerVars, families, members, contended>>

NotifyOffer(h) ==
  /\ Doing(h, "offer", "notify")
  /\ Notify(h)
  /\ UNCHANGED <<ledgerVars, familyVars>>

\* acceptInvite: the invitation is pending, ...
StartJoin(h, i) ==
  /\ offers[i].status = "pending"
  /\ Work(h, [op |-> "join", at |-> "free", key |-> i, family |-> offers[i].family,
              account |-> offers[i].to])
  /\ UNCHANGED issued

\* ... the invitee is in no family, ...
CheckFree(h) ==
  /\ Doing(h, "join", "free")
  /\ Proceed(h, FamiliesOf(job[h].account) = {}, "member")

\* ... and was not banned; a former member's row is used again.
FindMember(h) ==
  LET was == members[<<job[h].family, job[h].account>>].status IN
  /\ Doing(h, "join", "member")
  /\ Proceed(h, was # "banned", IF was = "none" THEN "insert" ELSE "rejoin")

\* INSERT or UPDATE of the membership.  Either fails when the account has
\* become active elsewhere, the INSERT also when the row exists by now.
Join(h) ==
  LET p == <<job[h].family, job[h].account>> IN
  /\ job[h].op = "join" /\ job[h].at \in {"insert", "rejoin"}
  /\ IF \/ FamiliesOf(p[2]) \ {p[1]} # {}
        \/ job[h].at = "insert" /\ members[p] # NoMember
     THEN Break(h) /\ UNCHANGED members
     ELSE /\ members' = [members EXCEPT ![p].role = "member", ![p].status = "active"]
          /\ Goto(h, "accepted")
  /\ UNCHANGED <<ledgerVars, families, offers, contended>>

MarkJoined(h) ==
  /\ Doing(h, "join", "accepted")
  /\ offers' = [offers EXCEPT ![job[h].key].status = "accepted"]
  /\ Goto(h, "notify")
  /\ UNCHANGED <<ledgerVars, families, members, contended>>

NotifyJoin(h) ==
  /\ Doing(h, "join", "notify")
  /\ Notify(h)
  /\ UNCHANGED <<ledgerVars, familyVars>>

\* declineInvite, and revokeInvite by the inviter or by somebody else, whose
\* rank is looked up first.
StartWithdraw(h, i, status, a) ==
  /\ offers[i].status = "pending"
  /\ status = "declined" => a = offers[i].to
  /\ Work(h, [op |-> "withdraw", key |-> i, family |-> offers[i].family, status |-> status,
              account |-> a,
              at |-> IF status = "revoked" /\ a # offers[i].from THEN "rank" ELSE "update"])
  /\ UNCHANGED issued

CheckRevoker(h) ==
  /\ Doing(h, "withdraw", "rank")
  /\ Proceed(h, Outranks(job[h].family, job[h].account, "admin"), "update")

Withdraw(h) ==
  /\ Doing(h, "withdraw", "update")
  /\ offers' = [offers EXCEPT ![job[h].key].status = job[h].status]
  /\ Finish(h)
  /\ UNCHANGED <<ledgerVars, families, members, contended>>
-----------------------------
\* What each act of moderation asks of who acts (read first) and of the row
\* it is done to (read next).
MayAct(f, act, a) ==
  /\ Belongs(f, a)
  /\ act = "unban" => Outranks(f, a, "admin")
  /\ act \in {"promote", "demote", "transfer"} => Outranks(f, a, "owner")

\* Mutant: a kick does not ask whether the row is active.
MayBeDoneToAny(act, row, rank) ==
  CASE act \in {"kick", "ban"} -> row.status # "none" /\ rank > RoleRank[row.role]
    [] act = "unban" -> row.status = "banned"
    [] act = "promote" -> row.status = "active" /\ row.role = "member"
    [] act = "demote" -> row.status = "active" /\ row.role = "admin"
    [] act = "transfer" -> row.status = "active"

MayBeDone(act, row, rank) ==
  CASE act = "kick" -> row.status = "active" /\ rank > RoleRank[row.role]
    [] act = "ban" -> row.status \in {"active", "left", "kicked"} /\ rank > RoleRank[row.role]
    [] act = "unban" -> row.status = "banned"
    [] act = "promote" -> row.status = "active" /\ row.role = "member"
    [] act = "demote" -> row.status = "active" /\ row.role = "admin"
    [] act = "transfer" -> row.status = "active"

Done(act, row) ==
  CASE act = "kick" -> [row EXCEPT !.status = "kicked"]
    [] act = "ban" -> [row EXCEPT !.status = "banned"]
    [] act \in {"unban", "leave"} -> [row EXCEPT !.status = "left"]
    [] act = "promote" -> [row EXCEPT !.role = "admin"]
    [] act = "demote" -> [row EXCEPT !.role = "member"]

StartModeration(h, f, act, a, b) ==
  /\ a # b /\ MayAct(f, act, a)
  /\ Work(h, [op |-> "moderate", at |-> "target", key |-> f, family |-> f, act |-> act,
              account |-> a, target |-> b, rank |-> RoleRank[members[<<f, a>>].role]])
  /\ UNCHANGED issued

CheckModerated(h) ==
  LET j == job[h] IN
  /\ Doing(h, "moderate", "target")
  /\ Proceed(h, MayBeDone(j.act, members[<<j.family, j.target>>], j.rank),
             IF j.act = "transfer" THEN "owner" ELSE "write")

\* leaveFamily reads one row, the account's own, which is not the owner's.
StartLeave(h, f, a) ==
  /\ Belongs(f, a) /\ ~Outranks(f, a, "owner")
  /\ Work(h, [op |-> "moderate", at |-> "write", key |-> f, family |-> f, act |-> "leave",
              account |-> a, target |-> a])
  /\ UNCHANGED issued

WriteMember(h) ==
  /\ Doing(h, "moderate", "write")
  /\ members' = [members EXCEPT ![<<job[h].family, job[h].target>>] = Done(job[h].act, @)]
  /\ Finish(h)
  /\ UNCHANGED <<ledgerVars, families, offers, contended>>

\* transferOwnership: the family's owner, the new owner's role, the old one's.
SetOwner(h) ==
  /\ Doing(h, "moderate", "owner")
  /\ families' = [families EXCEPT ![job[h].family].owner = job[h].target]
  /\ Goto(h, "newRole")
  /\ UNCHANGED <<ledgerVars, members, offers, contended>>

SetRole(h, a, role) ==
  /\ members' = [members EXCEPT ![<<job[h].family, a>>].role = role]
  /\ UNCHANGED <<ledgerVars, families, offers, contended>>

\* Mutant: the old owner steps down before the new one is in place.
StepDownFirst(h) ==
  /\ Doing(h, "moderate", "newRole")
  /\ SetRole(h, job[h].account, "admin")
  /\ Goto(h, "oldRole")

RaiseNewOwner(h) ==
  /\ Doing(h, "moderate", "newRole")
  /\ SetRole(h, job[h].target, "owner")
  /\ Goto(h, "oldRole")

LowerOldOwner(h) ==
  /\ Doing(h, "moderate", "oldRole")
  /\ SetRole(h, job[h].account, "admin")
  /\ Finish(h)
-----------------------------
DonationDebit(a, n) ==
  [account |-> a, currency |-> "coins", direction |-> "debit",
   amount |-> DonationCoins, key |-> n]

\* donate: membership, debit, contribution.
StartDonation(h, f, a) ==
  /\ Belongs(f, a)
  /\ \E n \in DonationIds \ issued :
        /\ Work(h, [op |-> "donate", at |-> "debit", key |-> n, family |-> f, account |-> a])
        /\ issued' = issued \cup {n}

DebitDonation(h) ==
  LET r == DonationDebit(job[h].account, job[h].key) IN
  /\ Doing(h, "donate", "debit")
  /\ Settle(r)
  /\ IF Succeeds(r) THEN Goto(h, "contribute") ELSE Finish(h)
  /\ UNCHANGED familyVars

\* addContribution locks the family's row; it does not look at the member's
\* status again.
AddContribution(h) ==
  LET f == job[h].family
      total == families[f].xp + DonationCoins IN
  /\ Doing(h, "donate", "contribute")
  /\ members' = [members EXCEPT ![<<f, job[h].account>>].contribution = @ + DonationCoins]
  /\ \E estimate \in 0..total :
       families' = [families EXCEPT ![f].xp = total,
                                    ![f].level = LevelFrom(estimate, FamilyFactor, total)]
  /\ Finish(h)
  /\ UNCHANGED <<ledgerVars, offers, contended>>
-----------------------------
FamilyStep(h) ==
  \/ CreateFamily(h)
  \/ CheckTarget(h) \/ CheckNoneWaits(h) \/ InsertOffer(h) \/ NotifyOffer(h)
  \/ CheckFree(h) \/ FindMember(h) \/ Join(h) \/ MarkJoined(h) \/ NotifyJoin(h)
  \/ CheckRevoker(h) \/ Withdraw(h)
  \/ CheckModerated(h) \/ WriteMember(h)
  \/ SetOwner(h) \/ RaiseNewOwner(h) \/ LowerOldOwner(h)
  \/ DebitDonation(h) \/ AddContribution(h)

FamilyRequest(h) ==
  \/ \E a \in Accounts : StartCreate(h, a)
  \/ \E f \in FamilyIds, a, b \in Accounts :
        \/ StartOffer(h, f, a, b)
        \/ \E act \in {"kick", "ban", "unban", "promote", "demote", "transfer"} :
              StartModeration(h, f, act, a, b)
  \/ \E f \in FamilyIds, a \in Accounts : StartLeave(h, f, a) \/ StartDonation(h, f, a)
  \/ \E i \in OfferIds :
        \/ StartJoin(h, i)
        \/ \E status \in {"declined", "revoked"}, a \in Accounts : StartWithdraw(h, i, status, a)
=============================
