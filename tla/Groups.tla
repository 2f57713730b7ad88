-------- MODULE Groups --------
(***************************************************************************)
(* Families and couples: who belongs with whom.  Both are kept by services *)
(* that check and then write, and both promise that an account belongs to  *)
(* one at a time.  The two services share no row, so requests to one are   *)
(* not interleaved with requests to the other: serving says, from the      *)
(* start, which of the two the handlers work for.                          *)
(***************************************************************************)
EXTENDS Families, Couples, Functions, FiniteSets

ASSUME GroupsFinite ==
  IsFiniteSet(Accounts) /\ IsFiniteSet(FamilyIds) /\ IsFiniteSet(DonationIds)

VARIABLE serving

groupVars == <<ledgerVars, handlerVars, familyVars, coupleVars, serving>>

GroupsInit ==
  /\ SeededLedger
  /\ HandlersInit(DOMAIN FamilySeed)
  /\ FamiliesInit
  /\ CouplesInit
  /\ serving \in {"families", "couples"}

Belonging ==
  /\ serving = "families"
  /\ \E h \in Handlers : FamilyStep(h) \/ (Ready(h) /\ FamilyRequest(h))
  /\ UNCHANGED coupleVars

Pairing ==
  /\ serving = "couples"
  /\ \/ PairingRequest \/ UnpairRequest
     \/ \E h \in Handlers : PairingStep(h) \/ UnpairStep(h)
  /\ UNCHANGED <<ledgerVars, familyVars>>

CutOff ==
  /\ \E h \in Handlers : Interrupted(h)
  /\ UNCHANGED <<ledgerVars, familyVars, coupleVars>>

GroupsNext ==
  /\ Belonging \/ Pairing \/ CutOff
  /\ UNCHANGED serving

GroupsSpec == GroupsInit /\ [][GroupsNext]_groupVars
-----------------------------
GroupsTypeOK ==
  /\ balance \in [Accounts -> [Currencies -> Nat]]
  /\ \A h \in Handlers : job[h] = Idle \/ job[h].key \in Ids
  /\ notices \in [Ids -> Nat]
  /\ FamiliesTyped /\ CouplesTyped

\* An account is active in one family at most, however the creation of one
\* overlaps the acceptance of an invitation to another (schema/017).
OneFamily == \A a \in Accounts : Cardinality(FamiliesOf(a)) <= 1

Owners(f) == {a \in Accounts : Belongs(f, a) /\ members[<<f, a>>].role = "owner"}

\* A family whose requests did not overlap always has an active owner, also
\* when a transfer was cut off; and when none was, the owner's role and
\* families.owner_id name the same account (family.service.js:26-27, 273-274).
OwnerInPlace ==
  \A f \in FamilyIds \ contended : families[f] # NoFamily =>
     /\ Owners(f) # {}
     /\ \/ Owners(f) = {families[f].owner}
        \/ InFlight("moderate", f, {"newRole", "oldRole"})
        \/ f \in dropped

\* A banned account comes back only after it was unbanned, to a family whose
\* requests did not overlap (family.service.js:19-20).
BannedStaysOut ==
  [][\A f \in FamilyIds \ contended, a \in Accounts :
       members[<<f, a>>].status = "banned" => members'[<<f, a>>].status \in {"banned", "left"}]_members

\* A family's xp is what its members contributed, former ones included, its
\* level is the one the xp reaches, and
\* what an account contributed is what it was debited for donations, short
\* of requests under way or cut off (family.service.js:283-305).
DonationsCount ==
  /\ \A f \in FamilyIds :
       /\ families[f].xp = SumFunctionOnSet([a \in Accounts |-> members[<<f, a>>].contribution], Accounts)
       /\ LevelReached(families[f].level, FamilyFactor, families[f].xp)
  /\ \A a \in Accounts :
       LET debits == {n \in DonationIds : a \in Payers(n)}
           settled == {n \in debits \ dropped : ~InFlight("donate", n, {"contribute"})}
           given == SumFunctionOnSet([f \in FamilyIds |-> members[<<f, a>>].contribution], FamilyIds)
       IN given \in DonationCoins * Cardinality(settled) .. DonationCoins * Cardinality(debits)

\* A family has its owner, its members and what they gave.
FamilySound == GroupsTypeOK /\ OneFamily /\ OwnerInPlace /\ DonationsCount

\* An invitation that says accepted came true: the invitee has, or had, a
\* membership of the family, or the two are, or were, a couple.
AcceptedCameTrue ==
  /\ \A i \in OfferIds : offers[i].status = "accepted" =>
       members[<<offers[i].family, offers[i].to>>] # NoMember
  /\ \A i \in InviteIds : invites[i].status = "accepted" =>
       \E c \in CoupleIds : couples[c] # NoCouple
          /\ {couples[c].first, couples[c].second} = {invites[i].from, invites[i].to}

\* No two active couples share their first or their second account, and a
\* couple was invited to be one.
CouplesDistinct ==
  /\ \A c, d \in Active : c # d =>
       couples[c].first # couples[d].first /\ couples[c].second # couples[d].second
  /\ \A c \in CoupleIds : couples[c] # NoCouple =>
       \E i \in InviteIds : invites[i] # NoInvite
          /\ {couples[c].first, couples[c].second} = {invites[i].from, invites[i].to}

\* Invitations and couples answer to each other.
InvitesSound == AcceptedCameTrue /\ CouplesDistinct

\* "so a family can never end up with zero owner" (family.service.js:26-27).
NeverOwnerless == \A f \in FamilyIds : families[f] # NoFamily => Owners(f) # {}

\* "at most one active couple row may reference a given account, on either
\* side" (schema/019_create_couples.sql:52-54).
OnePartner == \A a \in Accounts : Cardinality(CouplesOf(a)) <= 1
=============================
