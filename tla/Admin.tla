-------- MODULE Admin --------
(***************************************************************************)
(* What staff do to accounts and rooms, and the audit log of it            *)
(* (account-admin.service.js, admin-panel.service.js, audit.service.js).   *)
(* The deed is one statement, its entry in the log a later one, and an     *)
(* entry that cannot be written is let go.                                 *)
(***************************************************************************)
EXTENDS Rooms, Staff

CONSTANTS Admins,    \* staff who act on accounts and rooms in a run
          Nobody     \* suspended_by of an account that is not suspended

VARIABLES suspendedBy,  \* account -> who suspended it, or Nobody
          audit,        \* the table audit_log, oldest first
          deeds,        \* history: suspensions and their ends that were made
          unlogged      \* history: what the audit log failed to record

adminVars == <<suspendedBy, audit, deeds, unlogged>>

AdminInit ==
  /\ suspendedBy = [a \in Accounts |-> Nobody]
  /\ audit = <<>>
  /\ deeds = {}
  /\ unlogged = {}

\* The nth request that was accepted.
Numbered(j) == Merge(j, [nth |-> accepted])
Deed(j) == [action |-> j.op, by |-> j.who, target |-> j.key, began |-> j.began, nth |-> j.nth]

Needed == [suspend |-> "account:suspend", unsuspend |-> "account:unsuspend"]

StartSuspend(h, op, by, a) ==
  /\ HasPermission(by, Needed[op])
  /\ Begin(h, Numbered(Request(op, by, a, "set")))
  /\ UNCHANGED adminVars

\* Mutant: the later suspension of an account takes the place of the earlier.
Resuspend(h) ==
  LET j == job[h] IN
  /\ j.at = "set"
  /\ suspendedBy' = [suspendedBy EXCEPT ![j.key] = IF j.op = "suspend" THEN j.who ELSE Nobody]
  /\ deeds' = deeds \cup {Deed(j)}
  /\ Wrote(h, [j EXCEPT !.at = "audit"])
  /\ UNCHANGED <<audit, unlogged>>

\* UPDATE ... WHERE suspended_at IS NULL, or IS NOT NULL: who suspended an
\* account stays on record until the suspension ends.
SetSuspended(h) ==
  LET j == job[h] IN
  /\ j.at = "set"
  /\ suspendedBy' = [suspendedBy EXCEPT ![j.key] =
                       IF j.op = "unsuspend" THEN Nobody ELSE IF @ = Nobody THEN j.who ELSE @]
  /\ deeds' = deeds \cup {Deed(j)}
  /\ Wrote(h, [j EXCEPT !.at = "audit"])
  /\ UNCHANGED <<audit, unlogged>>

\* closeRoom: an update like the settings of the owner.
CloseRoom(h, by) ==
  /\ HasPermission(by, "rooms:manage")
  /\ Begin(h, Numbered(Updating(Request("closeRoom", by, 1, "update"),
                                {Update(1, [status |-> "closed"])}, "audit")))
  /\ UNCHANGED adminVars

\* audit.record, whether or not the deed changed anything ...
RecordAudit(h) ==
  /\ job[h].at = "audit"
  /\ audit' = Append(audit, [deed |-> Deed(job[h]), wrote |-> writes + 1])
  /\ Wrote(h, [job[h] EXCEPT !.at = "end"])
  /\ UNCHANGED <<suspendedBy, deeds, unlogged>>

\* ... and an error of it is logged and swallowed.
AuditFails(h) ==
  /\ job[h].at = "audit"
  /\ unlogged' = unlogged \cup {Deed(job[h])}
  /\ Become(h, [job[h] EXCEPT !.at = "end"])
  /\ UNCHANGED <<suspendedBy, audit, deeds>>

SuspendRequest(h) ==
  \E by \in Admins, a \in Accounts, op \in DOMAIN Needed : StartSuspend(h, op, by, a)

AdminStep(h) == SetSuspended(h) \/ RecordAudit(h) \/ AuditFails(h)
=============================
