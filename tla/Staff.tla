-------- MODULE Staff --------
(***************************************************************************)
(* security/staff.js: what the accounts named in STAFF_ROLES may do.       *)
(***************************************************************************)
CONSTANT StaffRoles   \* the entries of STAFF_ROLES: an account, and the words after it

\* ROLE_PERMISSIONS.
Permissions ==
  {"users:view", "account:suspend", "account:unsuspend", "content:review", "bans:manage",
   "reports:view", "reports:resolve", "inventory:grant", "economy:manage", "recharge:view",
   "gifts:manage", "games:manage", "rooms:manage", "tickets:manage", "support:view",
   "analytics:view", "audit:view", "staff:manage"}

RolePermissions ==
  [support    |-> {"users:view", "tickets:manage", "support:view", "reports:view"},
   moderator  |-> {"users:view", "content:review", "bans:manage", "reports:view",
                   "reports:resolve", "account:suspend", "account:unsuspend"},
   admin      |-> Permissions \ {"staff:manage"},
   superadmin |-> Permissions]

\* loadStaffFromEnv: the entries of an account are added up, and words that
\* are not roles are left out.
RolesOf(a) == DOMAIN RolePermissions \cap UNION {e.roles : e \in {x \in StaffRoles : x.id = a}}

HasPermission(a, permission) == \E role \in RolesOf(a) : permission \in RolePermissions[role]
=============================
