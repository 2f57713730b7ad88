-------- MODULE Guards --------
(***************************************************************************)
(* guard.service.js and PostgresGuardRepository: a fan pays for days of    *)
(* guarding a host.  renewGuard reads the row FOR UPDATE, which locks a    *)
(* row that exists and nothing when there is none: two first purchases     *)
(* both go on to INSERT, where the unique index (fan_id, host_id) lets one *)
(* of them in and fails the other, whose coins are spent.                  *)
(***************************************************************************)
EXTENDS WalletLedger, RequestHandlers

CONSTANTS GuardIds,     \* ids guard purchases may draw
          TierCoins,    \* price of the tier on sale
          TierDays      \* days it buys

ASSUME GuardsAreKeys == GuardIds \subseteq Ids \cap Keys
ASSUME TierDaysType == TierDays \in Nat

VARIABLE guards   \* <<fan, host>> -> contribution and expiry of the row

\* A row of the table, and what stands for one that is not there.
GuardRow == [total : Nat, expires : Nat]
NoGuard == [total |-> 0, expires |-> -1]

GuardsInit == guards = [p \in Accounts \X Accounts |-> NoGuard]

GuardDebit(fan, k) ==
  [account |-> fan, currency |-> "coins", direction |-> "debit",
   amount |-> TierCoins, key |-> k]

StartGuard(h, fan, host) ==
  /\ fan # host
  /\ \E k \in GuardIds \ issued :
       /\ Accept(h, [op |-> "guard", at |-> "debit", key |-> k,
                     pair |-> <<fan, host>>, now |-> time])
       /\ issued' = issued \cup {k}
  /\ UNCHANGED <<ledgerVars, guards>>

\* The clock handed to renewGuard is read when the debit returns.
DebitGuard(h) ==
  LET r == GuardDebit(job[h].pair[1], job[h].key) IN
  /\ Doing(h, "guard", "debit")
  /\ Settle(r)
  /\ IF Succeeds(r)
     THEN /\ job' = [job EXCEPT ![h].at = "renew", ![h].now = time]
          /\ UNCHANGED <<accepted, issued, dropped, time, notices>>
     ELSE Finish(h)
  /\ UNCHANGED guards

\* Mutant: every renewal starts from now.
RenewedFromNow(g, now) == [total |-> g.total + TierCoins, expires |-> now + TierDays]

\* Still active: extend from the current expiry; lapsed: restart from now.
Renewed(g, now) ==
  [total |-> g.total + TierCoins,
   expires |-> (IF g.expires > now THEN g.expires ELSE now) + TierDays]

\* The row exists: it is locked, updated and committed while others wait.
RenewGuard(h) ==
  /\ Doing(h, "guard", "renew")
  /\ guards[job[h].pair] # NoGuard
  /\ guards' = [guards EXCEPT ![job[h].pair] = Renewed(@, job[h].now)]
  /\ Goto(h, "notify")
  /\ UNCHANGED ledgerVars

\* There is no row to lock: on to INSERT, with nothing held.
SeeNoGuard(h) ==
  /\ Doing(h, "guard", "renew")
  /\ guards[job[h].pair] = NoGuard
  /\ Goto(h, "insert")
  /\ UNCHANGED <<ledgerVars, guards>>

InsertGuard(h) ==
  /\ Doing(h, "guard", "insert")
  /\ guards[job[h].pair] = NoGuard
  /\ guards' = [guards EXCEPT ![job[h].pair] = Renewed(NoGuard, job[h].now)]
  /\ Goto(h, "notify")
  /\ UNCHANGED ledgerVars

\* Mutant: the INSERT is tried again for ever.
InsertAgain(h) ==
  /\ Doing(h, "guard", "insert")
  /\ guards[job[h].pair] # NoGuard
  /\ UNCHANGED <<handlerVars, ledgerVars, guards>>

\* Unique violation: ROLLBACK and an error for the caller.
InsertLoses(h) ==
  /\ Doing(h, "guard", "insert")
  /\ guards[job[h].pair] # NoGuard
  /\ Break(h)
  /\ UNCHANGED <<ledgerVars, guards>>

NotifyGuard(h) ==
  /\ Doing(h, "guard", "notify")
  /\ Notify(h)
  /\ UNCHANGED <<ledgerVars, guards>>

GuardStep(h) ==
  \/ DebitGuard(h) \/ RenewGuard(h) \/ SeeNoGuard(h) \/ InsertGuard(h)
  \/ InsertLoses(h) \/ NotifyGuard(h)
=============================
