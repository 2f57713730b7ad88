-------- MODULE WalletLedger --------
(***************************************************************************)
(* What a wallet promises: credit and debit are atomic, an amount is       *)
(* applied at most once per account and idempotency key, and no balance    *)
(* goes below zero.  It is also what InMemoryWalletRepository does, whose  *)
(* _apply runs to its end without yielding; WalletPg shows that the        *)
(* statement-by-statement transaction of PostgresWalletRepository          *)
(* implements it.  The services that move coins are specified over it.     *)
(***************************************************************************)
EXTENDS WalletModel

VARIABLES balance,   \* account -> currency -> amount held
          ledger     \* account -> currency -> rows, oldest first

ledgerVars == <<balance, ledger>>

\* Row row is in the history of its account.
InLedger(row) ==
  \E i \in DOMAIN ledger[row.account][row.currency] :
     ledger[row.account][row.currency][i] = row

\* An earlier call of account a used key k.
KeyUsed(a, k) ==
  \E cur \in Currencies : \E i \in DOMAIN ledger[a][cur] :
     ledger[a][cur][i].key = k

Affordable(r) == balance[r.account][r.currency] + Delta(r) >= 0

LedgerInit ==
  /\ balance = [a \in Accounts |-> [cur \in Currencies |-> 0]]
  /\ ledger = [a \in Accounts |-> [cur \in Currencies |-> <<>>]]

\* The one step that changes anything.  A replayed key and an unaffordable
\* debit leave the wallet as it was.
Apply(r) ==
  LET next == balance[r.account][r.currency] + Delta(r) IN
  /\ ~KeyUsed(r.account, r.key)
  /\ Affordable(r)
  /\ balance' = [balance EXCEPT ![r.account][r.currency] = next]
  /\ ledger' = [ledger EXCEPT ![r.account][r.currency] =
                                 Append(@, RowOf(r, next))]

\* What the caller is told.  The order is that of PostgresWalletRepository,
\* which moves the balance before it looks at the key; the in-memory
\* repository looks at the key first and would answer "replayed" to a debit
\* that could no longer be afforded.
Outcome(r) ==
  IF ~Affordable(r) THEN "refused"
  ELSE IF ~KeyUsed(r.account, r.key) THEN "applied"
  ELSE IF \E cur \in Currencies : \E i \in DOMAIN ledger[r.account][cur] :
            /\ ledger[r.account][cur][i].key = r.key
            /\ SameOperation(ledger[r.account][cur][i], r)
       THEN "replayed" ELSE "conflict"

Succeeds(r) == Outcome(r) \in {"applied", "replayed"}

\* A call of credit or debit, whatever its outcome.
Settle(r) ==
  IF Outcome(r) = "applied" THEN Apply(r) ELSE UNCHANGED ledgerVars

LedgerNext == \E r \in Request(Accounts) : Apply(r)

LedgerSpec == LedgerInit /\ [][LedgerNext]_ledgerVars
=============================
