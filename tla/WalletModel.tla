-------- MODULE WalletModel --------
(***************************************************************************)
(* What the wallet's specifications share: who has a wallet, what a row of *)
(* wallet_transactions holds, and when a history of such rows adds up.     *)
(*                                                                         *)
(* Inputs are the ones database/models/wallet.model.js lets through: a     *)
(* known currency, a positive integer amount and a well-formed             *)
(* idempotency key.  A call that fails these checks touches nothing.       *)
(***************************************************************************)
EXTENDS Integers, Sequences, AccountIds

CONSTANTS Currencies,   \* 'coins' and 'diamonds'
          Keys,         \* idempotency keys
          Amounts       \* amounts callers ask for

ASSUME AmountsPositive == Amounts \subseteq Nat \ {0}

Directions == {"credit", "debit"}

\* The arguments of credit() and debit() for an id of the set Ids.
Request(Ids) == [account : Ids, currency : Currencies,
                 direction : Directions, amount : Amounts, key : Keys]

\* A row of wallet_transactions.
Row == [account : Accounts, currency : Currencies, direction : Directions,
        amount : Amounts, key : Keys, balanceAfter : Nat]

Delta(r) == IF r.direction = "credit" THEN r.amount ELSE -r.amount

RowOf(r, after) ==
  [account |-> r.account, currency |-> r.currency, direction |-> r.direction,
   amount |-> r.amount, key |-> r.key, balanceAfter |-> after]

\* The comparison that turns a reused key into 409 "was already used for a
\* different wallet operation".
SameOperation(row, r) ==
  /\ row.currency = r.currency
  /\ row.direction = r.direction
  /\ row.amount = r.amount

\* The balance a history of rows of one account and currency ends in.
LastBalance(rows) == IF rows = <<>> THEN 0 ELSE rows[Len(rows)].balanceAfter

\* Every row starts from the balance the row before it left.
Chained(rows) ==
  \A i \in DOMAIN rows :
     rows[i].balanceAfter =
        (IF i = 1 THEN 0 ELSE rows[i - 1].balanceAfter) + Delta(rows[i])
=============================
