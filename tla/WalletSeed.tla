-------- MODULE WalletSeed --------
(***************************************************************************)
(* Wallets that earlier credits have filled: where the specifications of   *)
(* the services that spend coins start from.                               *)
(***************************************************************************)
EXTENDS WalletLedger

CONSTANTS Seed,      \* account -> coins it starts with
          SeedKey    \* the key they were credited under

ASSUME CoinsAreCurrency == "coins" \in Currencies
ASSUME SeedKnown == Seed \in [Accounts -> Amounts \cup {0}] /\ SeedKey \in Keys

SeedRows(a) ==
  IF Seed[a] = 0 THEN <<>>
  ELSE <<[account |-> a, currency |-> "coins", direction |-> "credit",
          amount |-> Seed[a], key |-> SeedKey, balanceAfter |-> Seed[a]]>>

SeededLedger ==
  /\ balance = [a \in Accounts |-> [cur \in Currencies |-> Seed[a]]]
  /\ ledger = [a \in Accounts |-> [cur \in Currencies |-> SeedRows(a)]]

CoinRows == UNION {{ledger[a]["coins"][i] : i \in DOMAIN ledger[a]["coins"]} : a \in Accounts}

\* The ledger holds a row for request r.
Moved(r) == \E row \in CoinRows : row = RowOf(r, row.balanceAfter)

\* Accounts whose debit for id k went through (one at most).
Payers(k) == {row.account : row \in {x \in CoinRows : x.key = k /\ x.direction = "debit"}}
=============================
