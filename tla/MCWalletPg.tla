-------- MODULE MCWalletPg --------
(***************************************************************************)
(* A small instance of WalletPg: one account, two connections, six calls   *)
(* that share three keys.  Two credits of 2 pass MaxSafe, a third credit   *)
(* after them passes MaxBigint, the debits meet balances that refuse them, *)
(* and two keys are reused for another operation or another currency.      *)
(***************************************************************************)
EXTENDS WalletPg

CONSTANTS a1, x, k1, k2, k3

Call(a, cur, dir, amt, k) ==
  [account |-> a, currency |-> cur, direction |-> dir, amount |-> amt, key |-> k]

MCCalls == {Call(a1, "coins", "credit", 2, k1),
            Call(a1, "coins", "credit", 2, k2),
            Call(a1, "coins", "debit", 2, k3),
            Call(a1, "coins", "debit", 1, k1),
            Call(a1, "diamonds", "credit", 1, k3),
            Call(x, "coins", "credit", 1, k1)}
=============================
