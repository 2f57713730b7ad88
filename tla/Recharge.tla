-------- MODULE Recharge --------
(***************************************************************************)
(* Buying coins with money: recharge.service.js over the orders table and  *)
(* the wallet.  The purchase is verified with the store it was made in,    *)
(* which is I/O, so two completions of one order may both get through it.  *)
(***************************************************************************)
EXTENDS WalletLedger, RequestHandlers

CONSTANTS Orders,        \* ids of recharge orders
          PackageCoins,  \* coins of the package on sale
          VipSteps, SvipSteps   \* VIP_THRESHOLDS and SVIP_THRESHOLDS

ASSUME OrdersAreKeys == Orders \subseteq Ids \cap Keys
ASSUME StepsFromZero ==
  \A steps \in {VipSteps, SvipSteps} : steps \in Seq(Nat) /\ steps # <<>> /\ steps[1] = 0

VARIABLES orders,     \* order -> its account and status
          lifetime,   \* account -> lifetimeDiamondsRecharged
          tiers       \* account -> its vip and svip

rechargeVars == <<orders, lifetime, tiers>>

\* tierForAmount: the last threshold that is reached; the first is 0, which
\* is tier 0.
TierFor(amount, steps) ==
  (CHOOSE i \in DOMAIN steps : /\ amount >= steps[i]
                              /\ \A k \in DOMAIN steps : amount >= steps[k] => k <= i) - 1
Tiers(amount) == [vip |-> TierFor(amount, VipSteps), svip |-> TierFor(amount, SvipSteps)]

\* A row of the table, and what stands for one that is not there.
OrderRow == [account : Accounts, status : {"pending", "failed", "completed"}]
NoOrder == [account |-> "none", status |-> "none"]

RechargeInit ==
  /\ orders = [o \in Orders |-> NoOrder]
  /\ lifetime = [a \in Accounts |-> 0]
  /\ tiers = [a \in Accounts |-> Tiers(0)]

\* idempotencyKey = orderId.
RechargeCredit(o) ==
  [account |-> orders[o].account, currency |-> "coins", direction |-> "credit",
   amount |-> PackageCoins, key |-> o]

\* createOrder: a pending order, nothing credited.
CreateOrder(a) ==
  \E o \in Orders \ issued :
     /\ accepted < MaxRequests
     /\ accepted' = accepted + 1
     /\ issued' = issued \cup {o}
     /\ orders' = [orders EXCEPT ![o] = [account |-> a, status |-> "pending"]]
     /\ UNCHANGED <<job, dropped, time, notices, ledgerVars, lifetime, tiers>>

\* completeOrder: 404 and 403 change nothing, a completed order is returned
\* as it is, any other status goes on to verification.
StartComplete(h) ==
  /\ \E o \in Orders :
       /\ orders[o].status \in {"pending", "failed"}
       /\ Accept(h, [op |-> "recharge", at |-> "verify", key |-> o])
  /\ UNCHANGED <<issued, ledgerVars, rechargeVars>>

\* The provider's answer, which may also be no answer.
VerifyOk(h) ==
  /\ Doing(h, "recharge", "verify")
  /\ Goto(h, "credit")
  /\ UNCHANGED <<ledgerVars, rechargeVars>>

VerifyFails(h) ==
  /\ Doing(h, "recharge", "verify")
  /\ Goto(h, "markFailed")
  /\ UNCHANGED <<ledgerVars, rechargeVars>>

\* Mutant: a failure is recorded whatever became of the order.
MarkFailedAlways(h) ==
  /\ Doing(h, "recharge", "markFailed")
  /\ orders' = [orders EXCEPT ![job[h].key].status = "failed"]
  /\ Finish(h)
  /\ UNCHANGED <<ledgerVars, lifetime, tiers>>

\* UPDATE ... SET status = 'failed' WHERE status <> 'completed', then the
\* error goes to the caller.
MarkFailed(h) ==
  /\ Doing(h, "recharge", "markFailed")
  /\ orders' = [orders EXCEPT ![job[h].key].status =
                                 IF @ = "completed" THEN @ ELSE "failed"]
  /\ Finish(h)
  /\ UNCHANGED <<ledgerVars, lifetime, tiers>>

\* The key is used for this credit only, so it succeeds.
CreditOrder(h) ==
  /\ Doing(h, "recharge", "credit")
  /\ Settle(RechargeCredit(job[h].key))
  /\ Goto(h, "markCompleted")
  /\ UNCHANGED rechargeVars

\* UPDATE ... SET status = 'completed', wallet_transaction_id = ... WHERE
\* status <> 'completed'.  Whether a row changed is not looked at.
MarkCompleted(h) ==
  /\ Doing(h, "recharge", "markCompleted")
  /\ orders' = [orders EXCEPT ![job[h].key].status = "completed"]
  /\ Goto(h, "lifetime")
  /\ UNCHANGED <<ledgerVars, lifetime, tiers>>

\* addLifetimeRecharge: one transaction that locks the account's row.
AddLifetime(h) ==
  /\ Doing(h, "recharge", "lifetime")
  /\ LET a == orders[job[h].key].account IN
     /\ lifetime' = [lifetime EXCEPT ![a] = @ + PackageCoins]
     /\ tiers' = [tiers EXCEPT ![a] = Tiers(lifetime'[a])]
  /\ Goto(h, "notify")
  /\ UNCHANGED <<ledgerVars, orders>>

NotifyPayment(h) ==
  /\ Doing(h, "recharge", "notify")
  /\ Notify(h)
  /\ UNCHANGED <<ledgerVars, rechargeVars>>

RechargeStep(h) ==
  \/ VerifyOk(h) \/ VerifyFails(h) \/ MarkFailed(h) \/ CreditOrder(h)
  \/ MarkCompleted(h) \/ AddLifetime(h) \/ NotifyPayment(h)

RechargeNext ==
  \/ \E a \in Accounts : CreateOrder(a)
  \/ \E h \in Handlers : StartComplete(h) \/ RechargeStep(h)
=============================
