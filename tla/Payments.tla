-------- MODULE Payments --------
(***************************************************************************)
(* Everything in this project that moves coins for one account at a time,  *)
(* over one wallet: recharge, store, guard, event rewards and referral.    *)
(* The handlers share nothing but the tables, and none of the flows is a   *)
(* transaction from end to end.                                            *)
(***************************************************************************)
EXTENDS WalletSeed, Recharge, Store, Guards, Rewards, Functions, FiniteSets

ASSUME SeedKeyFree == SeedKey \notin Ids

\* A random id is drawn once, and none looks like the key of a reward.
ASSUME KindsApart ==
  LET kinds == <<Orders, PurchaseIds, HandoutIds, GuardIds, RedemptionIds, RewardKeys>>
  IN \A i, k \in DOMAIN kinds : i # k => kinds[i] \cap kinds[k] = {}
\* Tables and a server's accounts are finite.
ASSUME PaymentsFinite == IsFiniteSet(Accounts) /\ IsFiniteSet(Orders) /\ IsFiniteSet(GuardIds)
ASSUME PricesAreAmounts ==
  {PackageCoins, ItemPrice, HandoutCoins, TierCoins, RewardCoins, ReferralCoins} \subseteq Amounts

paymentVars == <<ledgerVars, handlerVars, rechargeVars, storeVars, guards,
                 eventVars, referralVars>>

PaymentsInit ==
  /\ SeededLedger
  /\ HandlersInit({})
  /\ RechargeInit
  /\ StoreInit
  /\ GuardsInit
  /\ EventsInit
  /\ ReferralInit

Recharging ==
  /\ RechargeNext
  /\ UNCHANGED <<storeVars, guards, eventVars, referralVars>>

Buying ==
  /\ \E h \in Handlers : 
        \/ StoreStep(h)
        \/ \E a \in Accounts : StartPurchase(h, a)
        \/ \E by, a \in Accounts, what \in Directions \cup {"item"} : StartHandout(h, by, what, a)
  /\ UNCHANGED <<rechargeVars, guards, eventVars, referralVars>>

Guarding ==
  /\ \E h \in Handlers :
        GuardStep(h) \/ \E fan, host \in Accounts : StartGuard(h, fan, host)
  /\ UNCHANGED <<rechargeVars, storeVars, eventVars, referralVars>>

Rewarding ==
  /\ \E h \in Handlers :
        EventStep(h) \/ \E a \in Accounts : StartShare(h, a) \/ StartClaim(h, a)
  /\ UNCHANGED <<rechargeVars, storeVars, guards, referralVars>>

Referring ==
  /\ \E h \in Handlers :
        \/ ReferralStep(h)
        \/ \E a \in Accounts : StartCode(h, a)
        \/ \E a \in Accounts, c \in codes : StartRedeem(h, a, c)
  /\ UNCHANGED <<rechargeVars, storeVars, guards, eventVars>>

AnyStep(h) ==
  /\ job[h] # Idle
  /\ \/ RechargeStep(h) /\ UNCHANGED <<storeVars, guards, eventVars, referralVars>>
     \/ StoreStep(h) /\ UNCHANGED <<rechargeVars, guards, eventVars, referralVars>>
     \/ GuardStep(h) /\ UNCHANGED <<rechargeVars, storeVars, eventVars, referralVars>>
     \/ EventStep(h) /\ UNCHANGED <<rechargeVars, storeVars, guards, referralVars>>
     \/ ReferralStep(h) /\ UNCHANGED <<rechargeVars, storeVars, guards, eventVars>>

Outside ==
  /\ Tick \/ \E h \in Handlers : Interrupted(h)
  /\ UNCHANGED <<ledgerVars, rechargeVars, storeVars, guards, eventVars, referralVars>>

PaymentsNext ==
  Recharging \/ Buying \/ Guarding \/ Rewarding \/ Referring \/ Outside

PaymentsSpec == PaymentsInit /\ [][PaymentsNext]_paymentVars

\* Every statement a handler waits for is answered or fails.
FairPayments == PaymentsSpec /\ \A h \in Handlers : WF_paymentVars(AnyStep(h))
-----------------------------
\* Guard debits of fan, and the ones among them whose request is neither
\* still at work on the guard nor ended by an error.
GuardDebits(fan) == {k \in GuardIds : fan \in Payers(k)}
GuardDone(fan) ==
  {k \in GuardDebits(fan) \ dropped : ~InFlight("guard", k, {"renew", "insert"})}

PaymentsTypeOK ==
  /\ balance \in [Accounts -> [Currencies -> Nat]]
  /\ \A a \in Accounts : \A cur \in Currencies :
       \A i \in DOMAIN ledger[a][cur] : ledger[a][cur][i] \in Row
  /\ \A h \in Handlers : job[h] = Idle \/ job[h].key \in Ids
  /\ issued \subseteq Ids /\ dropped \subseteq Ids
  /\ orders \in [Orders -> {NoOrder} \cup OrderRow]
  /\ lifetime \in [Accounts -> Nat]
  /\ inventory \subseteq ItemRow
  /\ guards \in [Accounts \X Accounts -> {NoGuard} \cup GuardRow]
  /\ progress \in [Accounts -> ProgressRow] /\ shares \in [Accounts -> Nat]
  /\ \A d \in redemptions : d.id \in RedemptionIds /\ d.status \in {"pending", "completed"}
  /\ notices \in [Ids -> Nat]

\* An order is completed only when its coins are in the ledger, and coins in
\* the ledger belong to an order that is completed, or will be, or whose
\* request was cut off: a verification that fails meanwhile does not take a
\* completed order back (recharge.service.js:47-82).
OrderSettled ==
  \A o \in Orders :
     /\ orders[o].status = "completed" => Moved(RechargeCredit(o))
     /\ Moved(RechargeCredit(o)) =>
          \/ orders[o].status = "completed"
          \/ InFlight("recharge", o, {"markCompleted"})
          \/ o \in dropped

\* Orders of account a whose coins the counter has to hold.
Counted(a) ==
  {o \in Orders \ dropped : /\ orders[o].account = a
                            /\ orders[o].status = "completed"
                            /\ ~InFlight("recharge", o, {"lifetime"})}

\* lifetimeDiamondsRecharged and the VIP and SVIP tiers miss no completed
\* order, unless the request that completed it is on its way to
\* the counter or was cut off before it (recharge.service.js:70-73).
LifetimeCovers ==
  \A a \in Accounts :
     LET due == PackageCoins * Cardinality(Counted(a))
     IN /\ lifetime[a] >= due
        /\ tiers[a].vip >= TierFor(due, VipSteps)
        /\ tiers[a].svip >= TierFor(due, SvipSteps)

\* An order's status, its coins and the counter agree.
RechargeSound == PaymentsTypeOK /\ OrderSettled /\ LifetimeCovers

\* Nothing is handed out or announced without the money behind it: no item
\* without its debit, no redemption completed and no user notified without
\* the coins having moved (store.service.js:3-8).
NothingFree ==
  /\ \A item \in inventory : item.source = "store_purchase" => Moved(StoreDebit(item.account, item.ref))
  /\ \A d \in redemptions : d.status = "completed" => Moved(RedemptionCredit(d))
  /\ \A k \in Ids : notices[k] > 0 => \E row \in CoinRows : row.key = k

\* A debit of the store buys its item: it is in the inventory, or about to be
\* granted, or the request was cut off in between (store.service.js:29-34).
DebitsDelivered ==
  \A k \in PurchaseIds : \A a \in Payers(k) :
     \/ Item(a, k, "store_purchase") \in inventory
     \/ InFlight("store", k, {"grant"})
     \/ k \in dropped

\* What staff gave without a purchase is what the audit log says they gave,
\* short of a request under way or cut off and of an entry that could not be
\* written (inventory-admin.service.js:66-69; admin-panel.service.js:32-34).
HandoutsNoted ==
  LET given == {d \in [by : Accounts, what : Directions \cup {"item"}, account : Accounts, ref : HandoutIds] :
                  IF d.what = "item" THEN Item(d.account, d.ref, "admin") \in inventory
                  ELSE Moved(HandoutMove(d))}
      excused == unnoted \cup dropped \cup {k \in HandoutIds : InFlight("handout", k, {"note"})}
  IN /\ noted \subseteq given
     /\ \A d \in given : d.ref \in excused \cup {e.ref : e \in noted}

\* Goods and money change hands together, or the request was cut off; or
\* staff gave them, and the audit log has it.
DeliveriesPaid == NothingFree /\ DebitsDelivered /\ HandoutsNoted

\* The contributions on record for a fan, host by host.
GuardsOf(fan) == [host \in Accounts |-> guards[<<fan, host>>].total]
Recorded(fan) == SumFunctionOnSet(GuardsOf(fan), Accounts)

\* The contributions recorded for a fan are what the fan was debited, short
\* of debits under way and of those whose request was cut off or lost the
\* race for the first row (guard.repository.js:129-171).
GuardTotals ==
  \A fan \in Accounts :
     /\ Recorded(fan) >= TierCoins * Cardinality(GuardDone(fan))
     /\ Recorded(fan) <= TierCoins * Cardinality(GuardDebits(fan))

\* Renewals add up: a guard lasts at least the days that were paid for, and
\* no longer than those days from now, however renewals interleave and
\* whenever each of them read the clock (guard.repository.js:138-141).
DaysPaidFor ==
  \A p \in Accounts \X Accounts :
     LET days == TierDays * (guards[p].total \div TierCoins)
     IN guards[p] # NoGuard => guards[p].expires \in days .. time + days

\* A guard holds what its fan paid for, in coins and in days.
GuardSound == GuardTotals /\ DaysPaidFor

\* A reward is paid for a claimed mission only, also when a count that was
\* read before the claim is written back after it, and never twice; a
\* claimed mission was paid, or is about to be, or its request was cut off
\* (event.service.js:199-209).
ClaimsPaid ==
  \A a \in Accounts :
     LET paid == {row \in CoinRows : row.key = RewardKey[a]} IN
     /\ Cardinality(paid) <= 1
     /\ paid # {} => progress[a].claimed
     /\ progress[a].claimed => \/ paid # {}
                               \/ InFlight("claim", RewardKey[a], {"credit"})
                               \/ RewardKey[a] \in dropped

\* The mission to share counts no share that was not made, and a share counts
\* unless its request is still at it or was cut off, or the event ended after
\* the share was recorded (event.service.js:172-185).
SharesCounted ==
  \A a \in Accounts :
     /\ progress[a].count <= shares[a]
     /\ shares[a] > 0 => \/ progress[a].count > 0
                         \/ InFlight("share", RewardKey[a], {"progress", "upsert"})
                         \/ RewardKey[a] \in dropped
                         \/ ~EventActive

\* A referral reward in the ledger has its redemption record, and the record
\* says completed unless its request is still at it or was cut off
\* (referral.service.js:28-45).
RedemptionsAccounted ==
  \A row \in CoinRows : row.key \in RedemptionIds =>
     \E d \in redemptions :
        /\ d.id = row.key /\ d.referrer = row.account
        /\ \E c \in codes : c.owner = row.account
        /\ \/ d.status = "completed"
           \/ InFlight("redeem", d.id, {"complete"})
           \/ d.id \in dropped

\* A mission is paid once, for a claim; every share counts; and every referral
\* reward has its record.  That a referrer is rewarded once for a referee is
\* another property, RefereeCreditedOnce.
RewardsPaid == ClaimsPaid /\ SharesCounted /\ RedemptionsAccounted

\* Every accepted request comes to an end: no interleaving leaves a handler
\* at a step it cannot take.
RequestsEnd == \A h \in Handlers : []<>(job[h] = Idle)

\* "a retried complete call can't double-count toward VIP/SVIP either"
\* (recharge.service.js:27-28): the counter never exceeds what the account's
\* orders credited.
LifetimeNotDoubled ==
  \A a \in Accounts :
     lifetime[a] <= PackageCoins * Cardinality({o \in Orders : orders[o].account = a})

\* "even a racing double-call can't double-credit the same referrer for the
\* same referee" (referral.service.js:11-12).
RefereeCreditedOnce ==
  \A d, e \in redemptions :
     /\ d.referee = e.referee /\ d.referrer = e.referrer
     /\ Moved(RedemptionCredit(d)) /\ Moved(RedemptionCredit(e))
     => d.id = e.id

\* "it is the actual list of missions this account has completed and been
\* paid for" (event.service.js:30-32): a claimed mission whose claim is over
\* was paid.
HistoryPaid ==
  \A a \in Accounts :
     progress[a].claimed /\ ~InFlight("claim", RewardKey[a], {"credit"})
       => Moved(RewardCredit(a))
=============================
