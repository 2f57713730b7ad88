-------- MODULE Store --------
(***************************************************************************)
(* store.service.js: the price is debited under a fresh purchaseId, then   *)
(* the item is granted under the same id.  And what staff hand out without *)
(* a purchase: items (inventory-admin.service.js), and coins given or      *)
(* taken back (admin-panel.service.js), noted afterwards in the audit log. *)
(***************************************************************************)
EXTENDS WalletLedger, RequestHandlers, Staff

CONSTANTS PurchaseIds,      \* ids purchases may draw
          ItemPrice,        \* unitCost * quantity of the item on sale
          HandoutIds,       \* ids what staff hand out may draw
          HandoutCoins,     \* coins staff give or take back at a time
          InventoryAdmins   \* the accounts of INVENTORY_ADMIN_IDS

ASSUME PurchasesAreKeys == PurchaseIds \cup HandoutIds \subseteq Ids \cap Keys

VARIABLES inventory,   \* the table inventory_items
          noted,       \* entries of audit_log about what was handed out
          unnoted      \* history: ids whose entry could not be written

storeVars == <<inventory, noted, unnoted>>

StoreInit == inventory = {} /\ noted = {} /\ unnoted = {}

\* A row of the table; what it was bought as is left out.
ItemRow == [account : Accounts, ref : PurchaseIds \cup HandoutIds,
            source : {"store_purchase", "admin"}]
Item(a, k, source) == [account |-> a, ref |-> k, source |-> source]

StoreDebit(a, k) ==
  [account |-> a, currency |-> "coins", direction |-> "debit",
   amount |-> ItemPrice, key |-> k]

StartPurchase(h, a) ==
  \E k \in PurchaseIds \ issued :
     /\ Accept(h, [op |-> "store", at |-> "debit", key |-> k, account |-> a])
     /\ issued' = issued \cup {k}
     /\ UNCHANGED <<ledgerVars, storeVars>>

\* Mutant: an emptied wallet is taken for a refused debit.
DebitOffByOne(h) ==
  LET r == StoreDebit(job[h].account, job[h].key) IN
  /\ Doing(h, "store", "debit")
  /\ Settle(r)
  /\ IF balance'[r.account]["coins"] > 0 THEN Goto(h, "grant") ELSE Finish(h)
  /\ UNCHANGED storeVars

\* An unaffordable price ends the purchase with nothing granted.
DebitPurchase(h) ==
  LET r == StoreDebit(job[h].account, job[h].key) IN
  /\ Doing(h, "store", "debit")
  /\ Settle(r)
  /\ IF Succeeds(r) THEN Goto(h, "grant") ELSE Finish(h)
  /\ UNCHANGED storeVars

\* INSERT ... ON CONFLICT (reference_id, item_id) DO NOTHING.
Grant(h) ==
  /\ Doing(h, "store", "grant")
  /\ inventory' = inventory \cup {Item(job[h].account, job[h].key, "store_purchase")}
  /\ Finish(h)
  /\ UNCHANGED <<ledgerVars, noted, unnoted>>
-----------------------------
\* The allowlist and the roles of staff are both good for items.
MayHandOut(by, what) ==
  IF what = "item" THEN by \in InventoryAdmins \/ HasPermission(by, "inventory:grant")
  ELSE HasPermission(by, "economy:manage")

Handout(j) == [by |-> j.by, what |-> j.what, account |-> j.account, ref |-> j.key]

HandoutMove(d) ==
  [account |-> d.account, currency |-> "coins", direction |-> d.what,
   amount |-> HandoutCoins, key |-> d.ref]

StartHandout(h, by, what, a) ==
  /\ MayHandOut(by, what)
  /\ \E k \in HandoutIds \ issued :
       /\ Accept(h, [op |-> "handout", at |-> "give", key |-> k,
                     by |-> by, what |-> what, account |-> a])
       /\ issued' = issued \cup {k}
  /\ UNCHANGED <<ledgerVars, storeVars>>

GiveItem(h) ==
  /\ Doing(h, "handout", "give") /\ job[h].what = "item"
  /\ inventory' = inventory \cup {Item(job[h].account, job[h].key, "admin")}
  /\ Goto(h, "note")
  /\ UNCHANGED <<ledgerVars, noted, unnoted>>

\* adjustBalance: a debit the account cannot pay ends the request, unnoted.
AdjustBalance(h) ==
  LET r == HandoutMove(Handout(job[h])) IN
  /\ Doing(h, "handout", "give") /\ job[h].what \in Directions
  /\ Settle(r)
  /\ IF Succeeds(r) THEN Goto(h, "note") ELSE Finish(h)
  /\ UNCHANGED storeVars

\* auditService.record, whose own errors are logged and swallowed.
NoteHandout(h) ==
  /\ Doing(h, "handout", "note")
  /\ \/ noted' = noted \cup {Handout(job[h])} /\ UNCHANGED unnoted
     \/ unnoted' = unnoted \cup {job[h].key} /\ UNCHANGED noted
  /\ Finish(h)
  /\ UNCHANGED <<ledgerVars, inventory>>

StoreStep(h) == DebitPurchase(h) \/ Grant(h) \/ GiveItem(h) \/ AdjustBalance(h) \/ NoteHandout(h)
=============================
