-------- MODULE PaymentProofs --------
(***************************************************************************)
(* Proofs about coins, for every set of accounts, ids, handlers and        *)
(* prices.  About WalletPg, for every set of calls and connections and     *)
(* every width of the integers: the transaction that moves a balance is    *)
(* the atomic wallet.  About Payments, over that wallet: what is delivered *)
(* was paid for, what was paid for is delivered unless its request was cut *)
(* off, rewards are paid once, the lifetime counter covers its orders and  *)
(* guards hold what was paid for them.                                     *)
(***************************************************************************)
EXTENDS Payments, WalletPg, LedgerProofs

(* The wallet's transaction. *)
\* The amount of a request, with its sign, is an integer.
LEMMA DeltaInt ==
  ASSUME NEW r \in Request(Accounts \cup Strangers)
  PROVE  Delta(r) \in Int
<1>1. r.amount \in Nat  BY AmountsPositive DEF Request
<1> QED  BY <1>1 DEF Delta

\* What the INSERT of a request's row writes is a row.
LEMMA RowTyped ==
  ASSUME NEW r \in Request(Accounts \cup Strangers), NEW n \in Nat,
         r.account \in Accounts
  PROVE  RowOf(r, n) \in Row
  BY DEF RowOf, Row, Request

\* Both ends of a transaction keep the types of what they write.
LEMMA UndoTyped ==
  ASSUME TypeOK, NEW c \in Conns, Undo(c)
  PROVE  /\ committed' \in [Accounts -> [Currencies -> Nat]]
         /\ entries' \in [Accounts -> [Currencies -> Seq(Row)]]
         /\ tip' \in [Accounts -> [Currencies -> Nat]]
         /\ lock' \in [Accounts -> Conns \cup {NoConn}]
         /\ pend' \in [Conns -> Row \cup {NoRow}]
  BY DEF TypeOK, Undo, tables

\* COMMIT keeps the types.
LEMMA PublishTyped ==
  ASSUME TypeOK, NEW c \in Conns, Publish(c)
  PROVE  /\ committed' \in [Accounts -> [Currencies -> Nat]]
         /\ entries' \in [Accounts -> [Currencies -> Seq(Row)]]
         /\ tip' \in [Accounts -> [Currencies -> Nat]]
         /\ lock' \in [Accounts -> Conns \cup {NoConn}]
         /\ pend' \in [Conns -> Row \cup {NoRow}]
<1>1. entries' \in [Accounts -> [Currencies -> Seq(Row)]]
 <2>1. CASE pend[c] = NoRow  BY <2>1 DEF TypeOK, Publish
 <2>2. CASE pend[c] # NoRow
  <3>1. /\ pend[c] \in Row
        /\ pend[c].account \in Accounts
        /\ pend[c].currency \in Currencies
    BY <2>2 DEF TypeOK, Row
  <3>2. Append(entries[pend[c].account][pend[c].currency], pend[c]) \in Seq(Row) BY <3>1 DEF TypeOK
  <3> QED  BY <2>2, <3>1, <3>2 DEF TypeOK, Publish
 <2> QED  BY <2>1, <2>2
<1>2. /\ committed' \in [Accounts -> [Currencies -> Nat]]
      /\ tip' \in [Accounts -> [Currencies -> Nat]]
      /\ lock' \in [Accounts -> Conns \cup {NoConn}]
      /\ pend' \in [Conns -> Row \cup {NoRow}]
  BY DEF TypeOK, Publish
<1> QED  BY <1>1, <1>2

\* Giving a connection back keeps the types of its bookkeeping.
LEMMA ReleaseTyped ==
  ASSUME TypeOK, NEW c \in Conns, NEW s \in {"none", "open", "aborted"}, Release(c, s)
  PROVE  /\ pc' \in [Conns -> {"idle", "row", "move", "insert", "commit", "replay"}]
         /\ session' \in [Conns -> {"none", "open", "aborted"}]
         /\ req' \in [Conns -> Calls \cup {NoCall}]
  BY DEF TypeOK, Release

\* A balance the UPDATE lets through is a natural number.
LEMMA TakeRowTyped ==
  ASSUME TypeOK, NEW c \in Conns, req[c] \in Calls, req[c].account \in Accounts,
         MovedTo(c) \in Nat, TakeRow(c)
  PROVE  /\ tip' \in [Accounts -> [Currencies -> Nat]]
         /\ lock' \in [Accounts -> Conns \cup {NoConn}]
<1>1. req[c].currency \in Currencies BY CallsAreRequests DEF Request
<1> QED  BY <1>1 DEF TypeOK, TakeRow

\* A call past the INSERT of its balance row has an account with a wallet;
\* only a conflict has left its transaction, and only a call about to commit
\* has an uncommitted row.
Stages ==
  \A c \in Conns :
     /\ pc[c] # "idle" => req[c] \in Calls
     /\ pc[c] \in {"move", "insert", "commit", "replay"} => req[c].account \in Accounts
     /\ pc[c] \in {"row", "move", "insert", "commit"} => session[c] = "open"
     /\ pc[c] = "replay" => session[c] = "none"
     /\ (pc[c] = "commit") <=> (pend[c] # NoRow)
     /\ pc[c] = "commit" => pend[c] = RowOf(req[c], tip[req[c].account][req[c].currency])

\* Balance rows are locked from inside a transaction.  A lock on an account
\* that has not overflowed belongs to the call that moved its balance, whose
\* change is the one difference between tip and committed.
Locking ==
  /\ \A a \in Accounts : lock[a] = NoConn => tip[a] = committed[a]
  /\ \A a \in Accounts : \A c \in Conns : lock[a] = c => session[c] = "open"
  /\ \A c \in Conns : pc[c] \in {"insert", "commit"} => lock[req[c].account] = c
  /\ \A a \in Accounts \ overflowed : \A c \in Conns : lock[a] = c =>
       /\ pc[c] \in {"insert", "commit"}
       /\ req[c].account = a
       /\ tip[a] = [committed[a] EXCEPT ![req[c].currency] = @ + Delta(req[c])]

\* A row about to be committed has a key its account has not used.
FreshKeys ==
  \A c \in Conns : pc[c] = "commit" => ~KeyTaken(req[c].account, req[c].key)

\* Rows stand in the history of their own account.
Housed ==
  \A a \in Accounts : \A cur \in Currencies : \A i \in DOMAIN entries[a][cur] :
     entries[a][cur][i].account = a

IInv ==
  /\ TypeOK
  /\ Stages
  /\ Locking
  /\ FreshKeys
  /\ Housed
  /\ LedgerBalances
  /\ KeyAppliedOnce
  /\ AckedDurable

\* Every step keeps the types.
THEOREM TypeStep ==
  ASSUME TypeOK, Stages, [Next]_vars
  PROVE  TypeOK'
<1> USE DEF tables
<1>1. CASE UNCHANGED vars  BY <1>1 DEF vars, TypeOK
<1>2. ASSUME NEW c \in Conns, Begin(c)  PROVE TypeOK' BY <1>2 DEF Begin, TypeOK
<1>3. ASSUME NEW c \in Conns, EnsureRow(c)  PROVE TypeOK' BY <1>3 DEF EnsureRow, TypeOK
<1>4. ASSUME NEW c \in Conns, RejectStranger(c)  PROVE TypeOK'
  BY <1>4, UndoTyped, ReleaseTyped DEF RejectStranger, TypeOK
<1>5. ASSUME NEW c \in Conns, Move(c)  PROVE TypeOK'
 <2>1. req[c] \in Calls /\ req[c].account \in Accounts BY <1>5 DEF Move, CanMove, Stages
 <2>2. MovedTo(c) \in Nat BY <1>5, Widths DEF Move
 <2> QED  BY <1>5, <2>1, <2>2, TakeRowTyped DEF Move, TypeOK
<1>6. ASSUME NEW c \in Conns, Refuse(c)  PROVE TypeOK' BY <1>6, UndoTyped, ReleaseTyped DEF Refuse, TypeOK
<1>7. ASSUME NEW c \in Conns, Overflow(c)  PROVE TypeOK'
 <2>1. req[c] \in Calls /\ req[c].account \in Accounts BY <1>7 DEF Overflow, CanMove, Stages
 <2>2. MovedTo(c) \in Nat BY <1>7, Widths DEF Overflow
 <2> QED  BY <1>7, <2>1, <2>2, TakeRowTyped, ReleaseTyped DEF Overflow, TypeOK
<1>8. ASSUME NEW c \in Conns, OutOfRange(c)  PROVE TypeOK'
  BY <1>8, UndoTyped, ReleaseTyped DEF OutOfRange, TypeOK
<1>9. ASSUME NEW c \in Conns, Insert(c)  PROVE TypeOK'
 <2>1. req[c] \in Request(Accounts \cup Strangers) /\ req[c].account \in Accounts
   BY <1>9, CallsAreRequests DEF Insert, Stages
 <2>2. req[c].currency \in Currencies BY <2>1 DEF Request
 <2>3. tip[req[c].account][req[c].currency] \in Nat BY <2>1, <2>2 DEF TypeOK
 <2>4. RowOf(req[c], tip[req[c].account][req[c].currency]) \in Row BY <2>1, <2>3, RowTyped
 <2> QED  BY <1>9, <2>4 DEF Insert, TypeOK
<1>10. ASSUME NEW c \in Conns, Conflict(c)  PROVE TypeOK' BY <1>10, UndoTyped DEF Conflict, TypeOK
<1>11. ASSUME NEW c \in Conns, Commit(c)  PROVE TypeOK'
 <2>1. pend[c] \in Row BY <1>11 DEF Commit, Stages, TypeOK
 <2>2. acked' \in SUBSET Row BY <1>11, <2>1 DEF Commit, TypeOK
 <2> QED  BY <1>11, <2>2, PublishTyped, ReleaseTyped DEF Commit, TypeOK
<1>12. ASSUME NEW c \in Conns, Replay(c)  PROVE TypeOK'
 <2>1. req[c].account \in Accounts BY <1>12 DEF Replay, Stages
 <2>2. RowsOf(req[c].account) \subseteq Row BY <2>1 DEF RowsOf, TypeOK
 <2>3. acked' \in SUBSET Row BY <1>12, <2>2 DEF Replay, Existing, TypeOK
 <2> QED  BY <1>12, <2>3, ReleaseTyped DEF Replay, TypeOK
<1>13. ASSUME NEW c \in Conns, ForeignCommit(c)  PROVE TypeOK'
  BY <1>13, PublishTyped DEF ForeignCommit, TypeOK
<1>14. ASSUME NEW c \in Conns, ForeignRollback(c)  PROVE TypeOK'
  BY <1>14, UndoTyped DEF ForeignRollback, TypeOK
<1>15. ASSUME NEW c \in Conns, ConnectionLost(c)  PROVE TypeOK'
  BY <1>15, UndoTyped, ReleaseTyped DEF ConnectionLost, TypeOK
<1> QED BY <1>1, <1>2, <1>3, <1>4, <1>5, <1>6, <1>7, <1>8, <1>9, <1>10, <1>11,
<1>12, <1>13, <1>14, <1>15
DEF Next, Statement

\* What the end of a transaction does to a connection's bookkeeping.
LEMMA EndedStages ==
  ASSUME TypeOK, Stages, NEW c \in Conns, NEW s \in {"none", "open", "aborted"},
         Release(c, s), pend' = [pend EXCEPT ![c] = NoRow],
         \A a \in Accounts : lock[a] # c => tip'[a] = tip[a],
         \A d \in Conns : pc[d] = "commit" => lock[req[d].account] = d
  PROVE  Stages'
<1> SUFFICES ASSUME NEW d \in Conns
             PROVE  /\ pc'[d] # "idle" => req'[d] \in Calls
                    /\ pc'[d] \in {"move", "insert", "commit", "replay"} => req'[d].account \in Accounts
                    /\ pc'[d] \in {"row", "move", "insert", "commit"} => session'[d] = "open"
                    /\ pc'[d] = "replay" => session'[d] = "none"
                    /\ (pc'[d] = "commit") <=> (pend'[d] # NoRow)
                    /\ pc'[d] = "commit" => pend'[d] = RowOf(req'[d], tip'[req'[d].account][req'[d].currency])
  BY DEF Stages
<1>1. CASE d = c  BY <1>1 DEF Release, TypeOK
<1>2. CASE d # c
 <2>1. pc'[d] = pc[d] /\ req'[d] = req[d] /\ session'[d] = session[d] /\ pend'[d] = pend[d]
   BY <1>2 DEF Release, TypeOK
 <2>2. pc[d] = "commit" => tip'[req[d].account] = tip[req[d].account] BY <1>2 DEF Stages
 <2> QED  BY <2>1, <2>2 DEF Stages
<1> QED  BY <1>1, <1>2

\* A ROLLBACK takes no balance from the connections that hold other rows.
LEMMA UndoKeeps ==
  ASSUME TypeOK, NEW c \in Conns, Undo(c) \/ Publish(c)
  PROVE  /\ pend' = [pend EXCEPT ![c] = NoRow]
         /\ \A a \in Accounts : lock[a] # c => tip'[a] = tip[a]
  BY DEF TypeOK, Undo, Publish

\* Every step keeps what the statement a connection is at says of its session,
\* its call and its uncommitted row.
THEOREM StagesStep ==
  ASSUME TypeOK, Stages, Locking, [Next]_vars
  PROVE  Stages'
<1> USE DEF tables
<1> DEFINE Held == \A d \in Conns : pc[d] = "commit" => lock[req[d].account] = d
<1>0. Held  BY DEF Locking
<1>1. CASE UNCHANGED vars  BY <1>1 DEF vars, Stages
<1>2. ASSUME NEW c \in Conns, Begin(c)  PROVE Stages' BY <1>2 DEF Begin, TypeOK, Stages
<1>3. ASSUME NEW c \in Conns, EnsureRow(c)  PROVE Stages' BY <1>3 DEF EnsureRow, TypeOK, Stages
<1>4. ASSUME NEW c \in Conns, RejectStranger(c)  PROVE Stages'
  BY <1>0, <1>4, UndoKeeps, EndedStages DEF RejectStranger
<1>5. ASSUME NEW c \in Conns, Move(c)  PROVE Stages'
 <2>1. ASSUME NEW d \in Conns, pc[d] = "commit"
       PROVE  tip'[req[d].account] = tip[req[d].account]
  <3>1. lock[req[d].account] = d /\ req[d].account \in Accounts BY <1>0, <2>1 DEF Stages
  <3>2. d # c  BY <1>5, <2>1 DEF Move, CanMove
  <3>3. req[d].account # req[c].account BY <1>5, <3>1, <3>2, NotAConnection DEF Move, CanMove
  <3> QED  BY <1>5, <3>1, <3>3 DEF Move, TakeRow, TypeOK
 <2> QED  BY <1>5, <2>1 DEF Move, CanMove, TypeOK, Stages
<1>6. ASSUME NEW c \in Conns, Refuse(c)  PROVE Stages' BY <1>0, <1>6, UndoKeeps, EndedStages DEF Refuse
<1>7. ASSUME NEW c \in Conns, Overflow(c)  PROVE Stages'
 <2>1. ASSUME NEW d \in Conns, pc[d] = "commit"
       PROVE  tip'[req[d].account] = tip[req[d].account]
  <3>1. lock[req[d].account] = d /\ req[d].account \in Accounts BY <1>0, <2>1 DEF Stages
  <3>2. d # c  BY <1>7, <2>1 DEF Overflow, CanMove
  <3>3. req[d].account # req[c].account BY <1>7, <3>1, <3>2, NotAConnection DEF Overflow, CanMove
  <3> QED  BY <1>7, <3>1, <3>3 DEF Overflow, TakeRow, TypeOK
 <2> QED  BY <1>7, <2>1 DEF Overflow, CanMove, Release, TypeOK, Stages
<1>8. ASSUME NEW c \in Conns, OutOfRange(c)  PROVE Stages'
  BY <1>0, <1>8, UndoKeeps, EndedStages DEF OutOfRange
<1>9. ASSUME NEW c \in Conns, Insert(c)  PROVE Stages'
 <2>1. RowOf(req[c], tip[req[c].account][req[c].currency]) \in Row
  <3>1. req[c] \in Request(Accounts \cup Strangers) /\ req[c].account \in Accounts
    BY <1>9, CallsAreRequests DEF Insert, Stages
  <3>2. tip[req[c].account][req[c].currency] \in Nat BY <3>1 DEF TypeOK, Request
  <3> QED  BY <3>1, <3>2, RowTyped
 <2> QED  BY <1>9, <2>1, NotARow DEF Insert, TypeOK, Stages
<1>10. ASSUME NEW c \in Conns, Conflict(c)  PROVE Stages'
 <2>1. ASSUME NEW d \in Conns, pc[d] = "commit"
       PROVE  tip'[req[d].account] = tip[req[d].account]
  <3>1. lock[req[d].account] = d /\ req[d].account \in Accounts /\ d # c
    BY <1>0, <1>10, <2>1 DEF Stages, Conflict
  <3> QED  BY <1>10, <3>1, UndoKeeps DEF Conflict
 <2> QED  BY <1>10, <2>1, UndoKeeps DEF Conflict, TypeOK, Stages
<1>11. ASSUME NEW c \in Conns, Commit(c)  PROVE Stages' BY <1>0, <1>11, UndoKeeps, EndedStages DEF Commit
<1>12. ASSUME NEW c \in Conns, Replay(c)  PROVE Stages' BY <1>12 DEF Replay, Release, TypeOK, Stages
<1>13. ASSUME NEW c \in Conns, ForeignCommit(c)  PROVE Stages'
 <2>1. ASSUME NEW d \in Conns, pc[d] = "commit"
       PROVE  tip'[req[d].account] = tip[req[d].account]
   BY <1>13 DEF ForeignCommit, Publish
 <2> QED  BY <1>13, <2>1, UndoKeeps DEF ForeignCommit, TypeOK, Stages
<1>14. ASSUME NEW c \in Conns, ForeignRollback(c)  PROVE Stages'
 <2>1. ASSUME NEW d \in Conns, pc[d] = "commit"
       PROVE  tip'[req[d].account] = tip[req[d].account]
  <3>1. lock[req[d].account] = d /\ req[d].account \in Accounts /\ d # c
    BY <1>0, <1>14, <2>1 DEF Stages, ForeignRollback
  <3> QED  BY <1>14, <3>1, UndoKeeps DEF ForeignRollback
 <2> QED  BY <1>14, <2>1, UndoKeeps DEF ForeignRollback, TypeOK, Stages
<1>15. ASSUME NEW c \in Conns, ConnectionLost(c)  PROVE Stages'
  BY <1>0, <1>15, UndoKeeps, EndedStages DEF ConnectionLost
<1> QED BY <1>1, <1>2, <1>3, <1>4, <1>5, <1>6, <1>7, <1>8, <1>9, <1>10, <1>11,
<1>12, <1>13, <1>14, <1>15
DEF Next, Statement

\* A connection whose transaction has ended holds no lock, and the others
\* keep theirs.
LEMMA EndedLocking ==
  ASSUME TypeOK, Stages, Locking, NEW c \in Conns, Undo(c) \/ Publish(c),
         overflowed' = overflowed, pc'[c] \notin {"insert", "commit"},
         \A d \in Conns : d # c => /\ pc'[d] = pc[d]
                                  /\ req'[d] = req[d]
                                  /\ session'[d] = session[d]
  PROVE  Locking'
<1> USE DEF tables
<1>1. \A a \in Accounts : /\ lock[a] = c => lock'[a] = NoConn /\ tip'[a] = committed'[a]
                          /\ lock[a] # c => /\ lock'[a] = lock[a]
                                            /\ tip'[a] = tip[a]
                                            /\ committed'[a] = committed[a]
 <2>1. CASE Undo(c)  BY <2>1 DEF TypeOK, Undo
 <2>2. CASE Publish(c)  BY <2>2 DEF TypeOK, Publish
 <2> QED  BY <2>1, <2>2
<1>2. \A a \in Accounts : lock'[a] = NoConn => tip'[a] = committed'[a] BY <1>1 DEF Locking
<1>3. \A a \in Accounts : \A d \in Conns : lock'[a] = d => lock[a] = d /\ d # c BY <1>1, NotAConnection
<1>4. \A a \in Accounts : \A d \in Conns : lock'[a] = d => session'[d] = "open" BY <1>3 DEF Locking
<1>5. ASSUME NEW d \in Conns, pc'[d] \in {"insert", "commit"}
      PROVE  lock'[req'[d].account] = d
 <2>1. d # c /\ pc[d] \in {"insert", "commit"} /\ req'[d] = req[d] BY <1>5
 <2>2. lock[req[d].account] = d BY <2>1 DEF Locking
 <2>3. req[d].account \in Accounts BY <2>1 DEF Stages
 <2> QED  BY <1>1, <2>1, <2>2, <2>3
<1>6. ASSUME NEW a \in Accounts \ overflowed', NEW d \in Conns, lock'[a] = d
      PROVE  /\ pc'[d] \in {"insert", "commit"}
             /\ req'[d].account = a
             /\ tip'[a] = [committed'[a] EXCEPT ![req'[d].currency] = @ + Delta(req'[d])]
 <2>1. lock[a] = d /\ d # c  BY <1>3, <1>6
 <2>2. tip'[a] = tip[a] /\ committed'[a] = committed[a]  BY <1>1, <2>1
 <2> QED  BY <2>1, <2>2 DEF Locking
<1> QED  BY <1>2, <1>4, <1>5, <1>6 DEF Locking

\* A call that takes a free row, or one its own connection already holds.
LEMMA TakenLocking ==
  ASSUME TypeOK, Stages, Locking, NEW c \in Conns, CanMove(c), TakeRow(c),
         committed' = committed,
         overflowed \subseteq overflowed',
         session'[c] = "open",
         req[c].account \notin overflowed' => pc'[c] = "insert",
         pc'[c] \in {"insert", "commit"} => req'[c] = req[c],
         \A d \in Conns : d # c => /\ pc'[d] = pc[d]
                                  /\ req'[d] = req[d]
                                  /\ session'[d] = session[d]
  PROVE  Locking'
<1> DEFINE acc == req[c].account
<1>0. req[c] \in Request(Accounts \cup Strangers) /\ acc \in Accounts
      /\ req[c].currency \in Currencies
  BY CallsAreRequests DEF CanMove, Stages, Request
<1>1. lock'[acc] = c /\ lock[acc] \in {NoConn, c} BY <1>0 DEF CanMove, TakeRow, TypeOK
<1>2. \A a \in Accounts : a # acc => lock'[a] = lock[a] /\ tip'[a] = tip[a] BY <1>0 DEF TakeRow, TypeOK
<1>3. \A a \in Accounts : lock'[a] = NoConn => tip'[a] = committed'[a]
  BY <1>1, <1>2, NotAConnection DEF Locking
<1>4. \A a \in Accounts : \A d \in Conns : lock'[a] = d => session'[d] = "open" BY <1>1, <1>2 DEF Locking
<1>5. ASSUME NEW d \in Conns, pc'[d] \in {"insert", "commit"}
      PROVE  lock'[req'[d].account] = d
 <2>1. CASE d = c  BY <1>1, <1>5, <2>1
 <2>2. CASE d # c
  <3>1. /\ lock[req[d].account] = d
        /\ req'[d] = req[d]
        /\ req[d].account \in Accounts
    BY <1>5, <2>2 DEF Locking, Stages
  <3>2. req[d].account # acc BY <1>1, <2>2, <3>1, NotAConnection
  <3> QED  BY <1>2, <3>1, <3>2
 <2> QED  BY <2>1, <2>2
<1>6. ASSUME NEW a \in Accounts \ overflowed', NEW d \in Conns, lock'[a] = d
      PROVE  /\ pc'[d] \in {"insert", "commit"}
             /\ req'[d].account = a
             /\ tip'[a] = [committed'[a] EXCEPT ![req'[d].currency] = @ + Delta(req'[d])]
 <2>0. a \in Accounts \ overflowed  BY <1>6
 <2>1. CASE a = acc
  <3>1. d = c /\ req'[c] = req[c] BY <1>1, <1>6, <2>1
  <3>2. lock[acc] = NoConn BY <1>1, <2>0, <2>1 DEF Locking, CanMove
  <3>3. tip[acc] = committed[acc] BY <1>0, <3>2 DEF Locking
  <3>4. tip'[acc] = [tip[acc] EXCEPT ![req[c].currency] = @ + Delta(req[c])]
    BY <1>0 DEF TakeRow, MovedTo, TypeOK
  <3> QED  BY <1>6, <2>1, <3>1, <3>3, <3>4
 <2>2. CASE a # acc
  <3>1. lock[a] = d  BY <1>2, <1>6, <2>2
  <3>2. d # c  BY <2>0, <2>2, <3>1 DEF Locking
  <3> QED  BY <1>2, <2>0, <2>2, <3>1, <3>2 DEF Locking
 <2> QED  BY <2>1, <2>2
<1> QED  BY <1>3, <1>4, <1>5, <1>6 DEF Locking

\* Every step keeps the balance rows locked by those who changed them.
THEOREM LockingStep ==
  ASSUME TypeOK, Stages, Locking, [Next]_vars
  PROVE  Locking'
<1> USE DEF tables
<1>1. CASE UNCHANGED vars  BY <1>1 DEF vars, Locking
<1>2. ASSUME NEW c \in Conns, Begin(c)  PROVE Locking' BY <1>2 DEF Begin, TypeOK, Locking
<1>3. ASSUME NEW c \in Conns, EnsureRow(c)  PROVE Locking' BY <1>3 DEF EnsureRow, TypeOK, Locking
<1>4. ASSUME NEW c \in Conns, RejectStranger(c)  PROVE Locking'
  BY <1>4, EndedLocking DEF RejectStranger, Release, TypeOK
<1>5. ASSUME NEW c \in Conns, Move(c)  PROVE Locking'
 <2>1. session[c] = "open"  BY <1>5 DEF Move, CanMove, Stages
 <2> QED  BY <1>5, <2>1, TakenLocking DEF Move, TypeOK
<1>6. ASSUME NEW c \in Conns, Refuse(c)  PROVE Locking' BY <1>6, EndedLocking DEF Refuse, Release, TypeOK
<1>7. ASSUME NEW c \in Conns, Overflow(c)  PROVE Locking'
  BY <1>7, TakenLocking DEF Overflow, Release, TypeOK
<1>8. ASSUME NEW c \in Conns, OutOfRange(c)  PROVE Locking'
  BY <1>8, EndedLocking DEF OutOfRange, Release, TypeOK
<1>9. ASSUME NEW c \in Conns, Insert(c)  PROVE Locking' BY <1>9 DEF Insert, TypeOK, Locking
<1>10. ASSUME NEW c \in Conns, Conflict(c)  PROVE Locking' BY <1>10, EndedLocking DEF Conflict, TypeOK
<1>11. ASSUME NEW c \in Conns, Commit(c)  PROVE Locking' BY <1>11, EndedLocking DEF Commit, Release, TypeOK
<1>12. ASSUME NEW c \in Conns, Replay(c)  PROVE Locking'
 <2>1. \A a \in Accounts : lock[a] # c BY <1>12 DEF Replay, Locking, Stages
 <2> QED  BY <1>12, <2>1 DEF Replay, Release, TypeOK, Locking
<1>13. ASSUME NEW c \in Conns, ForeignCommit(c)  PROVE Locking'
  BY <1>13, EndedLocking DEF ForeignCommit, TypeOK
<1>14. ASSUME NEW c \in Conns, ForeignRollback(c)  PROVE Locking'
  BY <1>14, EndedLocking DEF ForeignRollback, TypeOK
<1>15. ASSUME NEW c \in Conns, ConnectionLost(c)  PROVE Locking'
  BY <1>15, EndedLocking DEF ConnectionLost, Release, TypeOK
<1> QED BY <1>1, <1>2, <1>3, <1>4, <1>5, <1>6, <1>7, <1>8, <1>9, <1>10, <1>11,
<1>12, <1>13, <1>14, <1>15
DEF Next, Statement

\* Steps that leave both tables alone leave the history alone.
LEMMA SameTables ==
  ASSUME LedgerBalances, KeyAppliedOnce, UNCHANGED tables, overflowed \subseteq overflowed'
  PROVE  LedgerBalances' /\ KeyAppliedOnce'
  BY DEF LedgerBalances, KeyAppliedOnce, tables

\* A COMMIT of a dirty connection publishes balances of overflowed accounts
\* only, and no row.
LEMMA ForeignTables ==
  ASSUME IInv, NEW c \in Conns, ForeignCommit(c)
  PROVE  /\ entries' = entries
         /\ \A a \in Accounts \ overflowed : committed'[a] = committed[a]
<1>1. pend[c] = NoRow BY DEF IInv, Stages, ForeignCommit
<1>2. \A a \in Accounts \ overflowed : lock[a] # c BY DEF IInv, Locking, ForeignCommit
<1> QED  BY <1>1, <1>2 DEF ForeignCommit, Publish

\* What COMMIT does to the tables: one row at the end of one history, and
\* the balance of that history, the other accounts that have not overflowed
\* being as they were.
LEMMA CommitTables ==
  ASSUME IInv, NEW c \in Conns, Commit(c)
  PROVE  /\ req[c] \in Request(Accounts \cup Strangers)
         /\ req[c].account \in Accounts /\ req[c].currency \in Currencies
         /\ pend[c] = RowOf(req[c], tip[req[c].account][req[c].currency])
         /\ pend[c] \in Row
         /\ entries' = [entries EXCEPT ![req[c].account][req[c].currency] = Append(@, pend[c])]
         /\ \A a \in Accounts \ overflowed : a # req[c].account => committed'[a] = committed[a]
         /\ req[c].account \notin overflowed =>
              /\ committed'[req[c].account] =
                    [committed[req[c].account] EXCEPT ![req[c].currency] = @ + Delta(req[c])]
              /\ pend[c].balanceAfter = committed[req[c].account][req[c].currency] + Delta(req[c])
<1> DEFINE acc == req[c].account
           cur == req[c].currency
<1>1. pc[c] = "commit"  BY DEF Commit
<1>2. /\ req[c] \in Request(Accounts \cup Strangers)
      /\ acc \in Accounts /\ cur \in Currencies
  BY <1>1, CallsAreRequests DEF IInv, Stages, Request
<1>3. pend[c] = RowOf(req[c], tip[acc][cur]) /\ pend[c] \in Row /\ pend[c] # NoRow
  BY <1>1 DEF IInv, Stages, TypeOK
<1>4. entries' = [entries EXCEPT ![acc][cur] = Append(@, pend[c])]
 <2>1. pend[c].account = acc /\ pend[c].currency = cur BY <1>3 DEF RowOf
 <2>2. pend[c] # NoRow BY <1>3
 <2>3. entries' = [entries EXCEPT ![pend[c].account][pend[c].currency] = Append(@, pend[c])]
   BY <2>2 DEF Commit, Publish
 <2> QED BY <2>1, <2>3
<1>5. \A a \in Accounts \ overflowed : a # acc => committed'[a] = committed[a]
 <2>1. \A a \in Accounts \ overflowed : a # acc => lock[a] # c BY DEF IInv, Locking
 <2> QED  BY <2>1 DEF Commit, Publish
<1>6. ASSUME acc \notin overflowed
      PROVE  /\ committed'[acc] = [committed[acc] EXCEPT ![cur] = @ + Delta(req[c])]
             /\ pend[c].balanceAfter = committed[acc][cur] + Delta(req[c])
 <2>1. lock[acc] = c  BY <1>1 DEF IInv, Locking
 <2>2. tip[acc] = [committed[acc] EXCEPT ![cur] = @ + Delta(req[c])] BY <1>2, <1>6, <2>1 DEF IInv, Locking
 <2>3. committed'[acc] = tip[acc] BY <1>2, <2>1 DEF Commit, Publish
 <2>4. pend[c].balanceAfter = tip[acc][cur] BY <1>3 DEF RowOf
 <2>5. cur \in DOMAIN committed[acc] BY <1>2 DEF IInv, TypeOK
 <2> QED  BY <2>2, <2>3, <2>4, <2>5
<1> QED  BY <1>2, <1>3, <1>4, <1>5, <1>6

\* The row added to a history is its last, the others are as they were.
LEMMA AppendFacts ==
  ASSUME NEW rows \in Seq(Row), NEW row \in Row
  PROVE  /\ Len(Append(rows, row)) = Len(rows) + 1
         /\ DOMAIN Append(rows, row) = 1 .. Len(rows) + 1
         /\ \A i \in 1 .. Len(rows) : Append(rows, row)[i] = rows[i]
         /\ Append(rows, row)[Len(rows) + 1] = row
         /\ Len(rows) \in Nat /\ DOMAIN rows = 1 .. Len(rows)
  OBVIOUS

\* Adding a row that starts from the last balance keeps a history chained.
LEMMA ChainGrows ==
  ASSUME NEW rows \in Seq(Row), NEW row \in Row, Chained(rows),
         row.balanceAfter = LastBalance(rows) + Delta(row)
  PROVE  /\ Chained(Append(rows, row))
         /\ LastBalance(Append(rows, row)) = row.balanceAfter
<1> DEFINE more == Append(rows, row)
<1>1. /\ Len(more) = Len(rows) + 1
      /\ DOMAIN more = 1 .. Len(rows) + 1
      /\ \A i \in 1 .. Len(rows) : more[i] = rows[i]
      /\ more[Len(rows) + 1] = row
      /\ Len(rows) \in Nat /\ DOMAIN rows = 1 .. Len(rows)
  BY AppendFacts
<1>2. LastBalance(more) = row.balanceAfter
 <2>1. more # <<>>  BY <1>1
 <2> QED  BY <1>1, <2>1 DEF LastBalance
<1>3. ASSUME NEW i \in DOMAIN more
      PROVE  more[i].balanceAfter =
               (IF i = 1 THEN 0 ELSE more[i - 1].balanceAfter) + Delta(more[i])
 <2>1. CASE i \in 1 .. Len(rows)
  <3>1. i # 1 => i - 1 \in 1 .. Len(rows)  BY <1>1, <2>1
  <3> QED  BY <1>1, <2>1, <3>1 DEF Chained
 <2>2. CASE i = Len(rows) + 1
  <3>1. CASE rows = <<>>
   <4>1. Len(rows) = 0 /\ i = 1  BY <2>2, <3>1
   <4> QED  BY <1>1, <2>2, <3>1, <4>1 DEF LastBalance
  <3>2. CASE rows # <<>>
   <4>1. Len(rows) # 0  BY <3>2
   <4>2. i # 1 /\ i - 1 = Len(rows) /\ i - 1 \in 1 .. Len(rows) BY <1>1, <2>2, <4>1
   <4> QED  BY <1>1, <2>2, <3>2, <4>2 DEF LastBalance
  <3> QED  BY <3>1, <3>2
 <2> QED  BY <1>1, <1>3, <2>1, <2>2
<1> QED  BY <1>2, <1>3 DEF Chained

\* COMMIT keeps the history adding up and the keys unique.
LEMMA CommitHistory ==
  ASSUME IInv, NEW c \in Conns, Commit(c)
  PROVE  LedgerBalances' /\ KeyAppliedOnce'
<1> DEFINE acc == req[c].account
           cur == req[c].currency
           row == pend[c]
<1>1. /\ req[c] \in Request(Accounts \cup Strangers)
      /\ acc \in Accounts /\ cur \in Currencies
      /\ row = RowOf(req[c], tip[acc][cur]) /\ row \in Row
      /\ entries' = [entries EXCEPT ![acc][cur] = Append(@, row)]
      /\ \A a \in Accounts \ overflowed : a # acc => committed'[a] = committed[a]
      /\ acc \notin overflowed =>
           /\ committed'[acc] = [committed[acc] EXCEPT ![cur] = @ + Delta(req[c])]
           /\ row.balanceAfter = committed[acc][cur] + Delta(req[c])
  BY CommitTables
<1>2. /\ entries'[acc][cur] = Append(entries[acc][cur], row)
      /\ \A b \in Accounts, m \in Currencies :
           <<b, m>> # <<acc, cur>> => entries'[b][m] = entries[b][m]
      /\ entries[acc][cur] \in Seq(Row)
 <2>1. entries \in [Accounts -> [Currencies -> Seq(Row)]] BY DEF IInv, TypeOK
 <2>2. acc \in Accounts /\ cur \in Currencies /\ entries[acc] \in [Currencies -> Seq(Row)] BY <1>1, <2>1
 <2>3. entries' = [entries EXCEPT ![acc][cur] = Append(@, row)] BY <1>1
 <2>4. entries'[acc] = [entries[acc] EXCEPT ![cur] = Append(@, row)] BY <2>1, <2>2, <2>3
 <2>5. entries'[acc][cur] = Append(entries[acc][cur], row) BY <2>2, <2>4
 <2>6. ASSUME NEW b \in Accounts, NEW m \in Currencies, <<b, m>> # <<acc, cur>>
       PROVE  entries'[b][m] = entries[b][m]
  <3>1. CASE b = acc BY <2>2, <2>4, <2>6, <3>1
  <3>2. CASE b # acc BY <2>1, <2>3, <3>2
  <3> QED BY <3>1, <3>2
 <2> QED BY <2>2, <2>5, <2>6
<1>3. Delta(row) = Delta(req[c]) BY <1>1 DEF Delta, RowOf
<1>4. ASSUME NEW a \in Accounts \ overflowed', NEW m \in Currencies
      PROVE  Chained(entries'[a][m]) /\ committed'[a][m] = LastBalance(entries'[a][m])
 <2>0. a \in Accounts \ overflowed  BY <1>4 DEF Commit
 <2>1. Chained(entries[a][m]) /\ committed[a][m] = LastBalance(entries[a][m])
   BY <2>0 DEF IInv, LedgerBalances
 <2>2. CASE a = acc /\ m = cur
  <3>1. /\ committed'[acc] = [committed[acc] EXCEPT ![cur] = @ + Delta(req[c])]
        /\ row.balanceAfter = committed[acc][cur] + Delta(req[c])
    BY <1>1, <2>0, <2>2
  <3>2. committed'[acc][cur] = committed[acc][cur] + Delta(req[c]) BY <1>1, <3>1 DEF IInv, TypeOK
  <3>3. row.balanceAfter = LastBalance(entries[acc][cur]) + Delta(row) BY <1>3, <2>1, <2>2, <3>1
  <3>4. /\ Chained(entries'[acc][cur])
        /\ LastBalance(entries'[acc][cur]) = row.balanceAfter
   <4>1. entries[acc][cur] \in Seq(Row) /\ row \in Row /\ Chained(entries[acc][cur])
     BY <1>1, <1>2, <2>1, <2>2
   <4>2. /\ Chained(Append(entries[acc][cur], row))
         /\ LastBalance(Append(entries[acc][cur], row)) = row.balanceAfter
     BY <3>3, <4>1, ChainGrows
   <4> QED BY <1>2, <4>2
  <3> QED  BY <2>2, <3>1, <3>2, <3>4
 <2>3. CASE a = acc /\ m # cur
  <3>1. committed'[a][m] = committed[a][m] BY <1>1, <2>0, <2>3 DEF IInv, TypeOK
  <3> QED  BY <1>2, <2>1, <2>3, <3>1
 <2>4. CASE a # acc
  <3>1. committed'[a][m] = committed[a][m]  BY <1>1, <2>0, <2>4
  <3> QED  BY <1>2, <2>0, <2>1, <2>4, <3>1
 <2> QED  BY <2>2, <2>3, <2>4
<1>5. LedgerBalances'  BY <1>4 DEF LedgerBalances
<1>6. /\ DOMAIN entries'[acc][cur] = 1 .. Len(entries[acc][cur]) + 1
      /\ DOMAIN entries[acc][cur] = 1 .. Len(entries[acc][cur])
      /\ Len(entries[acc][cur]) \in Nat
      /\ \A i \in DOMAIN entries[acc][cur] : entries'[acc][cur][i] = entries[acc][cur][i]
      /\ entries'[acc][cur][Len(entries[acc][cur]) + 1] = row
 <2>1. entries[acc][cur] \in Seq(Row) /\ row \in Row  BY <1>1, <1>2
 <2> HIDE DEF acc, cur, row
 <2> QED  BY <1>2, <2>1, AppendFacts
<1>7. \A m \in Currencies : \A i \in DOMAIN entries[acc][m] : entries[acc][m][i].key # row.key
 <2>1. ~KeyTaken(acc, req[c].key)  BY DEF IInv, FreshKeys, Commit
 <2>2. row.key = req[c].key  BY <1>1 DEF RowOf
 <2> QED  BY <2>1, <2>2 DEF KeyTaken
<1>8. ASSUME NEW a \in Accounts, NEW m1 \in Currencies, NEW m2 \in Currencies,
             NEW i \in DOMAIN entries'[a][m1], NEW j \in DOMAIN entries'[a][m2],
             entries'[a][m1][i].key = entries'[a][m2][j].key
      PROVE  m1 = m2 /\ i = j
 <2>1. CASE a # acc
  <3>1. entries'[a][m1] = entries[a][m1] /\ entries'[a][m2] = entries[a][m2] BY <1>2, <2>1
  <3> QED  BY <1>8, <3>1 DEF IInv, KeyAppliedOnce
 <2>2. CASE a = acc
  <3>1. ASSUME NEW m \in Currencies, NEW n \in DOMAIN entries'[acc][m]
        PROVE  \/ /\ n \in DOMAIN entries[acc][m]
                  /\ entries'[acc][m][n] = entries[acc][m][n]
               \/ /\ m = cur /\ n = Len(entries[acc][cur]) + 1
                  /\ entries'[acc][m][n] = row
   <4>1. CASE m # cur  BY <1>1, <1>2, <3>1, <4>1
   <4>2. CASE m = cur
    <5> HIDE DEF acc, cur, row
    <5> QED  BY <1>6, <3>1, <4>2, SMTT(60)
   <4> QED  BY <4>1, <4>2
  <3> HIDE DEF acc, cur, row
  <3>2. \/ /\ i \in DOMAIN entries[acc][m1]
           /\ entries'[acc][m1][i] = entries[acc][m1][i]
        \/ m1 = cur /\ i = Len(entries[acc][cur]) + 1 /\ entries'[acc][m1][i] = row
    BY <2>2, <3>1
  <3>3. \/ /\ j \in DOMAIN entries[acc][m2]
           /\ entries'[acc][m2][j] = entries[acc][m2][j]
        \/ m2 = cur /\ j = Len(entries[acc][cur]) + 1 /\ entries'[acc][m2][j] = row
    BY <2>2, <3>1
  <3>4. CASE /\ i \in DOMAIN entries[acc][m1]
             /\ entries'[acc][m1][i] = entries[acc][m1][i]
             /\ j \in DOMAIN entries[acc][m2]
             /\ entries'[acc][m2][j] = entries[acc][m2][j]
    BY <1>1, <1>8, <2>2, <3>4 DEF IInv, KeyAppliedOnce
  <3> QED  BY <1>7, <1>8, <2>2, <3>2, <3>3, <3>4
 <2> QED  BY <2>1, <2>2
<1>9. KeyAppliedOnce'  BY <1>8 DEF KeyAppliedOnce
<1> QED  BY <1>5, <1>9

\* Every step keeps the histories adding up and the keys unique: COMMIT by
\* CommitHistory, the others by leaving the tables alone.
THEOREM HistoryStep ==
  ASSUME IInv, [Next]_vars
  PROVE  LedgerBalances' /\ KeyAppliedOnce'
<1> USE DEF tables
<1>0. LedgerBalances /\ KeyAppliedOnce  BY DEF IInv
<1>1. CASE UNCHANGED tables /\ overflowed \subseteq overflowed' BY <1>0, <1>1, SameTables
<1>2. ASSUME NEW c \in Conns, Commit(c)  PROVE LedgerBalances' /\ KeyAppliedOnce' BY <1>2, CommitHistory
<1>3. ASSUME NEW c \in Conns, ForeignCommit(c)  PROVE LedgerBalances' /\ KeyAppliedOnce'
 <2>1. /\ entries' = entries
       /\ \A a \in Accounts \ overflowed : committed'[a] = committed[a]
       /\ overflowed' = overflowed
   BY <1>3, ForeignTables DEF ForeignCommit
 <2> QED  BY <1>0, <2>1 DEF LedgerBalances, KeyAppliedOnce
<1>4. CASE UNCHANGED vars  BY <1>1, <1>4 DEF vars
<1>5. ASSUME NEW c \in Conns,
             \/ Begin(c) \/ EnsureRow(c) \/ RejectStranger(c) \/ Move(c) \/ Refuse(c)
             \/ Overflow(c) \/ OutOfRange(c) \/ Insert(c) \/ Conflict(c) \/ Replay(c)
             \/ ForeignRollback(c) \/ ConnectionLost(c)
      PROVE  UNCHANGED tables /\ overflowed \subseteq overflowed'
  BY <1>5 DEF Begin, EnsureRow, RejectStranger, Move, Refuse, Overflow, OutOfRange, Insert, Conflict,
     Replay, ForeignRollback, ConnectionLost, Undo
<1> QED  BY <1>1, <1>2, <1>3, <1>4, <1>5 DEF Next, Statement

\* COMMIT adds its row to its account and takes none away.
LEMMA CommitRows ==
  ASSUME IInv, NEW c \in Conns, Commit(c)
  PROVE  /\ \A a \in Accounts : RowsOf(a) \subseteq RowsOf(a)'
         /\ \A a \in Accounts : a = req[c].account => pend[c] \in RowsOf(a)'
         /\ pend[c].account = req[c].account
         /\ \A a \in Accounts : a # req[c].account => entries'[a] = entries[a]
         /\ Housed'
<1> DEFINE acc == req[c].account
           cur == req[c].currency
           row == pend[c]
<1>1. /\ acc \in Accounts /\ cur \in Currencies
      /\ row = RowOf(req[c], tip[acc][cur]) /\ row \in Row
      /\ entries' = [entries EXCEPT ![acc][cur] = Append(@, row)]
  BY CommitTables
<1>2. row.account = acc  BY <1>1 DEF RowOf
<1>3. /\ entries'[acc][cur] = Append(entries[acc][cur], row)
      /\ \A b \in Accounts : b # acc => entries'[b] = entries[b]
      /\ \A m \in Currencies : m # cur => entries'[acc][m] = entries[acc][m]
      /\ entries[acc][cur] \in Seq(Row)
  BY <1>1 DEF IInv, TypeOK
<1>4. /\ DOMAIN entries'[acc][cur] = 1 .. Len(entries[acc][cur]) + 1
      /\ DOMAIN entries[acc][cur] = 1 .. Len(entries[acc][cur])
      /\ Len(entries[acc][cur]) \in Nat
      /\ \A i \in DOMAIN entries[acc][cur] : entries'[acc][cur][i] = entries[acc][cur][i]
      /\ entries'[acc][cur][Len(entries[acc][cur]) + 1] = row
 <2>1. entries[acc][cur] \in Seq(Row) /\ row \in Row  BY <1>1, <1>3
 <2> HIDE DEF acc, cur, row
 <2> QED  BY <1>3, <2>1, AppendFacts
<1> HIDE DEF acc, cur, row
<1>5. \A a \in Accounts, m \in Currencies : \A i \in DOMAIN entries[a][m] :
         i \in DOMAIN entries'[a][m] /\ entries'[a][m][i] = entries[a][m][i]
 <2> TAKE a \in Accounts, m \in Currencies
 <2> TAKE i \in DOMAIN entries[a][m]
 <2>1. CASE a = acc /\ m = cur  BY <1>4, <2>1
 <2>2. CASE ~(a = acc /\ m = cur)  BY <1>3, <2>2
 <2> QED  BY <2>1, <2>2
<1>6. \A a \in Accounts : RowsOf(a) \subseteq RowsOf(a)' BY <1>5 DEF RowsOf
<1>7. \A a \in Accounts : a = acc => row \in RowsOf(a)'
 <2>1. Len(entries[acc][cur]) + 1 \in DOMAIN entries'[acc][cur]  BY <1>4
 <2> QED  BY <1>1, <1>4, <2>1 DEF RowsOf
<1>8. ASSUME NEW a \in Accounts, NEW m \in Currencies, NEW i \in DOMAIN entries'[a][m]
      PROVE  entries'[a][m][i].account = a
 <2>1. CASE i \in DOMAIN entries[a][m] BY <1>5, <2>1 DEF IInv, Housed
 <2>2. CASE i \notin DOMAIN entries[a][m]
  <3>1. a = acc /\ m = cur  BY <1>3, <1>8, <2>2
  <3> QED  BY <1>2, <1>4, <1>8, <2>2, <3>1
 <2> QED  BY <2>1, <2>2
<1>9. Housed'  BY <1>8 DEF Housed
<1> QED  BY <1>2, <1>3, <1>6, <1>7, <1>9 DEF acc, row

\* Rows an answer names stay, and so does the freshness of pending keys.
THEOREM AnswersStep ==
  ASSUME IInv, [Next]_vars
  PROVE  FreshKeys' /\ Housed' /\ AckedDurable'
<1> USE DEF tables
<1>0. TypeOK /\ Stages /\ Locking /\ FreshKeys /\ Housed /\ AckedDurable  BY DEF IInv
<1>1. ASSUME entries' = entries, acked' = acked,
             \A d \in Conns : pc'[d] = "commit" => pc[d] = "commit" /\ req'[d] = req[d]
      PROVE  FreshKeys' /\ Housed' /\ AckedDurable'
  BY <1>0, <1>1 DEF FreshKeys, Housed, AckedDurable, KeyTaken, RowsOf
<1>2. CASE UNCHANGED vars  BY <1>1, <1>2 DEF vars
<1>3. ASSUME NEW c \in Conns,
             \/ Begin(c) \/ EnsureRow(c) \/ RejectStranger(c) \/ Move(c) \/ Refuse(c)
             \/ Overflow(c) \/ OutOfRange(c) \/ Conflict(c)
             \/ ForeignRollback(c) \/ ConnectionLost(c)
      PROVE  FreshKeys' /\ Housed' /\ AckedDurable'
  BY <1>0, <1>1, <1>3 DEF Begin, EnsureRow, RejectStranger, Move, Refuse, Overflow, OutOfRange, Conflict,
     ForeignRollback, ConnectionLost, Undo, Release, TypeOK
<1>4. ASSUME NEW c \in Conns, Insert(c)
      PROVE  FreshKeys' /\ Housed' /\ AckedDurable'
 <2>1. entries' = entries /\ acked' = acked /\ req' = req  BY <1>4 DEF Insert
 <2>2. \A d \in Conns : pc'[d] = "commit" => d = c \/ pc[d] = "commit" BY <1>0, <1>4 DEF Insert, TypeOK
 <2>3. \A d \in Conns : pc'[d] = "commit" => ~KeyTaken(req[d].account, req[d].key)
   BY <1>0, <1>4, <2>2 DEF Insert, FreshKeys
 <2> QED  BY <1>0, <2>1, <2>3 DEF FreshKeys, Housed, AckedDurable, KeyTaken, RowsOf
<1>5. ASSUME NEW c \in Conns, Commit(c)
      PROVE  FreshKeys' /\ Housed' /\ AckedDurable'
 <2>1. /\ \A a \in Accounts : RowsOf(a) \subseteq RowsOf(a)'
       /\ \A a \in Accounts : a = req[c].account => pend[c] \in RowsOf(a)'
       /\ pend[c].account = req[c].account
       /\ \A a \in Accounts : a # req[c].account => entries'[a] = entries[a]
       /\ Housed'
   BY <1>5, CommitRows
 <2>2. AckedDurable'
  <3>1. ASSUME NEW row \in acked'  PROVE row \in RowsOf(row.account)'
   <4>1. CASE row \in acked
    <5>1. row.account \in Accounts  BY <1>0, <4>1 DEF TypeOK, Row
    <5>2. row \in RowsOf(row.account)  BY <1>0, <4>1 DEF AckedDurable
    <5> QED  BY <2>1, <5>1, <5>2
   <4>2. CASE row = pend[c]
    <5>1. req[c].account \in Accounts BY <1>0, <1>5 DEF Commit, Stages
    <5> QED  BY <2>1, <4>2, <5>1
   <4> QED  BY <1>5, <3>1, <4>1, <4>2 DEF Commit
  <3> QED  BY <3>1 DEF AckedDurable
 <2>3. ASSUME NEW d \in Conns, pc'[d] = "commit"
       PROVE  ~KeyTaken(req[d].account, req[d].key)' /\ req'[d] = req[d]
  <3>1. d # c /\ pc[d] = "commit" /\ req'[d] = req[d] BY <1>0, <1>5, <2>3 DEF Commit, Release, TypeOK
  <3>2. /\ lock[req[d].account] = d /\ lock[req[c].account] = c
        /\ req[d].account \in Accounts
    BY <1>0, <1>5, <3>1 DEF Commit, Locking, Stages
  <3>3. entries'[req[d].account] = entries[req[d].account] BY <2>1, <3>1, <3>2
  <3>4. ~KeyTaken(req[d].account, req[d].key) BY <1>0, <3>1 DEF FreshKeys
  <3> QED  BY <3>1, <3>3, <3>4 DEF KeyTaken
 <2>4. FreshKeys'  BY <2>3 DEF FreshKeys, KeyTaken
 <2> QED  BY <2>1, <2>2, <2>4
<1>6. ASSUME NEW c \in Conns, Replay(c)
      PROVE  FreshKeys' /\ Housed' /\ AckedDurable'
 <2>1. entries' = entries  BY <1>6 DEF Replay
 <2>2. FreshKeys' /\ Housed'
  <3>1. \A d \in Conns : pc'[d] = "commit" => pc[d] = "commit" /\ req'[d] = req[d]
    BY <1>0, <1>6 DEF Replay, Release, TypeOK
  <3> QED  BY <1>0, <2>1, <3>1 DEF FreshKeys, Housed, KeyTaken
 <2>3. \A row \in Existing(req[c]) : row \in RowsOf(row.account)
  <3>1. req[c].account \in Accounts  BY <1>0, <1>6 DEF Replay, Stages
  <3> QED  BY <1>0, <3>1 DEF Existing, RowsOf, Housed
 <2>4. \A row \in acked' : row \in RowsOf(row.account) BY <1>0, <1>6, <2>3 DEF Replay, AckedDurable
 <2>5. AckedDurable'  BY <2>1, <2>4 DEF AckedDurable, RowsOf
 <2> QED  BY <2>2, <2>5
<1>7. ASSUME NEW c \in Conns, ForeignCommit(c)
      PROVE  FreshKeys' /\ Housed' /\ AckedDurable'
 <2>1. entries' = entries  BY <1>7, ForeignTables
 <2> QED  BY <1>1, <1>7, <2>1 DEF ForeignCommit
<1> QED  BY <1>2, <1>3, <1>4, <1>5, <1>6, <1>7 DEF Next, Statement

\* The empty wallets of the initial state satisfy the invariant.
LEMMA InitInv == Init => IInv
  BY NotARow, NotAConnection DEF Init, IInv, TypeOK, Stages, Locking, FreshKeys, Housed, LedgerBalances,
     KeyAppliedOnce, AckedDurable, Zero, Chained, LastBalance

\* The invariant is inductive.
LEMMA NextInv ==
  ASSUME IInv, [Next]_vars
  PROVE  IInv'
<1>1. TypeOK' /\ Stages' /\ Locking' BY TypeStep, StagesStep, LockingStep DEF IInv
<1>2. LedgerBalances' /\ KeyAppliedOnce'  BY HistoryStep
<1>3. FreshKeys' /\ Housed' /\ AckedDurable'  BY AnswersStep
<1> QED  BY <1>1, <1>2, <1>3 DEF IInv

\* The invariant holds in every state of every behaviour.
THEOREM Inductive == Spec => []IInv
  BY InitInv, NextInv, PTL DEF Spec

\* The variables keep their types.
THEOREM TypeCorrect == Spec => []TypeOK
<1>1. IInv => TypeOK  BY DEF IInv
<1> QED  BY <1>1, Inductive, PTL

\* As long as an account has not overflowed, its balance is what its history
\* adds up to (guarantees 1 and 2 of wallet.repository.js).
THEOREM BalancesAddUp == Spec => []LedgerBalances
<1>1. IInv => LedgerBalances  BY DEF IInv
<1> QED  BY <1>1, Inductive, PTL

\* No key is applied twice to an account, whatever calls interleave or break
\* (ON CONFLICT DO NOTHING under the balance row's lock).
THEOREM AppliedOnce == Spec => []KeyAppliedOnce
<1>1. IInv => KeyAppliedOnce  BY DEF IInv
<1> QED  BY <1>1, Inductive, PTL

\* A transaction that _apply returned is committed for good.
THEOREM Acknowledged == Spec => []AckedDurable
<1>1. IInv => AckedDurable  BY DEF IInv
<1> QED  BY <1>1, Inductive, PTL

\* Only the overflow exception puts a locked row back into the pool.
THEOREM PoolClean == Spec => []PooledHoldsNothing
<1>1. IInv => PooledHoldsNothing  BY DEF IInv, Locking, PooledHoldsNothing
<1> QED  BY <1>1, Inductive, PTL

\* While nothing has overflowed, COMMIT is the atomic wallet's Apply.
LEMMA CommitApplies ==
  ASSUME IInv, NEW c \in Conns, Commit(c), overflowed = {}
  PROVE  Ledger!LedgerNext
<1> DEFINE r == req[c]
           acc == req[c].account
           cur == req[c].currency
           next == committed[acc][cur] + Delta(r)
<1>1. /\ r \in Request(Accounts \cup Strangers)
      /\ acc \in Accounts /\ cur \in Currencies
      /\ pend[c] = RowOf(r, tip[acc][cur]) /\ pend[c] \in Row
      /\ entries' = [entries EXCEPT ![acc][cur] = Append(@, pend[c])]
      /\ \A a \in Accounts : a # acc => committed'[a] = committed[a]
      /\ committed'[acc] = [committed[acc] EXCEPT ![cur] = @ + Delta(r)]
      /\ pend[c].balanceAfter = committed[acc][cur] + Delta(r)
  BY CommitTables
<1>2. r \in Ledger!Request(Accounts) BY <1>1 DEF Request, Directions, Ledger!Request, Ledger!Directions
<1>3. Ledger!Delta(r) = Delta(r) /\ Ledger!RowOf(r, next) = RowOf(r, next)
  BY DEF Delta, RowOf, Ledger!Delta, Ledger!RowOf
<1>4. ~Ledger!KeyUsed(acc, r.key) BY DEF IInv, FreshKeys, Commit, KeyTaken, Ledger!KeyUsed
<1>5. Ledger!Affordable(r)
 <2>1. pend[c] \in Row /\ pend[c].balanceAfter = next  BY <1>1
 <2>2. pend[c].balanceAfter \in Nat  BY <2>1 DEF Row
 <2>3. next >= 0 BY <2>1, <2>2
 <2> QED  BY <1>3, <2>3 DEF Ledger!Affordable
<1>6. pend[c] = RowOf(r, next)
 <2>1. pend[c].balanceAfter = tip[acc][cur]  BY <1>1 DEF RowOf
 <2> QED  BY <1>1, <2>1
<1>7. committed' = [committed EXCEPT ![acc][cur] = next]
 <2>1. committed' = [a \in Accounts |-> committed'[a]] BY DEF Commit, Publish
 <2>2. committed = [a \in Accounts |-> committed[a]] BY DEF IInv, TypeOK
 <2>3. cur \in DOMAIN committed[acc] BY <1>1 DEF IInv, TypeOK
 <2>4. committed'[acc] = [committed[acc] EXCEPT ![cur] = next] BY <1>1, <2>3
 <2> HIDE DEF acc, cur, next
 <2> QED  BY <1>1, <2>1, <2>2, <2>4
<1>8. Ledger!Apply(r) BY <1>1, <1>4, <1>5, <1>6, <1>7, <1>3 DEF Ledger!Apply
<1> QED  BY <1>2, <1>8 DEF Ledger!LedgerNext

\* The transaction of several statements implements the atomic wallet until
\* a balance is pushed past Number.MAX_SAFE_INTEGER.
THEOREM Refinement == Spec => ImplementsLedger
<1> USE DEF tables
<1>1. Init => Ledger!LedgerInit BY DEF Init, Zero, Ledger!LedgerInit
<1>2. ASSUME IInv, [Next]_vars
      PROVE  [overflowed' # {} \/ Ledger!LedgerNext]_tables
 <2>1. CASE UNCHANGED vars  BY <2>1 DEF vars
 <2>2. ASSUME NEW c \in Conns, Commit(c)
       PROVE  [overflowed' # {} \/ Ledger!LedgerNext]_tables
  <3>1. overflowed' = overflowed  BY <2>2 DEF Commit
  <3> QED  BY <1>2, <2>2, <3>1, CommitApplies
 <2>3. ASSUME NEW c \in Conns, ForeignCommit(c)
       PROVE  [overflowed' # {} \/ Ledger!LedgerNext]_tables
  <3>1. /\ entries' = entries /\ overflowed' = overflowed
        /\ \A a \in Accounts \ overflowed : committed'[a] = committed[a]
    BY <1>2, <2>3, ForeignTables DEF ForeignCommit
  <3>2. overflowed = {} => committed' = committed
    BY <1>2, <2>3, <3>1 DEF IInv, TypeOK, ForeignCommit, Publish
  <3> QED  BY <3>1, <3>2
 <2>4. ASSUME NEW c \in Conns,
              \/ Begin(c) \/ EnsureRow(c) \/ RejectStranger(c) \/ Move(c) \/ Refuse(c)
              \/ Overflow(c) \/ OutOfRange(c) \/ Insert(c) \/ Conflict(c) \/ Replay(c)
              \/ ForeignRollback(c) \/ ConnectionLost(c)
       PROVE  UNCHANGED tables
   BY <2>4 DEF Begin, EnsureRow, RejectStranger, Move, Refuse, Overflow, OutOfRange, Insert, Conflict,
      Replay, ForeignRollback, ConnectionLost, Undo
 <2> QED  BY <1>2, <2>1, <2>2, <2>3, <2>4 DEF Next, Statement
<1> QED  BY <1>1, <1>2, Inductive, PTL DEF Spec, ImplementsLedger
-----------------------------
(* What moves coins through the wallet. *)
\* The ids of purchases and of what staff hand out (store.service.js:27, platform.routes.js).
StoreKeys == PurchaseIds \cup HandoutIds

\* The ids of one kind of request are those of no other, and keys of the wallet.
LEMMA Kinds ==
  /\ Orders \cap StoreKeys = {} /\ Orders \cap GuardIds = {}
  /\ Orders \cap RedemptionIds = {} /\ Orders \cap RewardKeys = {}
  /\ StoreKeys \cap GuardIds = {} /\ StoreKeys \cap RedemptionIds = {}
  /\ StoreKeys \cap RewardKeys = {} /\ PurchaseIds \cap HandoutIds = {}
  /\ GuardIds \cap RedemptionIds = {} /\ GuardIds \cap RewardKeys = {}
  /\ RedemptionIds \cap RewardKeys = {}
<1> DEFINE kinds == <<Orders, PurchaseIds, HandoutIds, GuardIds, RedemptionIds, RewardKeys>>
<1>1. \A i, k \in 1..6 : i # k => kinds[i] \cap kinds[k] = {} BY KindsApart
<1>2. /\ Orders \cap PurchaseIds = {} /\ Orders \cap HandoutIds = {} /\ Orders \cap GuardIds = {}
      /\ Orders \cap RedemptionIds = {} /\ Orders \cap RewardKeys = {}
 <2>1. kinds[1] \cap kinds[2] = {} /\ kinds[1] \cap kinds[3] = {} /\ kinds[1] \cap kinds[4] = {}
       /\ kinds[1] \cap kinds[5] = {} /\ kinds[1] \cap kinds[6] = {}
   BY <1>1
 <2> QED BY <2>1
<1>3. /\ PurchaseIds \cap HandoutIds = {} /\ PurchaseIds \cap GuardIds = {}
      /\ PurchaseIds \cap RedemptionIds = {} /\ PurchaseIds \cap RewardKeys = {}
 <2>1. kinds[2] \cap kinds[3] = {} /\ kinds[2] \cap kinds[4] = {}
       /\ kinds[2] \cap kinds[5] = {} /\ kinds[2] \cap kinds[6] = {}
   BY <1>1
 <2> QED BY <2>1
<1>4. /\ HandoutIds \cap GuardIds = {} /\ HandoutIds \cap RedemptionIds = {}
      /\ HandoutIds \cap RewardKeys = {}
 <2>1. kinds[3] \cap kinds[4] = {} /\ kinds[3] \cap kinds[5] = {} /\ kinds[3] \cap kinds[6] = {} BY <1>1
 <2> QED BY <2>1
<1>5. /\ GuardIds \cap RedemptionIds = {} /\ GuardIds \cap RewardKeys = {}
      /\ RedemptionIds \cap RewardKeys = {}
 <2>1. kinds[4] \cap kinds[5] = {} /\ kinds[4] \cap kinds[6] = {} /\ kinds[5] \cap kinds[6] = {} BY <1>1
 <2> QED BY <2>1
<1> QED BY <1>2, <1>3, <1>4, <1>5 DEF StoreKeys
-----------------------------
\* What a request of each kind carries while it is under way.
RechargeJob ==
  [op : {"recharge"}, key : Orders,
   at : {"verify", "markFailed", "credit", "markCompleted", "lifetime", "notify"}]
PurchaseJob == [op : {"store"}, at : {"debit", "grant"}, key : PurchaseIds, account : Accounts]
HandoutJob ==
  [op : {"handout"}, at : {"give", "note"}, key : HandoutIds, by : Accounts,
   what : Directions \cup {"item"}, account : Accounts]
GuardJob ==
  [op : {"guard"}, at : {"debit", "renew", "insert", "notify"}, key : GuardIds,
   pair : Accounts \X Accounts, now : Nat]
ShareJob ==
  [op : {"share"}, at : {"progress", "upsert"}, key : RewardKeys, account : Accounts, seen : Nat]
ClaimJob == [op : {"claim"}, at : {"mark", "credit", "notify"}, key : RewardKeys, account : Accounts]
CodeJob == [op : {"code"}, at : {"add"}, key : CodeIds, owner : Accounts]
RedeemJob ==
  [op : {"redeem"}, at : {"add", "credit", "complete"}, key : RedemptionIds,
   referee : Accounts, referrer : Accounts]

Jobs ==
  {Idle} \cup RechargeJob \cup PurchaseJob \cup HandoutJob \cup GuardJob \cup ShareJob
    \cup ClaimJob \cup CodeJob \cup RedeemJob

\* Requests for rewards are about the reward of their account.
KeysOfRewards ==
  \A h \in Handlers : job[h].op \in {"share", "claim"} => job[h].key = RewardKey[job[h].account]

\* What the tables the flows share hold.
TablesTyped ==
  /\ time \in Nat
  /\ orders \in [Orders -> {NoOrder} \cup OrderRow]
  /\ progress \in [Accounts -> ProgressRow]
  /\ shares \in [Accounts -> Nat]
  /\ \A c \in codes : c.owner \in Accounts

\* Requests and tables of the right kind.
Typed ==
  /\ job \in [Handlers -> Jobs] /\ KeysOfRewards
  /\ notices \in [Ids -> Nat]
  /\ TablesTyped

\* A request of some kind is one.
LEMMA JobKinds ==
  ASSUME Typed, NEW h \in Handlers
  PROVE  /\ job[h].op = "recharge" => job[h] \in RechargeJob
         /\ job[h].op = "store" => job[h] \in PurchaseJob
         /\ job[h].op = "handout" => job[h] \in HandoutJob
         /\ job[h].op = "guard" => job[h] \in GuardJob
         /\ job[h].op = "share" => job[h] \in ShareJob
         /\ job[h].op = "claim" => job[h] \in ClaimJob
         /\ job[h].op = "code" => job[h] \in CodeJob
         /\ job[h].op = "redeem" => job[h] \in RedeemJob
         /\ job[h].op = "none" => job[h] = Idle
  BY DEF Typed, Jobs, RechargeJob, PurchaseJob, HandoutJob, GuardJob, ShareJob, ClaimJob, CodeJob,
     RedeemJob, Idle
-----------------------------
\* The request is past the call of the wallet that it tells its user about.
Past(j) ==
  \/ j.op = "recharge" /\ j.at \in {"markCompleted", "lifetime", "notify"}
  \/ j.op = "guard" /\ j.at \in {"renew", "insert", "notify"}
  \/ j.op = "claim" /\ j.at = "notify"

\* Coins moved under key k.
OnBooks(k) == \E row \in CoinRows : row.key = k

\* Nothing is told, or about to be told, of money that did not move.
Announced ==
  /\ \A h \in Handlers : Past(job[h]) => OnBooks(job[h].key)
  /\ \A k \in Ids : notices[k] > 0 => OnBooks(k)

\* What every flow stands on: types, the ledger, and what was told.
Ground == Typed /\ Books /\ Announced

\* Rows are added under keys only; nothing is taken back.
Grown(keys) ==
  /\ CoinRows \subseteq CoinRows'
  /\ \A row \in CoinRows' \ CoinRows : row.key \in keys
  /\ dropped \subseteq dropped' /\ issued \subseteq issued'
  /\ time' >= time

\* A step of handler h on requests of kinds ops, with rows for keys.
Within(h, ops, keys) ==
  /\ Grown(keys)
  /\ job[h].op \in ops \cup {"none"} /\ job'[h].op \in ops \cup {"none"}
  /\ \A g \in Handlers \ {h} : job'[g] = job[g]

\* What requests of kinds ops, with keys, see of everybody else's steps:
\* their rows stay as they are, and a request of theirs may be cut off.
Apart(ops, keys) ==
  /\ CoinRows \subseteq CoinRows'
  /\ \A row \in CoinRows' \ CoinRows : row.key \notin keys
  /\ dropped \subseteq dropped' /\ issued \subseteq issued'
  /\ time' >= time
  /\ \A h \in Handlers :
        \/ job'[h] = job[h]
        \/ job'[h].op \notin ops /\ (job[h].op \in ops => job[h].key \in dropped')

\* Requests of different kinds, with different keys, do not meet.
LEMMA WithinIsApart ==
  ASSUME NEW h \in Handlers, NEW ops, NEW keys, NEW others, NEW theirs,
         Within(h, ops, keys), ops \cap others = {}, keys \cap theirs = {}, "none" \notin others
  PROVE  Apart(others, theirs)
  BY DEF Within, Grown, Apart

\* The calls of the wallet are calls about coins, under keys of their own.
LEMMA CallsTyped ==
  /\ \A a \in Accounts, k \in PurchaseIds : CoinMove(StoreDebit(a, k))
  /\ \A a \in Accounts, k \in GuardIds : CoinMove(GuardDebit(a, k))
  /\ \A a \in Accounts : CoinMove(RewardCredit(a)) /\ RewardKey[a] \in RewardKeys
  /\ \A o \in Orders : orders[o] \in OrderRow => CoinMove(RechargeCredit(o))
  /\ \A d : d.account \in Accounts /\ d.what \in Directions /\ d.ref \in HandoutIds
              => CoinMove(HandoutMove(d))
  /\ \A d : d.referrer \in Accounts /\ d.id \in RedemptionIds => CoinMove(RedemptionCredit(d))
<1> USE SeedKeyFree, PricesAreAmounts, CoinsAreCurrency DEF CoinMove, Request, Directions
<1>1. \A a \in Accounts, k \in PurchaseIds : CoinMove(StoreDebit(a, k)) BY PurchasesAreKeys DEF StoreDebit
<1>2. \A a \in Accounts, k \in GuardIds : CoinMove(GuardDebit(a, k)) BY GuardsAreKeys DEF GuardDebit
<1>3. \A a \in Accounts : CoinMove(RewardCredit(a)) /\ RewardKey[a] \in RewardKeys
  BY RewardKeyType DEF RewardCredit, RewardKeys
<1>4. \A o \in Orders : orders[o] \in OrderRow => CoinMove(RechargeCredit(o))
  BY OrdersAreKeys DEF RechargeCredit, OrderRow
<1>5. \A d : d.account \in Accounts /\ d.what \in Directions /\ d.ref \in HandoutIds
              => CoinMove(HandoutMove(d))
  BY PurchasesAreKeys DEF HandoutMove
<1>6. \A d : d.referrer \in Accounts /\ d.id \in RedemptionIds => CoinMove(RedemptionCredit(d))
  BY RedemptionsAreKeys DEF RedemptionCredit
<1> QED BY <1>1, <1>2, <1>3, <1>4, <1>5, <1>6

\* The wallet is left alone, or called for one of keys.
Called(keys) == UNCHANGED ledgerVars \/ \E r : CoinMove(r) /\ r.key \in keys /\ Settle(r)

\* What a step of a handler has to show for the ground to hold after it.
LEMMA Turned ==
  ASSUME Ground, NEW h \in Handlers, NEW j \in Jobs, NEW ops, NEW keys,
         job' = [job EXCEPT ![h] = j],
         j.op \in {"share", "claim"} => j.key = RewardKey[j.account],
         job[h].op \in ops \cup {"none"}, j.op \in ops \cup {"none"},
         dropped \subseteq dropped', issued \subseteq issued', time' = time, TablesTyped',
         Called(keys),
         Past(j) => \/ Past(job[h]) /\ j.key = job[h].key
                    \/ OnBooks(j.key)',
         \/ notices' = notices
         \/ Past(job[h]) /\ notices' = [notices EXCEPT ![job[h].key] = @ + 1]
  PROVE  Ground' /\ Within(h, ops, keys)
<1>1. job \in [Handlers -> Jobs] /\ KeysOfRewards /\ notices \in [Ids -> Nat] /\ time \in Nat
  BY DEF Ground, Typed, TablesTyped
<1>2. job'[h] = j /\ \A g \in Handlers \ {h} : job'[g] = job[g] BY <1>1
<1>3. /\ Books' /\ CoinRows \subseteq CoinRows'
      /\ \A row \in CoinRows' \ CoinRows : row.key \in keys
 <2>1. CASE UNCHANGED ledgerVars
  <3>1. balance' = balance /\ ledger' = ledger BY <2>1 DEF ledgerVars
  <3>2. CoinRows' = CoinRows BY <3>1 DEF CoinRows
  <3> QED BY <3>1, <3>2 DEF Ground, Books
 <2>2. CASE \E r : CoinMove(r) /\ r.key \in keys /\ Settle(r)
  <3>1. PICK r : CoinMove(r) /\ r.key \in keys /\ Settle(r) BY <2>2
  <3>2. Books' /\ Entered(r) BY <3>1, Settled DEF Ground
  <3> QED BY <3>1, <3>2 DEF Entered, RowOf
 <2> QED BY <2>1, <2>2 DEF Called
<1>4. Typed'
 <2>1. job' \in [Handlers -> Jobs] BY <1>1
 <2>2. KeysOfRewards' BY <1>1, <1>2 DEF KeysOfRewards
 <2>3. notices' \in [Ids -> Nat] BY <1>1
 <2> QED BY <2>1, <2>2, <2>3 DEF Typed
<1>5. Announced'
 <2>1. ASSUME NEW g \in Handlers, Past(job[g])'
       PROVE  OnBooks(job[g].key)'
  <3>1. CASE g = h
   <4>1. Past(j) BY <1>2, <2>1, <3>1 DEF Past
   <4>2. CASE Past(job[h]) /\ j.key = job[h].key
    <5>1. OnBooks(j.key) BY <4>2 DEF Ground, Announced
    <5> QED BY <1>2, <1>3, <3>1, <5>1 DEF OnBooks
   <4>3. CASE OnBooks(j.key)' BY <1>2, <3>1, <4>3 DEF OnBooks
   <4> QED BY <4>1, <4>2, <4>3
  <3>2. CASE g # h
   <4>1. Past(job[g]) BY <1>2, <2>1, <3>2 DEF Past
   <4>2. OnBooks(job[g].key) BY <4>1 DEF Ground, Announced
   <4> QED BY <1>2, <1>3, <3>2, <4>2 DEF OnBooks
  <3> QED BY <3>1, <3>2
 <2>2. ASSUME NEW k \in Ids, notices'[k] > 0
       PROVE  OnBooks(k)'
  <3>1. CASE notices' = notices BY <1>3, <2>2, <3>1 DEF Ground, Announced, OnBooks
  <3>2. CASE Past(job[h]) /\ notices' = [notices EXCEPT ![job[h].key] = @ + 1]
   <4>1. OnBooks(job[h].key) BY <3>2 DEF Ground, Announced
   <4>2. k # job[h].key => notices'[k] = notices[k] BY <1>1, <3>2
   <4>3. OnBooks(k) BY <2>2, <4>1, <4>2 DEF Ground, Announced
   <4> QED BY <1>3, <4>3 DEF OnBooks
  <3> QED BY <3>1, <3>2
 <2> QED BY <2>1, <2>2 DEF Announced
<1>6. Within(h, ops, keys) BY <1>1, <1>2, <1>3 DEF Within, Grown
<1> QED BY <1>3, <1>4, <1>5, <1>6 DEF Ground

\* Some step of a request that goes on.
LEMMA Goes ==
  ASSUME Ground, NEW h \in Handlers, NEW at, NEW ops, NEW keys, NEW k,
         job[h].op \in ops, job[h].op # "none", k = job[h].key,
         Goto(h, at), [job[h] EXCEPT !.at = at] \in Jobs,
         Called(keys), TablesTyped',
         Past([job[h] EXCEPT !.at = at]) => Past(job[h]) \/ OnBooks(k)'
  PROVE  /\ Ground' /\ Within(h, ops, keys)
         /\ job' = [job EXCEPT ![h] = [job[h] EXCEPT !.at = at]]
<1>0. PICK j : j = [job[h] EXCEPT !.at = at] OBVIOUS
<1>1. job' = [job EXCEPT ![h] = j] /\ UNCHANGED <<issued, dropped, time, notices>> BY <1>0 DEF Goto
<1>2. /\ j \in Jobs /\ j.op = job[h].op /\ j.key = job[h].key
      /\ j.op \in {"share", "claim"} => j.key = RewardKey[j.account]
 <2>1. j.op = job[h].op /\ j.key = job[h].key
   BY <1>0, JobKinds DEF Ground, Typed, Jobs, RechargeJob, PurchaseJob, HandoutJob, GuardJob, ShareJob,
      ClaimJob, CodeJob, RedeemJob, Idle
 <2>2. job[h].op \in {"share", "claim"} => j.account = job[h].account
   BY <1>0, JobKinds DEF Ground, ShareJob, ClaimJob
 <2>3. job[h].op \in {"share", "claim"} => job[h].key = RewardKey[job[h].account]
   BY DEF Ground, Typed, KeysOfRewards
 <2> QED BY <1>0, <2>1, <2>2, <2>3
<1>3. Past(j) => (Past(job[h]) /\ j.key = job[h].key) \/ OnBooks(j.key)' BY <1>0, <1>2
<1>4. Ground' /\ Within(h, ops, keys) BY <1>1, <1>2, <1>3, Turned
<1> QED BY <1>0, <1>1, <1>4

\* The last step of a request, whatever its end.
LEMMA Ends ==
  ASSUME Ground, NEW h \in Handlers, NEW ops, NEW keys,
         job[h].op \in ops,
         Finish(h) \/ (Notify(h) /\ Past(job[h])) \/ Break(h),
         Called(keys), TablesTyped'
  PROVE  /\ Ground' /\ Within(h, ops, keys)
         /\ job' = [job EXCEPT ![h] = Idle]
<1>1. /\ job' = [job EXCEPT ![h] = Idle] /\ UNCHANGED <<issued, time>>
      /\ dropped \subseteq dropped'
      /\ \/ notices' = notices
         \/ Past(job[h]) /\ notices' = [notices EXCEPT ![job[h].key] = @ + 1]
  BY DEF Finish, Notify, Break
<1>2. Idle \in Jobs /\ Idle.op = "none" /\ ~Past(Idle) BY DEF Idle, Jobs, Past
<1> QED BY <1>1, <1>2, Turned

\* A handler takes a request.
LEMMA Starts ==
  ASSUME Ground, NEW h \in Handlers, NEW j \in Jobs, NEW ops, NEW keys,
         Accept(h, j), j.op \in ops, ~Past(j),
         j.op \in {"share", "claim"} => j.key = RewardKey[j.account],
         issued \subseteq issued', UNCHANGED ledgerVars, TablesTyped'
  PROVE  /\ Ground' /\ Within(h, ops, keys)
         /\ job[h] = Idle /\ job' = [job EXCEPT ![h] = j]
<1>1. /\ job[h] = Idle /\ job' = [job EXCEPT ![h] = j]
      /\ UNCHANGED <<dropped, time, notices>>
  BY DEF Accept, Ready
<1>2. job[h].op = "none" BY <1>1 DEF Idle
<1>3. Called(keys) BY DEF Called
<1> QED BY <1>1, <1>2, <1>3, Turned
-----------------------------
\* A request to complete an order is about an order that exists.
KnownOrders ==
  \A h \in Handlers : job[h].op = "recharge" => orders[job[h].key] \in OrderRow

\* A step of a recharge keeps the ground, and adds rows for orders only.
LEMMA RechargeGround ==
  ASSUME Ground, KnownOrders, NEW h \in Handlers, StartComplete(h) \/ RechargeStep(h),
         UNCHANGED <<eventVars, referralVars>>
  PROVE  Ground' /\ Within(h, {"recharge"}, Orders)
<1> DEFINE Goal == Ground' /\ Within(h, {"recharge"}, Orders)
           at(s) == [job[h] EXCEPT !.at = s]
<1>1. UNCHANGED <<time, progress, shares, codes>>
  BY DEF StartComplete, RechargeStep, VerifyOk, VerifyFails, MarkFailed, CreditOrder, MarkCompleted,
     AddLifetime, NotifyPayment, Accept, Goto, Finish, Notify, eventVars, referralVars
<1>2. TablesTyped /\ (orders' \in [Orders -> {NoOrder} \cup OrderRow] => TablesTyped')
  BY <1>1 DEF Ground, Typed, TablesTyped
<1>3. ASSUME StartComplete(h) PROVE Goal
 <2>1. PICK o \in Orders : Accept(h, [op |-> "recharge", at |-> "verify", key |-> o])
   BY <1>3 DEF StartComplete
 <2> DEFINE j == [op |-> "recharge", at |-> "verify", key |-> o]
 <2>2. j \in Jobs /\ j.op = "recharge" /\ ~Past(j) BY DEF Jobs, RechargeJob, Past
 <2>3. Accept(h, j) /\ UNCHANGED <<issued, ledgerVars, orders>>
   BY <1>3, <2>1 DEF StartComplete, rechargeVars
 <2> HIDE DEF j
 <2>4. TablesTyped' BY <1>2, <2>3 DEF TablesTyped
 <2> QED BY <2>2, <2>3, <2>4, Starts
<1>4. ASSUME RechargeStep(h)
      PROVE  /\ job[h] \in RechargeJob /\ job[h].key \in Orders /\ job[h].op = "recharge"
             /\ orders[job[h].key] \in OrderRow
             /\ \A s \in {"verify", "markFailed", "credit", "markCompleted", "lifetime", "notify"} :
                  at(s) \in Jobs /\ at(s).op = "recharge" /\ at(s).at = s
 <2>1. job[h].op = "recharge"
   BY <1>4 DEF RechargeStep, VerifyOk, VerifyFails, MarkFailed, CreditOrder, MarkCompleted, AddLifetime,
      NotifyPayment, Doing
 <2>2. job[h] \in RechargeJob /\ orders[job[h].key] \in OrderRow BY <2>1, JobKinds DEF Ground, KnownOrders
 <2> QED BY <2>2 DEF RechargeJob, Jobs
<1> HIDE DEF Goal
<1>5. ASSUME VerifyOk(h) \/ VerifyFails(h) PROVE Goal
 <2>1. PICK s \in {"credit", "markFailed"} : Goto(h, s) BY <1>5 DEF VerifyOk, VerifyFails
 <2>2. UNCHANGED <<ledgerVars, orders>> /\ RechargeStep(h)
   BY <1>5 DEF VerifyOk, VerifyFails, rechargeVars, RechargeStep
 <2>3. TablesTyped' /\ Called(Orders) /\ ~Past(at(s)) BY <1>2, <1>4, <2>2 DEF TablesTyped, Called, Past
 <2> QED BY <1>4, <2>1, <2>2, <2>3, Goes DEF Goal
<1>6. ASSUME MarkFailed(h) PROVE Goal
 <2>1. Finish(h) /\ UNCHANGED ledgerVars /\ RechargeStep(h) BY <1>6 DEF MarkFailed, RechargeStep
 <2>2. orders' \in [Orders -> {NoOrder} \cup OrderRow]
   BY <1>2, <1>4, <1>6, <2>1 DEF MarkFailed, TablesTyped, OrderRow
 <2>3. TablesTyped' /\ Called(Orders) /\ job[h].op \in {"recharge"} BY <1>2, <1>4, <2>1, <2>2 DEF Called
 <2> QED BY <2>1, <2>3, Ends DEF Goal
<1>7. ASSUME CreditOrder(h) PROVE Goal
 <2>1. PICK r, k : r = RechargeCredit(k) /\ k = job[h].key OBVIOUS
 <2>2. /\ Goto(h, "markCompleted") /\ RechargeStep(h) /\ UNCHANGED orders
       /\ Settle(r)
   BY <1>7, <2>1 DEF CreditOrder, RechargeStep, rechargeVars
 <2>3. CoinMove(r) /\ r.key = k /\ r.direction = "credit" /\ k \in Orders
   BY <1>4, <2>1, <2>2, CallsTyped DEF RechargeCredit
 <2>4. Called(Orders) BY <2>2, <2>3 DEF Called
 <2>5. Booked(r.account, r.key)' BY <2>2, <2>3, Settled DEF Ground
 <2>6. OnBooks(k)' BY <2>3, <2>5 DEF Booked, OnBooks
 <2>7. TablesTyped' BY <1>2, <2>2 DEF TablesTyped
 <2> QED BY <1>4, <2>1, <2>2, <2>4, <2>6, <2>7, Goes DEF Goal
<1>8. ASSUME MarkCompleted(h) PROVE Goal
 <2>1. Goto(h, "lifetime") /\ UNCHANGED ledgerVars /\ RechargeStep(h) /\ Past(job[h])
   BY <1>8 DEF MarkCompleted, RechargeStep, Doing, Past
 <2>2. orders' \in [Orders -> {NoOrder} \cup OrderRow]
   BY <1>2, <1>4, <1>8, <2>1 DEF MarkCompleted, TablesTyped, OrderRow
 <2>3. TablesTyped' /\ Called(Orders) BY <1>2, <2>1, <2>2 DEF Called
 <2> QED BY <1>4, <2>1, <2>3, Goes DEF Goal
<1>9. ASSUME AddLifetime(h) PROVE Goal
 <2>1. /\ Goto(h, "notify") /\ UNCHANGED <<ledgerVars, orders>> /\ RechargeStep(h)
       /\ Past(job[h])
   BY <1>9 DEF AddLifetime, RechargeStep, Doing, Past
 <2>2. TablesTyped' BY <1>2, <2>1 DEF TablesTyped
 <2> QED BY <1>4, <2>1, <2>2, Goes DEF Goal, Called
<1>10. ASSUME NotifyPayment(h) PROVE Goal
 <2>1. /\ Notify(h) /\ UNCHANGED <<ledgerVars, orders>> /\ RechargeStep(h)
       /\ Past(job[h])
   BY <1>10 DEF NotifyPayment, RechargeStep, Doing, Past, rechargeVars
 <2>2. TablesTyped' BY <1>2, <2>1 DEF TablesTyped
 <2> QED BY <1>4, <2>1, <2>2, Ends DEF Goal, Called
<1> QED BY <1>3, <1>5, <1>6, <1>7, <1>8, <1>9, <1>10 DEF RechargeStep, Goal

\* An order is created, or the world moves, or nothing does: no request takes a step.
LEMMA OutsideGround ==
  ASSUME Ground, NEW ops, NEW keys, "none" \notin ops,
         \/ Outside \/ UNCHANGED paymentVars
         \/ (\E a \in Accounts : CreateOrder(a)) /\ UNCHANGED <<eventVars, referralVars>>
  PROVE  Ground' /\ Apart(ops, keys)
<1>1. /\ UNCHANGED ledgerVars /\ issued \subseteq issued' /\ dropped \subseteq dropped'
      /\ UNCHANGED <<notices, progress, shares, codes>>
  BY DEF Outside, Tick, Interrupted, Break, CreateOrder, eventVars, referralVars, paymentVars, handlerVars
<1>2. balance' = balance /\ ledger' = ledger /\ CoinRows' = CoinRows BY <1>1 DEF ledgerVars, CoinRows
<1>3. Books' BY <1>2 DEF Ground, Books
<1>4. job' = job \/ \E h \in Handlers : Interrupted(h)
  BY DEF Outside, Tick, CreateOrder, paymentVars, handlerVars
<1>5. /\ time \in Nat /\ time' \in Nat /\ time' >= time
      /\ orders' \in [Orders -> {NoOrder} \cup OrderRow]
 <2>1. time \in Nat /\ orders \in [Orders -> {NoOrder} \cup OrderRow] BY DEF Ground, Typed, TablesTyped
 <2>2. CASE Outside BY <2>1, <2>2 DEF Outside, Tick, Interrupted, Break, rechargeVars
 <2>3. CASE \E a \in Accounts : CreateOrder(a) BY <2>1, <2>3 DEF CreateOrder, OrderRow
 <2>4. CASE UNCHANGED paymentVars BY <2>1, <2>4 DEF paymentVars, handlerVars, rechargeVars
 <2> QED BY <2>2, <2>3, <2>4
<1>6. TablesTyped' BY <1>1, <1>5 DEF Ground, Typed, TablesTyped
<1>7. CASE job' = job
 <2>1. Typed' BY <1>1, <1>6, <1>7 DEF Ground, Typed, KeysOfRewards
 <2>2. Announced' BY <1>1, <1>2, <1>7 DEF Ground, Announced, OnBooks, Past
 <2> QED BY <1>1, <1>2, <1>3, <1>5, <1>7, <2>1, <2>2 DEF Ground, Apart
<1>8. ASSUME NEW h \in Handlers, Interrupted(h) PROVE Ground' /\ Apart(ops, keys)
 <2>1. /\ job \in [Handlers -> Jobs] /\ job' = [job EXCEPT ![h] = Idle]
       /\ dropped' = dropped \cup {job[h].key}
   BY <1>8 DEF Interrupted, Break, Ground, Typed
 <2>2. job'[h] = Idle /\ \A g \in Handlers \ {h} : job'[g] = job[g] BY <2>1
 <2>3. Idle \in Jobs /\ Idle.op = "none" /\ ~Past(Idle) BY DEF Idle, Jobs, Past
 <2>4. Typed' BY <1>1, <1>6, <2>1, <2>2, <2>3 DEF Ground, Typed, KeysOfRewards
 <2>5. Announced'
  <3>1. ASSUME NEW g \in Handlers, Past(job[g])'
        PROVE  OnBooks(job[g].key)'
   <4>1. g # h BY <2>2, <2>3, <3>1 DEF Past
   <4>2. Past(job[g]) /\ job'[g] = job[g] BY <2>2, <3>1, <4>1 DEF Past
   <4> QED BY <1>2, <4>2 DEF Ground, Announced, OnBooks
  <3>2. \A k \in Ids : (notices[k] > 0)' => OnBooks(k)' BY <1>1, <1>2 DEF Ground, Announced, OnBooks
  <3> QED BY <3>1, <3>2 DEF Announced
 <2>6. Apart(ops, keys) BY <1>1, <1>2, <1>5, <2>1, <2>2, <2>3 DEF Apart
 <2> QED BY <1>3, <2>4, <2>5, <2>6 DEF Ground
<1> QED BY <1>4, <1>7, <1>8
-----------------------------
\* The ground under the requests of the store and of staff.
LEMMA StoreGround ==
  ASSUME Ground, NEW h \in Handlers,
         \/ StoreStep(h)
         \/ \E a \in Accounts : StartPurchase(h, a)
         \/ \E by, a \in Accounts, what \in Directions \cup {"item"} : StartHandout(h, by, what, a),
         UNCHANGED <<rechargeVars, eventVars, referralVars>>
  PROVE  Ground' /\ Within(h, {"store", "handout"}, StoreKeys)
<1> DEFINE Goal == Ground' /\ Within(h, {"store", "handout"}, StoreKeys)
<1>1. UNCHANGED <<time, orders, progress, shares, codes>>
  BY DEF StoreStep, DebitPurchase, Grant, GiveItem, AdjustBalance, NoteHandout, StartPurchase, StartHandout,
     Accept, Goto, Finish, rechargeVars, eventVars, referralVars
<1>2. TablesTyped' BY <1>1 DEF Ground, Typed, TablesTyped
<1>3. ASSUME NEW a \in Accounts, StartPurchase(h, a) PROVE Goal
 <2>1. PICK k \in PurchaseIds :
         /\ Accept(h, [op |-> "store", at |-> "debit", key |-> k, account |-> a])
         /\ issued' = issued \cup {k} /\ UNCHANGED ledgerVars
   BY <1>3 DEF StartPurchase
 <2> DEFINE j == [op |-> "store", at |-> "debit", key |-> k, account |-> a]
 <2>2. j \in Jobs /\ j.op = "store" /\ ~Past(j) BY DEF Jobs, PurchaseJob, Past
 <2>3. Accept(h, j) /\ issued \subseteq issued' /\ UNCHANGED ledgerVars BY <2>1
 <2> HIDE DEF j
 <2> QED BY <1>2, <2>2, <2>3, Starts
<1>4. ASSUME NEW by \in Accounts, NEW a \in Accounts, NEW what \in Directions \cup {"item"},
             StartHandout(h, by, what, a)
      PROVE  Goal
 <2>1. PICK k \in HandoutIds :
         /\ Accept(h, [op |-> "handout", at |-> "give", key |-> k,
                       by |-> by, what |-> what, account |-> a])
         /\ issued' = issued \cup {k} /\ UNCHANGED ledgerVars
   BY <1>4 DEF StartHandout
 <2> DEFINE j == [op |-> "handout", at |-> "give", key |-> k,
                  by |-> by, what |-> what, account |-> a]
 <2>2. j \in Jobs /\ j.op = "handout" /\ ~Past(j) BY DEF Jobs, HandoutJob, Past
 <2>3. Accept(h, j) /\ issued \subseteq issued' /\ UNCHANGED ledgerVars BY <2>1
 <2> HIDE DEF j
 <2> QED BY <1>2, <2>2, <2>3, Starts
<1> HIDE DEF Goal
<1>5. ASSUME NEW s \in {"debit", "grant"}, Doing(h, "store", s)
      PROVE  /\ job[h] \in PurchaseJob /\ job[h].op = "store"
             /\ [job[h] EXCEPT !.at = "grant"] \in Jobs /\ ~Past([job[h] EXCEPT !.at = "grant"])
 <2>1. job[h] \in PurchaseJob BY <1>5, JobKinds DEF Doing, Ground
 <2> QED BY <2>1 DEF PurchaseJob, Jobs, Past
<1>6. ASSUME NEW s \in {"give", "note"}, Doing(h, "handout", s)
      PROVE  /\ job[h] \in HandoutJob /\ job[h].op = "handout"
             /\ [job[h] EXCEPT !.at = "note"] \in Jobs /\ ~Past([job[h] EXCEPT !.at = "note"])
 <2>1. job[h] \in HandoutJob BY <1>6, JobKinds DEF Doing, Ground
 <2> QED BY <2>1 DEF HandoutJob, Jobs, Past
<1>7. ASSUME NEW r, CoinMove(r), r.key \in StoreKeys, Settle(r) PROVE Called(StoreKeys) BY <1>7 DEF Called
<1>8. ASSUME DebitPurchase(h) PROVE Goal
 <2>1. PICK r : r = StoreDebit(job[h].account, job[h].key) OBVIOUS
 <2>2. Doing(h, "store", "debit") /\ Settle(r) /\ (Goto(h, "grant") \/ Finish(h))
   BY <1>8, <2>1 DEF DebitPurchase
 <2>3. CoinMove(r) /\ r.key \in StoreKeys
   BY <1>5, <2>1, <2>2, CallsTyped DEF PurchaseJob, StoreDebit, StoreKeys
 <2>4. Called(StoreKeys) BY <1>7, <2>2, <2>3
 <2>5. /\ [job[h] EXCEPT !.at = "grant"] \in Jobs /\ ~Past([job[h] EXCEPT !.at = "grant"])
       /\ job[h].op \in {"store", "handout"} /\ job[h].op # "none"
   BY <1>5, <2>2
 <2>6. CASE Goto(h, "grant") BY <1>2, <2>4, <2>5, <2>6, Goes DEF Goal
 <2>7. CASE Finish(h) BY <1>2, <2>4, <2>5, <2>7, Ends DEF Goal
 <2> QED BY <2>2, <2>6, <2>7
<1>9. ASSUME Grant(h) PROVE Goal
 <2>1. Doing(h, "store", "grant") /\ Finish(h) /\ Called(StoreKeys) BY <1>9 DEF Grant, Called
 <2> QED BY <1>2, <1>5, <2>1, Ends DEF Goal
<1>10. ASSUME GiveItem(h) PROVE Goal
 <2>1. Doing(h, "handout", "give") /\ Goto(h, "note") /\ Called(StoreKeys) BY <1>10 DEF GiveItem, Called
 <2>2. /\ job[h].op = "handout" /\ [job[h] EXCEPT !.at = "note"] \in Jobs
       /\ ~Past([job[h] EXCEPT !.at = "note"])
   BY <1>6, <2>1
 <2>3. job[h].op \in {"store", "handout"} /\ job[h].op # "none" BY <2>2
 <2> QED BY <1>2, <2>1, <2>2, <2>3, Goes DEF Goal
<1>11. ASSUME AdjustBalance(h) PROVE Goal
 <2>1. PICK d, r : d = Handout(job[h]) /\ r = HandoutMove(d) OBVIOUS
 <2>2. /\ Doing(h, "handout", "give") /\ Settle(r) /\ (Goto(h, "note") \/ Finish(h))
       /\ job[h].what \in Directions
   BY <1>11, <2>1 DEF AdjustBalance
 <2>3. d.account \in Accounts /\ d.what \in Directions /\ d.ref \in HandoutIds
   BY <1>6, <2>1, <2>2 DEF HandoutJob, Handout
 <2>4. CoinMove(r) /\ r.key \in StoreKeys BY <2>1, <2>3, CallsTyped DEF HandoutMove, StoreKeys
 <2>5. Called(StoreKeys) BY <1>7, <2>2, <2>4
 <2>6. /\ [job[h] EXCEPT !.at = "note"] \in Jobs /\ ~Past([job[h] EXCEPT !.at = "note"])
       /\ job[h].op \in {"store", "handout"} /\ job[h].op # "none"
   BY <1>6, <2>2
 <2>7. CASE Goto(h, "note") BY <1>2, <2>5, <2>6, <2>7, Goes DEF Goal
 <2>8. CASE Finish(h) BY <1>2, <2>5, <2>6, <2>8, Ends DEF Goal
 <2> QED BY <2>2, <2>7, <2>8
<1>12. ASSUME NoteHandout(h) PROVE Goal
 <2>1. Doing(h, "handout", "note") /\ Finish(h) /\ Called(StoreKeys) BY <1>12 DEF NoteHandout, Called
 <2> QED BY <1>2, <1>6, <2>1, Ends DEF Goal
<1> QED BY <1>3, <1>4, <1>8, <1>9, <1>10, <1>11, <1>12 DEF StoreStep, Goal

\* The ground under the purchases of guards.
LEMMA GuardGround ==
  ASSUME Ground, NEW h \in Handlers,
         GuardStep(h) \/ \E fan, host \in Accounts : StartGuard(h, fan, host),
         UNCHANGED <<rechargeVars, eventVars, referralVars>>
  PROVE  Ground' /\ Within(h, {"guard"}, GuardIds)
<1> DEFINE Goal == Ground' /\ Within(h, {"guard"}, GuardIds)
<1>1. UNCHANGED <<time, orders, progress, shares, codes>>
  BY DEF GuardStep, DebitGuard, RenewGuard, SeeNoGuard, InsertGuard, InsertLoses, NotifyGuard, StartGuard,
     Accept, Goto, Finish, Notify, Break, rechargeVars, eventVars, referralVars
<1>2. TablesTyped' /\ time \in Nat BY <1>1 DEF Ground, Typed, TablesTyped
<1>3. ASSUME NEW fan \in Accounts, NEW host \in Accounts, StartGuard(h, fan, host) PROVE Goal
 <2>1. PICK k \in GuardIds :
         /\ Accept(h, [op |-> "guard", at |-> "debit", key |-> k,
                       pair |-> <<fan, host>>, now |-> time])
         /\ issued' = issued \cup {k} /\ UNCHANGED ledgerVars
   BY <1>3 DEF StartGuard
 <2>2. PICK j : j = [op |-> "guard", at |-> "debit", key |-> k, pair |-> <<fan, host>>, now |-> time]
   OBVIOUS
 <2>3. j \in Jobs /\ j.op = "guard" /\ ~Past(j) BY <1>2, <2>2 DEF Jobs, GuardJob, Past
 <2>4. Accept(h, j) /\ issued \subseteq issued' /\ UNCHANGED ledgerVars BY <2>1, <2>2
 <2> QED BY <1>2, <2>3, <2>4, Starts
<1> HIDE DEF Goal
<1>4. ASSUME NEW s \in {"debit", "renew", "insert", "notify"}, Doing(h, "guard", s)
      PROVE  /\ job[h] \in GuardJob /\ job[h].op = "guard"
             /\ \A t \in {"renew", "insert", "notify"} : [job[h] EXCEPT !.at = t] \in Jobs
             /\ s # "debit" => Past(job[h])
 <2>1. job[h] \in GuardJob BY <1>4, JobKinds DEF Doing, Ground
 <2> QED BY <1>4, <2>1 DEF GuardJob, Jobs, Past, Doing
<1>5. ASSUME DebitGuard(h) PROVE Goal
 <2>1. PICK r, k : k = job[h].key /\ r = GuardDebit(job[h].pair[1], k) OBVIOUS
 <2>2. /\ Doing(h, "guard", "debit") /\ Settle(r)
       /\ \/ /\ Succeeds(r) /\ job' = [job EXCEPT ![h].at = "renew", ![h].now = time]
             /\ UNCHANGED <<issued, dropped, time, notices>>
          \/ Finish(h)
   BY <1>5, <2>1 DEF DebitGuard
 <2>3. CoinMove(r) /\ r.key = k /\ k \in GuardIds BY <1>4, <2>1, <2>2, CallsTyped DEF GuardJob, GuardDebit
 <2>4. Called(GuardIds) BY <2>2, <2>3 DEF Called
 <2>5. ASSUME Succeeds(r), job' = [job EXCEPT ![h].at = "renew", ![h].now = time],
              UNCHANGED <<issued, dropped, time, notices>>
       PROVE  Goal
  <3>1. PICK j : j = [job[h] EXCEPT !.at = "renew", !.now = time] OBVIOUS
  <3>2. j \in GuardJob /\ j.key = k BY <1>2, <1>4, <2>1, <2>2, <3>1 DEF GuardJob
  <3>3. j \in Jobs /\ j.op = "guard" BY <3>2 DEF GuardJob, Jobs
  <3>4. job' = [job EXCEPT ![h] = j] BY <2>5, <3>1
  <3>5. Moved(r)' BY <2>2, <2>3, <2>5, Settled DEF Ground
  <3>6. OnBooks(j.key)' BY <2>3, <3>2, <3>5 DEF Moved, OnBooks, RowOf
  <3>7. job[h].op = "guard" BY <2>2 DEF Doing
  <3> QED BY <1>2, <2>4, <2>5, <3>3, <3>4, <3>6, <3>7, Turned DEF Goal
 <2>6. CASE Finish(h) BY <1>2, <1>4, <2>2, <2>4, <2>6, Ends DEF Goal
 <2> QED BY <2>2, <2>5, <2>6
<1>6. ASSUME RenewGuard(h) \/ SeeNoGuard(h) \/ InsertGuard(h) PROVE Goal
 <2>1. PICK s \in {"renew", "insert"} : Doing(h, "guard", s) BY <1>6 DEF RenewGuard, SeeNoGuard, InsertGuard
 <2>2. PICK t \in {"insert", "notify"} : Goto(h, t) BY <1>6 DEF RenewGuard, SeeNoGuard, InsertGuard
 <2>3. Called(GuardIds) BY <1>6 DEF RenewGuard, SeeNoGuard, InsertGuard, Called
 <2>4. job[h].op = "guard" /\ [job[h] EXCEPT !.at = t] \in Jobs /\ Past(job[h]) BY <1>4, <2>1
 <2> QED BY <1>2, <2>2, <2>3, <2>4, Goes DEF Goal
<1>7. ASSUME InsertLoses(h) PROVE Goal
 <2>1. Doing(h, "guard", "insert") /\ Break(h) /\ Called(GuardIds) BY <1>7 DEF InsertLoses, Called
 <2> QED BY <1>2, <1>4, <2>1, Ends DEF Goal
<1>8. ASSUME NotifyGuard(h) PROVE Goal
 <2>1. Doing(h, "guard", "notify") /\ Notify(h) /\ Called(GuardIds) BY <1>8 DEF NotifyGuard, Called
 <2> QED BY <1>2, <1>4, <2>1, Ends DEF Goal
<1> QED BY <1>3, <1>5, <1>6, <1>7, <1>8 DEF GuardStep, Goal

\* The ground under shares and claims.
LEMMA EventGround ==
  ASSUME Ground, NEW h \in Handlers,
         EventStep(h) \/ \E a \in Accounts : StartShare(h, a) \/ StartClaim(h, a),
         UNCHANGED <<rechargeVars, referralVars>>
  PROVE  Ground' /\ Within(h, {"share", "claim"}, RewardKeys)
<1> DEFINE Goal == Ground' /\ Within(h, {"share", "claim"}, RewardKeys)
<1>1. UNCHANGED <<time, orders, codes>>
  BY DEF EventStep, ReadProgress, Upsert, MarkClaimed, CreditReward, NotifyClaim, StartShare, StartClaim,
     Accept, Goto, Finish, Notify, rechargeVars, referralVars
<1>2. /\ progress \in [Accounts -> ProgressRow] /\ shares \in [Accounts -> Nat]
      /\ progress' \in [Accounts -> ProgressRow] /\ shares' \in [Accounts -> Nat] => TablesTyped'
  BY <1>1 DEF Ground, Typed, TablesTyped
<1>3. ASSUME NEW a \in Accounts, StartShare(h, a) PROVE Goal
 <2>1. PICK j : j = [op |-> "share", at |-> "progress", key |-> RewardKey[a],
                     account |-> a, seen |-> 0]
   OBVIOUS
 <2>2. j \in Jobs /\ j.op = "share" /\ ~Past(j) /\ j.key = RewardKey[j.account]
   BY <2>1, CallsTyped DEF Jobs, ShareJob, Past
 <2>3. Accept(h, j) /\ issued \subseteq issued' /\ UNCHANGED ledgerVars BY <1>3, <2>1 DEF StartShare
 <2>4. TablesTyped' BY <1>2, <1>3 DEF StartShare
 <2> QED BY <2>2, <2>3, <2>4, Starts
<1>4. ASSUME NEW a \in Accounts, StartClaim(h, a) PROVE Goal
 <2>1. PICK j : j = [op |-> "claim", at |-> "mark", key |-> RewardKey[a], account |-> a] OBVIOUS
 <2>2. j \in Jobs /\ j.op = "claim" /\ ~Past(j) /\ j.key = RewardKey[j.account]
   BY <2>1, CallsTyped DEF Jobs, ClaimJob, Past
 <2>3. Accept(h, j) /\ issued \subseteq issued' /\ UNCHANGED <<ledgerVars, progress, shares>>
   BY <1>4, <2>1 DEF StartClaim, eventVars
 <2>4. TablesTyped' BY <1>2, <2>3
 <2> QED BY <2>2, <2>3, <2>4, Starts
<1> HIDE DEF Goal
<1>5. ASSUME NEW s \in {"progress", "upsert"}, Doing(h, "share", s)
      PROVE  job[h] \in ShareJob /\ job[h].op = "share" /\ job[h].key = RewardKey[job[h].account]
  BY <1>5, JobKinds DEF Doing, Ground, Typed, KeysOfRewards
<1>6. ASSUME NEW s \in {"mark", "credit", "notify"}, Doing(h, "claim", s)
      PROVE  /\ job[h] \in ClaimJob /\ job[h].op = "claim" /\ job[h].key = RewardKey[job[h].account]
             /\ \A t \in {"mark", "credit", "notify"} : [job[h] EXCEPT !.at = t] \in Jobs
             /\ ~Past([job[h] EXCEPT !.at = "credit"])
 <2>1. job[h] \in ClaimJob /\ job[h].key = RewardKey[job[h].account]
   BY <1>6, JobKinds DEF Doing, Ground, Typed, KeysOfRewards
 <2> QED BY <2>1 DEF ClaimJob, Jobs, Past
<1>7. ASSUME ReadProgress(h) PROVE Goal
 <2>1. /\ Doing(h, "share", "progress") /\ UNCHANGED <<ledgerVars, progress, shares>>
       /\ \/ /\ job' = [job EXCEPT ![h].at = "upsert", ![h].seen = progress[job[h].account].count]
             /\ UNCHANGED <<issued, dropped, time, notices>>
          \/ Finish(h)
   BY <1>7 DEF ReadProgress, eventVars
 <2>2. TablesTyped' /\ Called(RewardKeys) BY <1>2, <2>1 DEF Called
 <2>3. ASSUME job' = [job EXCEPT ![h].at = "upsert", ![h].seen = progress[job[h].account].count],
              UNCHANGED <<issued, dropped, time, notices>>
       PROVE  Goal
  <3>1. PICK j : j = [job[h] EXCEPT !.at = "upsert", !.seen = progress[job[h].account].count] OBVIOUS
  <3>2. progress[job[h].account].count \in Nat BY <1>2, <1>5, <2>1 DEF ShareJob, ProgressRow
  <3>3. j \in ShareJob /\ j.key = RewardKey[j.account] BY <1>5, <2>1, <3>1, <3>2 DEF ShareJob
  <3>4. j \in Jobs /\ j.op = "share" /\ ~Past(j) BY <3>3 DEF ShareJob, Jobs, Past
  <3>5. job' = [job EXCEPT ![h] = j] BY <2>3, <3>1
  <3> QED BY <1>5, <2>1, <2>2, <2>3, <3>3, <3>4, <3>5, Turned DEF Goal
 <2>4. CASE Finish(h) BY <1>5, <2>1, <2>2, <2>4, Ends DEF Goal
 <2> QED BY <2>1, <2>3, <2>4
<1>8. ASSUME Upsert(h) PROVE Goal
 <2>1. Doing(h, "share", "upsert") /\ Finish(h) /\ UNCHANGED <<ledgerVars, shares>> BY <1>8 DEF Upsert
 <2>2. progress' \in [Accounts -> ProgressRow]
  <3> DEFINE new == IF job[h].seen + 1 < TargetCount THEN job[h].seen + 1 ELSE TargetCount
             full == new >= TargetCount
  <3>1. new \in 0 .. TargetCount /\ full \in BOOLEAN BY <1>5, <2>1, TargetPositive DEF ShareJob
  <3>2. progress' = [progress EXCEPT ![job[h].account].count = new,
                                     ![job[h].account].completed = full]
    BY <1>8 DEF Upsert
  <3> HIDE DEF new, full
  <3> QED BY <1>2, <3>1, <3>2 DEF ProgressRow
 <2>3. TablesTyped' /\ Called(RewardKeys) BY <1>2, <2>1, <2>2 DEF Called
 <2> QED BY <1>5, <2>1, <2>3, Ends DEF Goal
<1>9. ASSUME MarkClaimed(h) PROVE Goal
 <2>1. /\ Doing(h, "claim", "mark") /\ UNCHANGED <<ledgerVars, shares>>
       /\ Goto(h, "credit") \/ Finish(h)
       /\ progress' = [progress EXCEPT ![job[h].account].claimed = TRUE]
   BY <1>9 DEF MarkClaimed
 <2>2. progress' \in [Accounts -> ProgressRow] BY <1>2, <2>1 DEF ProgressRow
 <2>3. TablesTyped' /\ Called(RewardKeys) BY <1>2, <2>1, <2>2 DEF Called
 <2>4. CASE Goto(h, "credit") BY <1>6, <2>1, <2>3, <2>4, Goes DEF Goal
 <2>5. CASE Finish(h) BY <1>6, <2>1, <2>3, <2>5, Ends DEF Goal
 <2> QED BY <2>1, <2>4, <2>5
<1>10. ASSUME CreditReward(h) PROVE Goal
 <2>1. PICK r, k : k = job[h].key /\ r = RewardCredit(job[h].account) OBVIOUS
 <2>2. /\ Doing(h, "claim", "credit") /\ Settle(r) /\ Goto(h, "notify")
       /\ UNCHANGED <<progress, shares>>
   BY <1>10, <2>1 DEF CreditReward, eventVars
 <2>3. CoinMove(r) /\ r.key = k /\ k \in RewardKeys /\ r.direction = "credit"
   BY <1>6, <2>1, <2>2, CallsTyped DEF ClaimJob, RewardCredit
 <2>4. Called(RewardKeys) /\ TablesTyped' BY <1>2, <2>2, <2>3 DEF Called
 <2>5. Booked(r.account, r.key)' BY <2>2, <2>3, Settled DEF Ground
 <2>6. OnBooks(k)' BY <2>3, <2>5 DEF Booked, OnBooks
 <2> QED BY <1>6, <2>1, <2>2, <2>4, <2>6, Goes DEF Goal
<1>11. ASSUME NotifyClaim(h) PROVE Goal
 <2>1. /\ Doing(h, "claim", "notify") /\ Notify(h) /\ UNCHANGED <<ledgerVars, progress, shares>>
       /\ Past(job[h])
   BY <1>11 DEF NotifyClaim, eventVars, Past, Doing
 <2>2. TablesTyped' /\ Called(RewardKeys) BY <1>2, <2>1 DEF Called
 <2> QED BY <1>6, <2>1, <2>2, Ends DEF Goal
<1> QED BY <1>3, <1>4, <1>7, <1>8, <1>9, <1>10, <1>11 DEF EventStep, Goal

\* The ground under codes and their redemptions.
LEMMA ReferralGround ==
  ASSUME Ground, NEW h \in Handlers,
         \/ ReferralStep(h)
         \/ \E a \in Accounts : StartCode(h, a)
         \/ \E a \in Accounts, c \in codes : StartRedeem(h, a, c),
         UNCHANGED <<rechargeVars, eventVars>>
  PROVE  Ground' /\ Within(h, {"code", "redeem"}, RedemptionIds)
<1> DEFINE Goal == Ground' /\ Within(h, {"code", "redeem"}, RedemptionIds)
<1>1. UNCHANGED <<time, orders, progress, shares>>
  BY DEF ReferralStep, AddCode, AddRedemption, CreditReferrer, CompleteRedemption, StartCode, StartRedeem,
     Accept, Goto, Finish, rechargeVars, eventVars
<1>2. /\ \A c \in codes : c.owner \in Accounts
      /\ (\A c \in codes' : c.owner \in Accounts) => TablesTyped'
  BY <1>1 DEF Ground, Typed, TablesTyped
<1>3. ASSUME NEW a \in Accounts, StartCode(h, a) PROVE Goal
 <2>1. PICK k \in CodeIds :
         /\ Accept(h, [op |-> "code", at |-> "add", key |-> k, owner |-> a])
         /\ issued' = issued \cup {k} /\ UNCHANGED <<ledgerVars, codes>>
   BY <1>3 DEF StartCode, referralVars
 <2>2. PICK j : j = [op |-> "code", at |-> "add", key |-> k, owner |-> a] OBVIOUS
 <2>3. j \in Jobs /\ j.op = "code" /\ ~Past(j) BY <2>2 DEF Jobs, CodeJob, Past
 <2> QED BY <1>2, <2>1, <2>2, <2>3, Starts
<1>4. ASSUME NEW a \in Accounts, NEW c \in codes, StartRedeem(h, a, c) PROVE Goal
 <2>1. PICK k \in RedemptionIds :
         /\ Accept(h, [op |-> "redeem", at |-> "add", key |-> k,
                       referee |-> a, referrer |-> c.owner])
         /\ issued' = issued \cup {k} /\ UNCHANGED <<ledgerVars, codes>>
   BY <1>4 DEF StartRedeem, referralVars
 <2>2. PICK j : j = [op |-> "redeem", at |-> "add", key |-> k, referee |-> a, referrer |-> c.owner] OBVIOUS
 <2>3. j \in Jobs /\ j.op = "redeem" /\ ~Past(j) BY <1>2, <2>2 DEF Jobs, RedeemJob, Past
 <2> QED BY <1>2, <2>1, <2>2, <2>3, Starts
<1> HIDE DEF Goal
<1>5. ASSUME Doing(h, "code", "add") PROVE job[h] \in CodeJob /\ job[h].op = "code"
  BY <1>5, JobKinds DEF Doing, Ground
<1>6. ASSUME NEW s \in {"add", "credit", "complete"}, Doing(h, "redeem", s)
      PROVE  /\ job[h] \in RedeemJob /\ job[h].op = "redeem"
             /\ \A t \in {"credit", "complete"} :
                  [job[h] EXCEPT !.at = t] \in Jobs /\ ~Past([job[h] EXCEPT !.at = t])
 <2>1. job[h] \in RedeemJob BY <1>6, JobKinds DEF Doing, Ground
 <2> QED BY <2>1 DEF RedeemJob, Jobs, Past
<1>7. ASSUME AddCode(h) PROVE Goal
 <2>1. /\ Doing(h, "code", "add") /\ Finish(h) /\ UNCHANGED ledgerVars
       /\ codes' = codes \cup {[id |-> job[h].key, owner |-> job[h].owner]}
   BY <1>7 DEF AddCode
 <2>2. TablesTyped' /\ Called(RedemptionIds) BY <1>2, <1>5, <2>1 DEF CodeJob, Called
 <2> QED BY <1>5, <2>1, <2>2, Ends DEF Goal
<1>8. ASSUME AddRedemption(h) PROVE Goal
 <2>1. Doing(h, "redeem", "add") /\ Goto(h, "credit") /\ UNCHANGED <<ledgerVars, codes>>
   BY <1>8 DEF AddRedemption
 <2>2. TablesTyped' /\ Called(RedemptionIds) BY <1>2, <2>1 DEF Called
 <2> QED BY <1>6, <2>1, <2>2, Goes DEF Goal
<1>9. ASSUME CreditReferrer(h) PROVE Goal
 <2>1. PICK d, r : d = Redemption(h, "pending") /\ r = RedemptionCredit(d) OBVIOUS
 <2>2. /\ Doing(h, "redeem", "credit") /\ Settle(r) /\ Goto(h, "complete")
       /\ UNCHANGED codes
   BY <1>9, <2>1 DEF CreditReferrer, referralVars
 <2>3. d.referrer \in Accounts /\ d.id \in RedemptionIds BY <1>6, <2>1, <2>2 DEF RedeemJob, Redemption
 <2>4. CoinMove(r) /\ r.key \in RedemptionIds BY <2>1, <2>3, CallsTyped DEF RedemptionCredit
 <2>5. TablesTyped' /\ Called(RedemptionIds) BY <1>2, <2>2, <2>4 DEF Called
 <2> QED BY <1>6, <2>2, <2>5, Goes DEF Goal
<1>10. ASSUME CompleteRedemption(h) PROVE Goal
 <2>1. Doing(h, "redeem", "complete") /\ Finish(h) /\ UNCHANGED <<ledgerVars, codes>>
   BY <1>10 DEF CompleteRedemption
 <2>2. TablesTyped' /\ Called(RedemptionIds) BY <1>2, <2>1 DEF Called
 <2> QED BY <1>6, <2>1, <2>2, Ends DEF Goal
<1> QED BY <1>3, <1>4, <1>7, <1>8, <1>9, <1>10 DEF ReferralStep, Goal
-----------------------------
\* A row of an order has its id.
OrdersIssued == \A o \in Orders : orders[o] # NoOrder => o \in issued

\* Rows under the key of an order are the order's credit.
OrderRows ==
  \A row \in CoinRows : row.key \in Orders =>
     orders[row.key] \in OrderRow /\ row = RowOf(RechargeCredit(row.key), row.balanceAfter)

\* Completed orders are paid, and paid ones completed, about to be, or cut off.
OrderMoney ==
  \A o \in Orders :
     /\ orders[o].status = "completed" => OnBooks(o)
     /\ OnBooks(o) => \/ orders[o].status = "completed"
                      \/ InFlight("recharge", o, {"markCompleted"})
                      \/ o \in dropped

\* The books of recharges.
OrderBooks == KnownOrders /\ OrdersIssued /\ OrderRows /\ OrderMoney

\* With the rows of orders known, a key on the books is a credit of its order.
LEMMA OrdersSettle ==
  ASSUME OrderBooks
  PROVE  OrderSettled
<1>1. ASSUME NEW o \in Orders PROVE Moved(RechargeCredit(o)) <=> OnBooks(o)
  BY DEF OrderBooks, OrderRows, Moved, OnBooks, RowOf, RechargeCredit
<1> QED BY <1>1 DEF OrderBooks, OrderMoney, OrderSettled

\* Recharges start with no order.
LEMMA OrdersInit ==
  ASSUME PaymentsInit, Ground
  PROVE  OrderBooks
<1>1. /\ job = [h \in Handlers |-> Idle] /\ orders = [o \in Orders |-> NoOrder]
      /\ SeededLedger
  BY DEF PaymentsInit, HandlersInit, RechargeInit
<1>2. \A row \in CoinRows : row.key = SeedKey
 <2>1. ASSUME NEW a \in Accounts, NEW i \in DOMAIN SeedRows(a) PROVE SeedRows(a)[i].key = SeedKey
   BY DEF SeedRows
 <2> QED BY <1>1, <2>1, InCoins, CoinsAreCurrency DEF SeededLedger
<1>3. SeedKey \notin Orders BY SeedKeyFree, OrdersAreKeys
<1>4. NoOrder.status # "completed" /\ Idle.op # "recharge" BY DEF NoOrder, Idle
<1> QED BY <1>1, <1>2, <1>3, <1>4
        DEF OrderBooks, KnownOrders, OrdersIssued, OrderRows, OrderMoney, OnBooks

\* Nobody else's step disturbs the orders.
LEMMA OrdersKept ==
  ASSUME Ground, OrderBooks, Apart({"recharge"}, Orders), orders' = orders
  PROVE  OrderBooks'
<1>1. \A o \in Orders : OnBooks(o)' <=> OnBooks(o) BY DEF OnBooks, Apart
<1>2. \A h \in Handlers : job'[h].op = "recharge" => job'[h] = job[h] BY DEF Apart
<1>3. KnownOrders' BY <1>2 DEF OrderBooks, KnownOrders
<1>4. OrdersIssued' BY DEF OrderBooks, OrdersIssued, Apart
<1>5. OrderRows'
 <2>1. \A o : RechargeCredit(o)' = RechargeCredit(o) BY DEF RechargeCredit
 <2> QED BY <2>1 DEF OrderBooks, OrderRows, Apart, RowOf, RechargeCredit
<1>6. OrderMoney'
 <2>1. ASSUME NEW o \in Orders, InFlight("recharge", o, {"markCompleted"})
       PROVE  InFlight("recharge", o, {"markCompleted"})' \/ o \in dropped'
   BY <2>1 DEF InFlight, Apart
 <2>2. dropped \subseteq dropped' BY DEF Apart
 <2> QED BY <1>1, <2>1, <2>2 DEF OrderBooks, OrderMoney
<1> QED BY <1>3, <1>4, <1>5, <1>6 DEF OrderBooks

\* A new order has a new id, so it takes no coins over.
LEMMA OrdersCreated ==
  ASSUME Ground, OrderBooks, NEW a \in Accounts, CreateOrder(a)
  PROVE  OrderBooks'
<1>1. PICK o \in Orders \ issued :
        /\ orders' = [orders EXCEPT ![o] = [account |-> a, status |-> "pending"]]
        /\ issued' = issued \cup {o}
        /\ UNCHANGED <<job, dropped, ledgerVars>>
  BY DEF CreateOrder
<1>2. orders \in [Orders -> {NoOrder} \cup OrderRow] /\ orders[o] = NoOrder
  BY <1>1 DEF Ground, Typed, TablesTyped, OrderBooks, OrdersIssued
<1>3. NoOrder \notin OrderRow /\ NoOrder.status = "none" BY DEF NoOrder, OrderRow
<1>4. CoinRows' = CoinRows /\ job' = job /\ dropped' = dropped BY <1>1 DEF ledgerVars, CoinRows
<1>5. /\ \A q \in Orders : q # o => orders'[q] = orders[q]
      /\ orders'[o] = [account |-> a, status |-> "pending"]
  BY <1>1, <1>2
<1>6. ~OnBooks(o) /\ \A h \in Handlers : job[h].op = "recharge" => job[h].key # o
  BY <1>2, <1>3 DEF OrderBooks, OrderRows, OnBooks, KnownOrders
<1>7. KnownOrders'
 <2>1. \A h \in Handlers : job[h].op = "recharge" => job[h].key \in Orders
   BY JobKinds DEF Ground, RechargeJob
 <2> QED BY <1>4, <1>5, <1>6, <2>1 DEF OrderBooks, KnownOrders
<1>8. OrdersIssued' BY <1>1, <1>5 DEF OrderBooks, OrdersIssued
<1>9. OrderRows'
 <2>1. ASSUME NEW row \in CoinRows, row.key \in Orders
       PROVE  /\ orders'[row.key] \in OrderRow
              /\ row = RowOf(RechargeCredit(row.key)', row.balanceAfter)
  <3>1. row.key # o /\ orders'[row.key] = orders[row.key] BY <1>5, <1>6, <2>1 DEF OnBooks
  <3> QED BY <2>1, <3>1 DEF OrderBooks, OrderRows, RechargeCredit
 <2> QED BY <1>4, <2>1 DEF OrderRows, RowOf, RechargeCredit
<1>10. OrderMoney' BY <1>4, <1>5, <1>6 DEF OrderBooks, OrderMoney, OnBooks, InFlight
<1> QED BY <1>7, <1>8, <1>9, <1>10 DEF OrderBooks

\* What a step of a recharge does to the orders: accounts stay, a completed
\* order stays completed, and only the order that is marked becomes so
\* (recharge.service.js:53-82).
LEMMA OrderChanges ==
  ASSUME Ground, OrderBooks, NEW h \in Handlers, StartComplete(h) \/ RechargeStep(h)
  PROVE  /\ dropped' = dropped /\ issued' = issued
         /\ \A o \in Orders : /\ orders'[o].account = orders[o].account
                              /\ orders[o] \in OrderRow => orders'[o] \in OrderRow
                              /\ orders[o] = NoOrder => orders'[o] = NoOrder
                              /\ orders[o].status = "completed" => orders'[o].status = "completed"
                              /\ orders'[o].status = "completed" =>
                                   \/ orders[o].status = "completed"
                                   \/ MarkCompleted(h) /\ o = job[h].key
<1>1. /\ orders \in [Orders -> {NoOrder} \cup OrderRow] /\ NoOrder \notin OrderRow
      /\ dropped' = dropped /\ issued' = issued
 <2>1. dropped' = dropped /\ issued' = issued
   BY DEF StartComplete, RechargeStep, VerifyOk, VerifyFails, MarkFailed, CreditOrder, MarkCompleted,
      AddLifetime, NotifyPayment, Accept, Goto, Finish, Notify
 <2>2. NoOrder \notin OrderRow BY DEF NoOrder, OrderRow
 <2> QED BY <2>1, <2>2 DEF Ground, Typed, TablesTyped
<1>2. ASSUME MarkFailed(h) \/ MarkCompleted(h)
      PROVE  job[h].key \in Orders /\ orders[job[h].key] \in OrderRow
  BY <1>2, JobKinds DEF Ground, OrderBooks, KnownOrders, RechargeJob, MarkFailed, MarkCompleted, Doing
<1> DEFINE Kept(o) == /\ orders'[o].account = orders[o].account
                      /\ orders[o] \in OrderRow => orders'[o] \in OrderRow
                      /\ orders[o] = NoOrder => orders'[o] = NoOrder
                      /\ orders[o].status = "completed" => orders'[o].status = "completed"
                      /\ orders'[o].status = "completed" =>
                            orders[o].status = "completed" \/ (MarkCompleted(h) /\ o = job[h].key)
<1>3. ASSUME NEW o \in Orders, MarkFailed(h) \/ MarkCompleted(h) PROVE Kept(o)
 <2>1. o # job[h].key => orders'[o] = orders[o] BY <1>1, <1>3 DEF MarkFailed, MarkCompleted
 <2>2. CASE MarkFailed(h)
  <3>1. o = job[h].key =>
          orders'[o] = [orders[o] EXCEPT !.status = IF @ = "completed" THEN @ ELSE "failed"]
    BY <1>1, <2>2 DEF MarkFailed
  <3> QED BY <1>1, <1>2, <2>1, <2>2, <3>1 DEF OrderRow
 <2>3. CASE MarkCompleted(h)
  <3>1. o = job[h].key => orders'[o] = [orders[o] EXCEPT !.status = "completed"]
    BY <1>1, <2>3 DEF MarkCompleted
  <3> QED BY <1>1, <1>2, <2>1, <2>3, <3>1 DEF OrderRow
 <2> QED BY <1>3, <2>2, <2>3
<1>4. orders' = orders => \A o \in Orders : Kept(o) OBVIOUS
<1>5. orders' = orders \/ MarkFailed(h) \/ MarkCompleted(h)
  BY DEF StartComplete, RechargeStep, VerifyOk, VerifyFails, CreditOrder, AddLifetime, NotifyPayment,
     rechargeVars
<1> QED BY <1>1, <1>3, <1>4, <1>5

\* What a step of an order's request does: the credit is entered under the
\* order, and only the status of the order changes.
LEMMA OrdersStep ==
  ASSUME Ground, Ground', OrderBooks, NEW h \in Handlers, StartComplete(h) \/ RechargeStep(h),
         Within(h, {"recharge"}, Orders)
  PROVE  OrderBooks'
<1> DEFINE k == job[h].key
<1>1. /\ job \in [Handlers -> Jobs] /\ orders \in [Orders -> {NoOrder} \cup OrderRow]
      /\ NoOrder \notin OrderRow /\ NoOrder.status = "none"
      /\ \A g \in Handlers \ {h} : job'[g] = job[g]
      /\ dropped' = dropped /\ issued' = issued
 <2>1. NoOrder \notin OrderRow /\ NoOrder.status = "none" BY DEF NoOrder, OrderRow
 <2>2. dropped' = dropped /\ issued' = issued
   BY DEF StartComplete, RechargeStep, VerifyOk, VerifyFails, MarkFailed, CreditOrder, MarkCompleted,
      AddLifetime, NotifyPayment, Accept, Goto, Finish, Notify
 <2> QED BY <2>1, <2>2 DEF Ground, Typed, TablesTyped, Within
<1>2. ASSUME RechargeStep(h)
      PROVE  job[h] \in RechargeJob /\ k \in Orders /\ orders[k] \in OrderRow
 <2>1. job[h].op = "recharge"
   BY <1>2 DEF RechargeStep, VerifyOk, VerifyFails, MarkFailed, CreditOrder, MarkCompleted, AddLifetime,
      NotifyPayment, Doing
 <2> QED BY <2>1, JobKinds DEF Ground, OrderBooks, KnownOrders, RechargeJob
<1>3. /\ \A o \in Orders : /\ orders'[o].account = orders[o].account
                           /\ orders[o] \in OrderRow => orders'[o] \in OrderRow
                           /\ orders[o] = NoOrder => orders'[o] = NoOrder
                           /\ orders[o].status = "completed" => orders'[o].status = "completed"
                           /\ orders'[o].status = "completed" =>
                                orders[o].status = "completed" \/ (MarkCompleted(h) /\ o = k)
  BY OrderChanges
<1>4. \A o \in Orders : RechargeCredit(o)' = RechargeCredit(o) BY <1>3 DEF RechargeCredit
<1>5. /\ CoinRows \subseteq CoinRows'
      /\ \A row \in CoinRows' \ CoinRows :
            CreditOrder(h) /\ row.key = k /\ row = RowOf(RechargeCredit(k), row.balanceAfter)
 <2>1. CASE CreditOrder(h)
  <3>1. PICK r : r = RechargeCredit(k) OBVIOUS
  <3>2. Settle(r) /\ CoinMove(r) /\ r.key = k
   <4>1. k \in Orders /\ orders[k] \in OrderRow BY <1>2, <2>1 DEF RechargeStep
   <4> QED BY <2>1, <3>1, <4>1, CallsTyped DEF CreditOrder, RechargeCredit
  <3>3. Entered(r) BY <3>2, Settled DEF Ground
  <3> QED BY <2>1, <3>1, <3>2, <3>3 DEF Entered, RowOf
 <2>2. CASE UNCHANGED ledgerVars BY <2>2 DEF ledgerVars, CoinRows
 <2> QED BY <2>1, <2>2 DEF StartComplete, RechargeStep, VerifyOk, VerifyFails, MarkFailed,
            MarkCompleted, AddLifetime, NotifyPayment
<1>6. KnownOrders'
 <2>1. ASSUME NEW g \in Handlers, job'[g].op = "recharge"
       PROVE  job'[g].key \in Orders /\ orders[job'[g].key] \in OrderRow
  <3>1. CASE g # h BY <1>1, <2>1, <3>1, JobKinds DEF OrderBooks, KnownOrders, Ground, RechargeJob
  <3>2. CASE g = h /\ StartComplete(h)
   <4>1. PICK o \in Orders :
           /\ orders[o].status \in {"pending", "failed"}
           /\ job' = [job EXCEPT ![h] = [op |-> "recharge", at |-> "verify", key |-> o]]
     BY <3>2 DEF StartComplete, Accept
   <4>2. job'[h].key = o BY <1>1, <4>1
   <4> QED BY <1>1, <3>2, <4>1, <4>2
  <3>3. CASE g = h /\ RechargeStep(h)
   <4>1. job' = [job EXCEPT ![h] = Idle] \/ \E s : job' = [job EXCEPT ![h].at = s]
     BY <3>3 DEF RechargeStep, VerifyOk, VerifyFails, MarkFailed, CreditOrder, MarkCompleted, AddLifetime,
        NotifyPayment, Goto, Finish, Notify
   <4>2. job'[h] # Idle BY <2>1, <3>3 DEF Idle
   <4>3. job'[h].key = k BY <1>1, <1>2, <3>3, <4>1, <4>2 DEF RechargeJob
   <4> QED BY <1>2, <3>3, <4>3
  <3> QED BY <3>1, <3>2, <3>3
 <2> QED BY <1>3, <2>1 DEF KnownOrders
<1>7. OrdersIssued' BY <1>1, <1>3 DEF OrderBooks, OrdersIssued
<1>8. OrderRows'
 <2>1. ASSUME NEW row \in CoinRows', row.key \in Orders
       PROVE  /\ orders'[row.key] \in OrderRow
              /\ row = RowOf(RechargeCredit(row.key)', row.balanceAfter)
  <3>1. CASE row \in CoinRows BY <1>3, <1>4, <2>1, <3>1 DEF OrderBooks, OrderRows
  <3>2. CASE row \notin CoinRows
   <4>1. CreditOrder(h) /\ row.key = k /\ row = RowOf(RechargeCredit(k), row.balanceAfter) BY <1>5, <3>2
   <4>2. orders'[k] \in OrderRow BY <1>2, <1>3, <4>1 DEF RechargeStep
   <4>3. row = RowOf(RechargeCredit(row.key), row.balanceAfter) BY <4>1
   <4> QED BY <1>4, <2>1, <4>1, <4>2, <4>3
  <3> QED BY <3>1, <3>2
 <2> QED BY <2>1 DEF OrderRows, RowOf, RechargeCredit
<1>9. OrderMoney'
 <2>1. ASSUME NEW o \in Orders, orders'[o].status = "completed"
       PROVE  OnBooks(o)'
  <3>1. OnBooks(o)
   <4>1. CASE orders[o].status = "completed" BY <4>1 DEF OrderBooks, OrderMoney
   <4>2. CASE MarkCompleted(h) /\ o = k BY <4>2 DEF MarkCompleted, Doing, Ground, Announced, Past
   <4> QED BY <1>3, <2>1, <4>1, <4>2
  <3> QED BY <1>5, <3>1 DEF OnBooks
 <2>2. ASSUME NEW o \in Orders, OnBooks(o)'
       PROVE  \/ orders'[o].status = "completed"
              \/ InFlight("recharge", o, {"markCompleted"})'
              \/ o \in dropped
  <3>1. CASE OnBooks(o)
   <4>1. CASE orders[o].status = "completed" \/ o \in dropped BY <1>3, <4>1
   <4>2. CASE InFlight("recharge", o, {"markCompleted"})
    <5>1. PICK g \in Handlers : /\ job[g].op = "recharge" /\ job[g].key = o
                                /\ job[g].at = "markCompleted"
      BY <4>2 DEF InFlight
    <5>2. CASE g # h BY <1>1, <5>1, <5>2 DEF InFlight
    <5>3. CASE g = h
     <6>1. MarkCompleted(h)
       BY <5>1, <5>3 DEF StartComplete, RechargeStep, VerifyOk, VerifyFails, MarkFailed, CreditOrder,
          AddLifetime, NotifyPayment, Doing, Accept, Ready, Idle
     <6>2. orders'[o].status = "completed"
      <7>1. orders[o] \in OrderRow /\ orders' = [orders EXCEPT ![o].status = "completed"]
        BY <1>2, <5>1, <5>3, <6>1 DEF MarkCompleted, RechargeStep
      <7> QED BY <1>1, <7>1 DEF OrderRow
     <6> QED BY <6>2
    <5> QED BY <5>2, <5>3
   <4> QED BY <3>1, <4>1, <4>2 DEF OrderBooks, OrderMoney
  <3>2. CASE ~OnBooks(o)
   <4>1. CreditOrder(h) /\ o = k BY <1>5, <2>2, <3>2 DEF OnBooks
   <4>2. job' = [job EXCEPT ![h].at = "markCompleted"] /\ job[h] \in RechargeJob
     BY <1>2, <4>1 DEF CreditOrder, Goto, RechargeStep
   <4>3. job'[h].op = "recharge" /\ job'[h].key = o /\ job'[h].at = "markCompleted"
     BY <1>1, <4>1, <4>2 DEF RechargeJob
   <4> QED BY <4>3 DEF InFlight
  <3> QED BY <3>1, <3>2
 <2> QED BY <1>1, <2>1, <2>2 DEF OrderMoney
<1> QED BY <1>6, <1>7, <1>8, <1>9 DEF OrderBooks
-----------------------------
\* Requests of the store and of staff.
StoreJob(j) == j.op \in {"store", "handout"}

\* Ids of the store are drawn before they are used, by one request each.
StoreIds ==
  /\ \A h \in Handlers : StoreJob(job[h]) => job[h].key \in issued
  /\ \A g, h \in Handlers :
        StoreJob(job[g]) /\ StoreJob(job[h]) /\ job[g].key = job[h].key => g = h
  /\ \A row \in CoinRows : row.key \in StoreKeys => row.key \in issued
  /\ \A item \in inventory : item.ref \in issued

\* Nothing was done yet under key k.
Untouched(k) == ~OnBooks(k) /\ \A item \in inventory : item.ref # k

\* A request that has not moved anything finds its key untouched.
StoreFresh ==
  \A h \in Handlers :
     Doing(h, "store", "debit") \/ Doing(h, "handout", "give") => Untouched(job[h].key)

\* The coins of account a, and nobody else's, were taken for purchase k.
PaidBy(a, k) == Moved(StoreDebit(a, k)) /\ \A row \in CoinRows : row.key = k => row.account = a

\* What was paid for, and what was granted, belong together.
StoreGoods ==
  /\ \A h \in Handlers : Doing(h, "store", "grant") => PaidBy(job[h].account, job[h].key)
  /\ \A item \in inventory : item.source = "store_purchase" => Moved(StoreDebit(item.account, item.ref))
  /\ DebitsDelivered

\* What staff may have handed out, as the audit log would name it.
HandoutSet == [by : Accounts, what : Directions \cup {"item"}, account : Accounts, ref : HandoutIds]

\* Handout d reached its account.
Given(d) ==
  IF d.what = "item" THEN Item(d.account, d.ref, "admin") \in inventory ELSE Moved(HandoutMove(d))

\* The audit log and what staff gave.
StoreNotes ==
  /\ \A h \in Handlers : Doing(h, "handout", "note") => Given(Handout(job[h]))
  /\ \A e \in noted : e \in HandoutSet /\ Given(e)
  /\ \A d \in HandoutSet : Given(d) =>
        \/ d.ref \in unnoted \/ d.ref \in dropped \/ \E e \in noted : e.ref = d.ref
        \/ InFlight("handout", d.ref, {"note"})

\* The books of the store.
StoreBooks == StoreIds /\ StoreFresh /\ StoreGoods /\ StoreNotes

\* What was noted was given, and what was given was noted or excused.
LEMMA NotesAgree ==
  ASSUME StoreBooks
  PROVE  HandoutsNoted
<1> DEFINE given == {d \in [by : Accounts, what : Directions \cup {"item"},
                           account : Accounts, ref : HandoutIds] :
                       IF d.what = "item" THEN Item(d.account, d.ref, "admin") \in inventory
                       ELSE Moved(HandoutMove(d))}
           excused == unnoted \cup dropped \cup {k \in HandoutIds : InFlight("handout", k, {"note"})}
<1>1. \A d : d \in given <=> d \in HandoutSet /\ Given(d) BY DEF HandoutSet, Given
<1>2. noted \subseteq given BY <1>1 DEF StoreBooks, StoreNotes
<1>3. ASSUME NEW d \in given PROVE d.ref \in excused \cup {e.ref : e \in noted}
 <2>1. d \in HandoutSet /\ Given(d) /\ d.ref \in HandoutIds BY <1>1 DEF HandoutSet
 <2> QED BY <2>1 DEF StoreBooks, StoreNotes
<1> QED BY <1>2, <1>3 DEF HandoutsNoted

\* The store starts with nothing sold.
LEMMA StoreBooksInit ==
  ASSUME PaymentsInit
  PROVE  StoreBooks
<1>1. /\ job = [h \in Handlers |-> Idle] /\ inventory = {} /\ noted = {}
      /\ SeededLedger
  BY DEF PaymentsInit, HandlersInit, StoreInit
<1>2. \A row \in CoinRows : row.key = SeedKey
 <2>1. ASSUME NEW a \in Accounts, NEW i \in DOMAIN SeedRows(a) PROVE SeedRows(a)[i].key = SeedKey
   BY DEF SeedRows
 <2> QED BY <1>1, <2>1, InCoins, CoinsAreCurrency DEF SeededLedger
<1>3. SeedKey \notin StoreKeys BY SeedKeyFree, PurchasesAreKeys DEF StoreKeys
<1>4. \A h \in Handlers : ~StoreJob(job[h]) /\ \A s : ~Doing(h, "store", s) /\ ~Doing(h, "handout", s)
  BY <1>1 DEF Idle, StoreJob, Doing
<1>5. StoreIds /\ StoreFresh BY <1>1, <1>2, <1>3, <1>4 DEF StoreIds, StoreFresh
<1>6. DebitsDelivered BY <1>2, <1>3 DEF DebitsDelivered, Payers, StoreKeys
<1>7. StoreGoods BY <1>1, <1>4, <1>6 DEF StoreGoods
<1>8. StoreNotes
 <2>1. ASSUME NEW d \in HandoutSet PROVE ~Given(d)
   BY <1>1, <1>2, <1>3 DEF Given, Moved, HandoutMove, RowOf, HandoutSet, StoreKeys
 <2> QED BY <1>1, <1>4, <2>1 DEF StoreNotes
<1> QED BY <1>5, <1>7, <1>8 DEF StoreBooks

\* Nobody else's step disturbs the store.
LEMMA StoreKept ==
  ASSUME Ground, StoreBooks, Apart({"store", "handout"}, StoreKeys), UNCHANGED storeVars
  PROVE  StoreBooks'
<1>1. /\ CoinRows \subseteq CoinRows' /\ \A row \in CoinRows' : row.key \in StoreKeys => row \in CoinRows
      /\ inventory' = inventory /\ noted' = noted /\ unnoted' = unnoted
      /\ issued \subseteq issued' /\ dropped \subseteq dropped'
      /\ \A h \in Handlers : StoreJob(job'[h]) => job'[h] = job[h]
  BY DEF Apart, storeVars, StoreJob
<1>2. \A h \in Handlers : StoreJob(job[h]) => job[h].key \in StoreKeys
  BY JobKinds DEF Ground, StoreJob, PurchaseJob, HandoutJob, StoreKeys
<1>3. StoreIds' BY <1>1 DEF StoreBooks, StoreIds, StoreJob
<1>4. StoreFresh' BY <1>1, <1>2 DEF StoreBooks, StoreFresh, StoreJob, Doing, Untouched, OnBooks
<1>5. \A r : Moved(r) => Moved(r)' BY <1>1 DEF Moved
<1>6. StoreGoods'
 <2>1. ASSUME NEW h \in Handlers, Doing(h, "store", "grant")'
       PROVE  PaidBy(job[h].account, job[h].key)'
  <3>1. Doing(h, "store", "grant") /\ job'[h] = job[h] /\ job[h].key \in StoreKeys
    BY <1>1, <1>2, <2>1 DEF Doing, StoreJob
  <3> QED BY <1>1, <3>1 DEF StoreBooks, StoreGoods, PaidBy, Moved, StoreDebit, RowOf
 <2>2. \A item \in inventory' : item.source = "store_purchase" => Moved(StoreDebit(item.account, item.ref))'
   BY <1>1 DEF StoreBooks, StoreGoods, Moved, StoreDebit, RowOf
 <2>3. DebitsDelivered'
  <3>1. ASSUME NEW k \in PurchaseIds, InFlight("store", k, {"grant"})
        PROVE  InFlight("store", k, {"grant"})' \/ k \in dropped'
    BY <3>1 DEF InFlight, Apart
  <3>2. \A k \in PurchaseIds : Payers(k)' = Payers(k) BY <1>1 DEF Payers, StoreKeys
  <3>3. \A a, k : Item(a, k, "store_purchase")' = Item(a, k, "store_purchase") BY DEF Item
  <3> QED BY <1>1, <3>1, <3>2, <3>3 DEF StoreBooks, StoreGoods, DebitsDelivered
 <2> QED BY <2>1, <2>2, <2>3 DEF StoreGoods
<1>7. StoreNotes'
 <2>1. ASSUME NEW d \in HandoutSet PROVE Given(d)' <=> Given(d)
   BY <1>1 DEF Given, Item, Moved, HandoutMove, RowOf, HandoutSet, StoreKeys
 <2>2. ASSUME NEW h \in Handlers, Doing(h, "handout", "note")'
       PROVE  Given(Handout(job[h]))'
  <3>1. Doing(h, "handout", "note") /\ job'[h] = job[h] BY <1>1, <2>2 DEF Doing, StoreJob
  <3> QED BY <1>1, <3>1 DEF StoreBooks, StoreNotes, Given, Handout, Item, Moved, HandoutMove, RowOf
 <2>3. ASSUME NEW k, InFlight("handout", k, {"note"})
       PROVE  InFlight("handout", k, {"note"})' \/ k \in dropped'
   BY <2>3 DEF InFlight, Apart
 <2> QED BY <1>1, <2>1, <2>2, <2>3 DEF StoreBooks, StoreNotes
<1> QED BY <1>3, <1>4, <1>6, <1>7 DEF StoreBooks

\* Handler h takes up a request for the store, or of staff.
StoreStarts(h) ==
  \/ \E a \in Accounts : StartPurchase(h, a)
  \/ \E by, a \in Accounts, what \in Directions \cup {"item"} : StartHandout(h, by, what, a)

\* What a step of the store or of staff does, seen from its request: it
\* draws a new id, or touches only what has its id.
StoreEffect(h) ==
  /\ CoinRows \subseteq CoinRows' /\ inventory \subseteq inventory'
  /\ noted \subseteq noted' /\ unnoted \subseteq unnoted'
  /\ dropped' = dropped /\ issued \subseteq issued'
  /\ \A g \in Handlers \ {h} : job'[g] = job[g]
  /\ StoreStep(h) => StoreJob(job[h]) /\ job[h].key \in StoreKeys
  /\ \A row \in CoinRows' \ CoinRows :
        \/ /\ DebitPurchase(h) /\ job'[h] = [job[h] EXCEPT !.at = "grant"]
           /\ row = RowOf(StoreDebit(job[h].account, job[h].key), row.balanceAfter)
        \/ /\ AdjustBalance(h) /\ job'[h] = [job[h] EXCEPT !.at = "note"]
           /\ row = RowOf(HandoutMove(Handout(job[h])), row.balanceAfter)
  /\ \A item \in inventory' \ inventory :
        \/ Grant(h) /\ item = Item(job[h].account, job[h].key, "store_purchase")
        \/ /\ GiveItem(h) /\ job'[h] = [job[h] EXCEPT !.at = "note"]
           /\ item = Item(job[h].account, job[h].key, "admin")
  /\ \A e \in noted' \ noted : NoteHandout(h) /\ e = Handout(job[h])
  /\ StoreStep(h) =>
        \/ job'[h] = Idle
        \/ /\ DebitPurchase(h) /\ job'[h] = [job[h] EXCEPT !.at = "grant"]
           /\ \E row \in CoinRows' :
                 row = RowOf(StoreDebit(job[h].account, job[h].key), row.balanceAfter)
        \/ /\ GiveItem(h) /\ job'[h] = [job[h] EXCEPT !.at = "note"]
        \/ /\ AdjustBalance(h) /\ job'[h] = [job[h] EXCEPT !.at = "note"]
           /\ \E row \in CoinRows' :
                 row = RowOf(HandoutMove(Handout(job[h])), row.balanceAfter)
  /\ StoreStarts(h) =>
        /\ job[h] = Idle /\ CoinRows' = CoinRows /\ UNCHANGED storeVars
        /\ \E k \in StoreKeys \ issued :
              /\ k \in issued' /\ job'[h].key = k
              /\ Doing(h, "store", "debit")' \/ Doing(h, "handout", "give")'

\* The store's own steps do no more than that.
LEMMA StoreEffects ==
  ASSUME Ground, NEW h \in Handlers, StoreStep(h) \/ StoreStarts(h)
  PROVE  StoreEffect(h)
<1>1. job \in [Handlers -> Jobs] /\ Idle.op = "none" BY DEF Ground, Typed, Idle
<1>2. ASSUME StoreStep(h)
      PROVE  /\ StoreJob(job[h]) /\ job[h].key \in StoreKeys /\ ~StoreStarts(h)
             /\ job[h] \in PurchaseJob \cup HandoutJob
 <2>1. job[h].op \in {"store", "handout"}
   BY <1>2 DEF StoreStep, DebitPurchase, Grant, GiveItem, AdjustBalance, NoteHandout, Doing
 <2>2. job[h] # Idle BY <1>1, <2>1
 <2>3. job[h] \in PurchaseJob \cup HandoutJob BY <2>1, JobKinds DEF Ground
 <2>4. ~StoreStarts(h) BY <2>2 DEF StoreStarts, StartPurchase, StartHandout, Accept, Ready
 <2> QED BY <2>1, <2>3, <2>4 DEF StoreJob, PurchaseJob, HandoutJob, StoreKeys
<1>3. ASSUME UNCHANGED ledgerVars PROVE CoinRows' = CoinRows BY <1>3 DEF ledgerVars, CoinRows
<1>4. ASSUME StoreStarts(h) PROVE StoreEffect(h)
 <2>0. PICK k \in StoreKeys \ issued : \E j :
         /\ Accept(h, j) /\ j.key = k /\ issued' = issued \cup {k}
         /\ (j.op = "store" /\ j.at = "debit") \/ (j.op = "handout" /\ j.at = "give")
  <3>1. CASE \E a \in Accounts : StartPurchase(h, a)
   <4>1. PICK a \in Accounts, k \in PurchaseIds \ issued :
           /\ Accept(h, [op |-> "store", at |-> "debit", key |-> k, account |-> a])
           /\ issued' = issued \cup {k}
     BY <3>1 DEF StartPurchase
   <4>2. PICK j : j = [op |-> "store", at |-> "debit", key |-> k, account |-> a] OBVIOUS
   <4> QED BY <4>1, <4>2 DEF StoreKeys
  <3>2. ASSUME NEW by \in Accounts, NEW a \in Accounts, NEW what \in Directions \cup {"item"},
               StartHandout(h, by, what, a)
        PROVE  \E k \in StoreKeys \ issued : \E j :
                  /\ Accept(h, j) /\ j.key = k /\ issued' = issued \cup {k}
                  /\ (j.op = "store" /\ j.at = "debit") \/ (j.op = "handout" /\ j.at = "give")
   <4>1. PICK k \in HandoutIds \ issued :
           /\ Accept(h, [op |-> "handout", at |-> "give", key |-> k,
                         by |-> by, what |-> what, account |-> a])
           /\ issued' = issued \cup {k}
     BY <3>2 DEF StartHandout
   <4>2. PICK j : j = [op |-> "handout", at |-> "give", key |-> k,
                       by |-> by, what |-> what, account |-> a]
     OBVIOUS
   <4> QED BY <4>1, <4>2 DEF StoreKeys
  <3> QED BY <1>4, <3>1, <3>2 DEF StoreStarts
 <2>1. PICK j :
         /\ Accept(h, j) /\ j.key = k /\ issued' = issued \cup {k}
         /\ (j.op = "store" /\ j.at = "debit") \/ (j.op = "handout" /\ j.at = "give")
   BY <2>0
 <2>2. UNCHANGED <<ledgerVars, storeVars>> BY <1>4 DEF StoreStarts, StartPurchase, StartHandout
 <2>3. /\ job[h] = Idle /\ job'[h] = j /\ dropped' = dropped
       /\ \A g \in Handlers \ {h} : job'[g] = job[g]
   BY <1>1, <2>1 DEF Accept, Ready
 <2>4. ~StoreStep(h) BY <1>2, <1>4
 <2>5. CoinRows' = CoinRows /\ inventory' = inventory /\ noted' = noted /\ unnoted' = unnoted
   BY <1>3, <2>2 DEF storeVars
 <2>6. Doing(h, "store", "debit")' \/ Doing(h, "handout", "give")' BY <2>1, <2>3 DEF Doing
 <2> QED BY <2>1, <2>2, <2>3, <2>4, <2>5, <2>6 DEF StoreEffect
<1>5. ASSUME DebitPurchase(h) PROVE StoreEffect(h)
 <2>1. PICK r : r = StoreDebit(job[h].account, job[h].key) OBVIOUS
 <2>2. /\ Settle(r) /\ UNCHANGED storeVars /\ StoreStep(h) /\ Doing(h, "store", "debit")
       /\ IF Succeeds(r) THEN Goto(h, "grant") ELSE Finish(h)
   BY <1>5, <2>1 DEF DebitPurchase, StoreStep
 <2>3. CoinMove(r) BY <2>1, <2>2, JobKinds, CallsTyped DEF Ground, Doing, PurchaseJob
 <2>4. /\ Entered(r) /\ (Succeeds(r) => Moved(r)')
       /\ (~Succeeds(r) => CoinRows' = CoinRows)
   BY <2>2, <2>3, Settled DEF Ground
 <2>5. /\ Succeeds(r) => job'[h] = [job[h] EXCEPT !.at = "grant"]
       /\ ~Succeeds(r) => job'[h] = Idle
       /\ \A g \in Handlers \ {h} : job'[g] = job[g]
       /\ dropped' = dropped /\ issued' = issued
   BY <1>1, <2>2 DEF Goto, Finish
 <2>6. inventory' = inventory /\ noted' = noted /\ unnoted' = unnoted BY <2>2 DEF storeVars
 <2>7. ~StoreStarts(h) /\ StoreJob(job[h]) /\ job[h].key \in StoreKeys BY <1>2, <2>2
 <2>8. CoinRows \subseteq CoinRows' /\ \A row \in CoinRows' \ CoinRows :
         row = RowOf(r, row.balanceAfter)
   BY <2>4 DEF Entered
 <2>9. Succeeds(r) => \E row \in CoinRows' : row = RowOf(r, row.balanceAfter) BY <2>4 DEF Moved
 <2> QED BY <1>5, <2>1, <2>4, <2>5, <2>6, <2>7, <2>8, <2>9 DEF StoreEffect
<1>6. ASSUME AdjustBalance(h) PROVE StoreEffect(h)
 <2>1. PICK r : r = HandoutMove(Handout(job[h])) OBVIOUS
 <2>2. /\ Settle(r) /\ UNCHANGED storeVars /\ StoreStep(h) /\ Doing(h, "handout", "give")
       /\ IF Succeeds(r) THEN Goto(h, "note") ELSE Finish(h)
       /\ job[h].what \in Directions
   BY <1>6, <2>1 DEF AdjustBalance, StoreStep
 <2>3. CoinMove(r)
  <3>1. job[h] \in HandoutJob BY <2>2, JobKinds DEF Ground, Doing
  <3> QED BY <2>1, <2>2, <3>1, CallsTyped DEF HandoutJob, Handout
 <2>4. /\ Entered(r) /\ (Succeeds(r) => Moved(r)')
       /\ (~Succeeds(r) => CoinRows' = CoinRows)
   BY <2>2, <2>3, Settled DEF Ground
 <2>5. /\ Succeeds(r) => job'[h] = [job[h] EXCEPT !.at = "note"]
       /\ ~Succeeds(r) => job'[h] = Idle
       /\ \A g \in Handlers \ {h} : job'[g] = job[g]
       /\ dropped' = dropped /\ issued' = issued
   BY <1>1, <2>2 DEF Goto, Finish
 <2>6. inventory' = inventory /\ noted' = noted /\ unnoted' = unnoted BY <2>2 DEF storeVars
 <2>7. ~StoreStarts(h) /\ StoreJob(job[h]) /\ job[h].key \in StoreKeys BY <1>2, <2>2
 <2>8. CoinRows \subseteq CoinRows' /\ \A row \in CoinRows' \ CoinRows :
         row = RowOf(r, row.balanceAfter)
   BY <2>4 DEF Entered
 <2>9. Succeeds(r) => \E row \in CoinRows' : row = RowOf(r, row.balanceAfter) BY <2>4 DEF Moved
 <2> QED BY <1>6, <2>1, <2>4, <2>5, <2>6, <2>7, <2>8, <2>9 DEF StoreEffect
<1>7. ASSUME Grant(h) \/ GiveItem(h) \/ NoteHandout(h) PROVE StoreEffect(h)
 <2>1. StoreStep(h) /\ UNCHANGED ledgerVars BY <1>7 DEF StoreStep, Grant, GiveItem, NoteHandout
 <2>2. ~StoreStarts(h) /\ StoreJob(job[h]) /\ job[h].key \in StoreKeys /\ CoinRows' = CoinRows
   BY <1>2, <1>3, <2>1
 <2>3. /\ \A g \in Handlers \ {h} : job'[g] = job[g]
       /\ dropped' = dropped /\ issued' = issued
       /\ GiveItem(h) => job'[h] = [job[h] EXCEPT !.at = "note"]
       /\ ~GiveItem(h) => job'[h] = Idle
   BY <1>1, <1>7 DEF Grant, GiveItem, NoteHandout, Goto, Finish
 <2>4. /\ inventory \subseteq inventory' /\ noted \subseteq noted' /\ unnoted \subseteq unnoted'
       /\ \A item \in inventory' \ inventory :
            \/ Grant(h) /\ item = Item(job[h].account, job[h].key, "store_purchase")
            \/ GiveItem(h) /\ item = Item(job[h].account, job[h].key, "admin")
       /\ \A e \in noted' \ noted : NoteHandout(h) /\ e = Handout(job[h])
   BY <1>7 DEF Grant, GiveItem, NoteHandout
 <2> QED BY <2>1, <2>2, <2>3, <2>4 DEF StoreEffect
<1> QED BY <1>4, <1>5, <1>6, <1>7 DEF StoreStep

\* The store's own steps keep its books.
LEMMA StoreStepKeeps ==
  ASSUME Ground, Ground', StoreBooks, NEW h \in Handlers, StoreStep(h) \/ StoreStarts(h)
  PROVE  StoreBooks'
<1> DEFINE k == job[h].key
<1>1. StoreEffect(h) BY StoreEffects
<1>2. /\ CoinRows \subseteq CoinRows' /\ inventory \subseteq inventory'
      /\ noted \subseteq noted' /\ unnoted \subseteq unnoted'
      /\ dropped' = dropped /\ issued \subseteq issued'
      /\ \A g \in Handlers \ {h} : job'[g] = job[g]
      /\ \A r : Moved(r) => Moved(r)'
  BY <1>1 DEF StoreEffect, Moved
<1>3. StoreStep(h) => /\ StoreJob(job[h]) /\ k \in StoreKeys /\ k \in issued
                      /\ \A g \in Handlers \ {h} : StoreJob(job[g]) => job[g].key # k
  BY <1>1 DEF StoreEffect, StoreBooks, StoreIds
<1>4. /\ \A row \in CoinRows' \ CoinRows : StoreStep(h) /\ row.key = k
      /\ \A item \in inventory' \ inventory : StoreStep(h) /\ item.ref = k
  BY <1>1 DEF StoreEffect, StoreStep, RowOf, StoreDebit, HandoutMove, Handout, Item
<1>5. \A q : q # k /\ Untouched(q) => Untouched(q)' BY <1>4 DEF Untouched, OnBooks
<1>6. StoreStep(h) =>
        \/ job'[h] = Idle
        \/ /\ DebitPurchase(h) /\ job'[h] = [job[h] EXCEPT !.at = "grant"]
           /\ \E row \in CoinRows' :
                 row = RowOf(StoreDebit(job[h].account, job[h].key), row.balanceAfter)
        \/ /\ GiveItem(h) /\ job'[h] = [job[h] EXCEPT !.at = "note"]
        \/ /\ AdjustBalance(h) /\ job'[h] = [job[h] EXCEPT !.at = "note"]
           /\ \E row \in CoinRows' :
                 row = RowOf(HandoutMove(Handout(job[h])), row.balanceAfter)
  BY <1>1 DEF StoreEffect
<1>7. StoreStarts(h) =>
        /\ job[h] = Idle /\ CoinRows' = CoinRows /\ UNCHANGED <<inventory, noted, unnoted>>
        /\ \E q \in StoreKeys \ issued :
              /\ q \in issued' /\ job'[h].key = q
              /\ Doing(h, "store", "debit")' \/ Doing(h, "handout", "give")'
  BY <1>1 DEF StoreEffect, storeVars
<1>8. /\ StoreStep(h) => job[h] \in PurchaseJob \cup HandoutJob
      /\ DebitPurchase(h) \/ Grant(h) => job[h] \in PurchaseJob
      /\ GiveItem(h) \/ AdjustBalance(h) \/ NoteHandout(h) => job[h] \in HandoutJob
      /\ Idle.op = "none"
  BY JobKinds DEF Ground, StoreStep, DebitPurchase, Grant, GiveItem, AdjustBalance, NoteHandout, Doing, Idle
<1>9. /\ StoreStep(h) /\ job'[h] # Idle => job'[h].key = k /\ job'[h].at \in {"grant", "note"}
      /\ StoreStarts(h) => job'[h].at \in {"debit", "give"}
  BY <1>6, <1>7, <1>8 DEF PurchaseJob, HandoutJob, Doing
<1>10. StoreIds'
 <2>1. \A g \in Handlers : StoreJob(job'[g]) => job'[g].key \in issued'
   BY <1>2, <1>3, <1>7, <1>8, <1>9 DEF StoreBooks, StoreIds, StoreJob
 <2>2. ASSUME NEW f \in Handlers, NEW g \in Handlers, StoreJob(job'[f]), StoreJob(job'[g]),
              job'[f].key = job'[g].key
       PROVE  f = g
  <3>1. CASE f # h /\ g # h BY <1>2, <2>2, <3>1 DEF StoreBooks, StoreIds
  <3>2. ASSUME NEW e \in Handlers \ {h}, StoreJob(job'[e]), StoreJob(job'[h])
        PROVE  job'[e].key # job'[h].key
   <4>1. StoreJob(job[e]) /\ job'[e].key = job[e].key /\ job[e].key \in issued
     BY <1>2, <3>2 DEF StoreBooks, StoreIds
   <4>2. CASE StoreStep(h) BY <1>3, <1>8, <1>9, <3>2, <4>1, <4>2 DEF StoreJob
   <4>3. CASE StoreStarts(h) BY <1>7, <4>1, <4>3
   <4> QED BY <4>2, <4>3
  <3> QED BY <2>2, <3>1, <3>2
 <2>3. /\ \A row \in CoinRows' : row.key \in StoreKeys => row.key \in issued'
       /\ \A item \in inventory' : item.ref \in issued'
   BY <1>2, <1>3, <1>4 DEF StoreBooks, StoreIds
 <2> QED BY <2>1, <2>2, <2>3 DEF StoreIds, StoreJob
<1>11. StoreFresh'
 <2>1. ASSUME NEW g \in Handlers, Doing(g, "store", "debit")' \/ Doing(g, "handout", "give")'
       PROVE  Untouched(job[g].key)'
  <3>1. CASE g # h
   <4>1. PICK q : q = job[g].key OBVIOUS
   <4>2. job'[g] = job[g] /\ StoreJob(job[g]) /\ Untouched(q)
     BY <1>2, <2>1, <3>1, <4>1 DEF StoreBooks, StoreFresh, Doing, StoreJob
   <4>3. Untouched(q)'
    <5>1. CASE StoreStep(h) BY <1>3, <1>5, <3>1, <4>1, <4>2, <5>1
    <5>2. CASE StoreStarts(h) BY <1>7, <4>2, <5>2 DEF Untouched, OnBooks
    <5> QED BY <5>1, <5>2
   <4> QED BY <4>1, <4>2, <4>3 DEF Untouched, OnBooks
  <3>2. CASE g = h
   <4>1. StoreStarts(h) BY <1>8, <1>9, <2>1, <3>2 DEF Doing
   <4>2. PICK q \in StoreKeys \ issued : job'[h].key = q BY <1>7, <4>1
   <4>3. Untouched(q) BY DEF StoreBooks, StoreIds, Untouched, OnBooks
   <4> QED BY <1>7, <3>2, <4>1, <4>2, <4>3 DEF Untouched, OnBooks
  <3> QED BY <3>1, <3>2
 <2> QED BY <2>1 DEF StoreFresh
<1>12. StoreGoods'
 <2>1. ASSUME NEW g \in Handlers, Doing(g, "store", "grant")'
       PROVE  PaidBy(job[g].account, job[g].key)'
  <3>1. CASE g # h
   <4>1. job'[g] = job[g] /\ StoreJob(job[g]) /\ PaidBy(job[g].account, job[g].key)
     BY <1>2, <2>1, <3>1 DEF StoreBooks, StoreGoods, Doing, StoreJob
   <4>2. \A row \in CoinRows' : row.key = job[g].key => row.account = job[g].account
     BY <1>3, <1>4, <3>1, <4>1 DEF PaidBy
   <4> QED BY <1>2, <4>1, <4>2 DEF PaidBy, Moved, StoreDebit, RowOf
  <3>2. CASE g = h
   <4>1. StoreStep(h) /\ DebitPurchase(h) BY <1>6, <1>7, <1>8, <1>9, <2>1, <3>2 DEF Doing, HandoutJob
   <4>2. /\ job[h] \in PurchaseJob /\ job'[h] = [job[h] EXCEPT !.at = "grant"]
         /\ \E row \in CoinRows' :
               row = RowOf(StoreDebit(job[h].account, job[h].key), row.balanceAfter)
     BY <1>6, <1>8, <2>1, <3>2, <4>1 DEF Doing, GiveItem, AdjustBalance, DebitPurchase
   <4>3. job'[h].account = job[h].account /\ job'[h].key = k BY <4>2 DEF PurchaseJob
   <4>4. ~OnBooks(k) BY <4>1 DEF DebitPurchase, StoreBooks, StoreFresh, Untouched
   <4>5. \A row \in CoinRows' : row.key = k => row.account = job[h].account
    <5>1. ASSUME NEW row \in CoinRows' \ CoinRows PROVE row.account = job[h].account
      BY <1>1, <4>1 DEF StoreEffect, RowOf, StoreDebit, AdjustBalance, DebitPurchase, Doing
    <5> QED BY <4>4, <5>1 DEF OnBooks
   <4> QED BY <3>2, <4>2, <4>3, <4>5 DEF PaidBy, Moved, StoreDebit, RowOf
  <3> QED BY <3>1, <3>2
 <2>2. ASSUME NEW item \in inventory', item.source = "store_purchase"
       PROVE  Moved(StoreDebit(item.account, item.ref))'
  <3>1. CASE item \in inventory BY <1>2, <2>2, <3>1 DEF StoreBooks, StoreGoods
  <3>2. CASE item \notin inventory
   <4>1. Grant(h) /\ item = Item(job[h].account, k, "store_purchase")
     BY <1>1, <2>2, <3>2 DEF StoreEffect, Item
   <4>2. Moved(StoreDebit(item.account, item.ref)) BY <4>1 DEF Grant, StoreBooks, StoreGoods, PaidBy, Item
   <4> QED BY <1>2, <4>2
  <3> QED BY <3>1, <3>2
 <2>3. ASSUME NEW q \in PurchaseIds, NEW a \in Payers(q)'
       PROVE  \/ Item(a, q, "store_purchase") \in inventory'
              \/ InFlight("store", q, {"grant"})'
              \/ q \in dropped
  <3>1. PICK row \in CoinRows' : row.key = q /\ row.direction = "debit" /\ row.account = a BY DEF Payers
  <3>2. CASE row \in CoinRows
   <4>1. a \in Payers(q) BY <3>1, <3>2 DEF Payers
   <4>2. CASE Item(a, q, "store_purchase") \in inventory \/ q \in dropped BY <1>2, <4>2
   <4>3. CASE InFlight("store", q, {"grant"})
    <5>1. PICK g \in Handlers : Doing(g, "store", "grant") /\ job[g].key = q BY <4>3 DEF InFlight, Doing
    <5>2. CASE g # h BY <1>2, <5>1, <5>2 DEF InFlight, Doing
    <5>3. CASE g = h
     <6>1. Grant(h)
       BY <1>7, <1>8, <5>1, <5>3 DEF StoreStep, DebitPurchase, GiveItem, AdjustBalance, NoteHandout, Doing
     <6>2. a = job[h].account BY <3>1, <3>2, <5>1, <5>3 DEF StoreBooks, StoreGoods, PaidBy
     <6> QED BY <5>1, <5>3, <6>1, <6>2 DEF Grant
    <5> QED BY <5>2, <5>3
   <4> QED BY <4>1, <4>2, <4>3 DEF StoreBooks, StoreGoods, DebitsDelivered
  <3>3. CASE row \notin CoinRows
   <4>1. q = k /\ StoreStep(h) BY <1>4, <3>1, <3>3
   <4>2. DebitPurchase(h) /\ job'[h] = [job[h] EXCEPT !.at = "grant"]
    <5>1. ~AdjustBalance(h) BY <1>8, <4>1, Kinds DEF HandoutJob
    <5> QED BY <1>1, <3>3, <5>1 DEF StoreEffect
   <4>3. job'[h].op = "store" /\ job'[h].key = q /\ job'[h].at = "grant" BY <1>8, <4>1, <4>2 DEF PurchaseJob
   <4> QED BY <4>3 DEF InFlight
  <3> QED BY <3>2, <3>3
 <2>4. DebitsDelivered' BY <1>2, <2>3, Zenon DEF DebitsDelivered
 <2> QED BY <2>1, <2>2, <2>4 DEF StoreGoods
<1>13. \A d : Given(d) => Given(d)' BY <1>2 DEF Given, Item
<1>14. StoreNotes'
 <2>1. ASSUME NEW g \in Handlers, Doing(g, "handout", "note")'
       PROVE  Given(Handout(job[g]))'
  <3>1. PICK d : d = Handout(job'[g]) OBVIOUS
  <3>2. Given(d)'
   <4>1. CASE g # h
    <5>1. job'[g] = job[g] /\ Given(d) BY <1>2, <2>1, <3>1, <4>1 DEF StoreBooks, StoreNotes, Doing
    <5> QED BY <1>13, <5>1
   <4>2. CASE g = h
    <5>1. /\ StoreStep(h) /\ (GiveItem(h) \/ AdjustBalance(h))
          /\ job'[h] = [job[h] EXCEPT !.at = "note"] /\ job[h] \in HandoutJob
      BY <1>6, <1>7, <1>8, <1>9, <2>1, <4>2 DEF Doing, PurchaseJob
    <5>2. d = Handout(job[h]) BY <3>1, <4>2, <5>1 DEF Handout, HandoutJob
    <5>3. CASE GiveItem(h) BY <5>2, <5>3 DEF GiveItem, Given, Handout, Item
    <5>4. CASE AdjustBalance(h)
     <6>1. \E row \in CoinRows' : row = RowOf(HandoutMove(d), row.balanceAfter)
      <7>1. job'[h] # Idle /\ ~DebitPurchase(h) BY <1>8, <5>1 DEF HandoutJob, PurchaseJob
      <7>2. ~GiveItem(h) BY <5>4 DEF GiveItem, AdjustBalance, Directions
      <7> QED BY <1>6, <5>1, <5>2, <7>1, <7>2
     <6>2. d.what # "item" BY <5>2, <5>4 DEF AdjustBalance, Handout, Directions
     <6> QED BY <6>1, <6>2 DEF Given, Moved
    <5> QED BY <5>1, <5>3, <5>4
   <4> QED BY <4>1, <4>2
  <3> QED BY <3>1, <3>2 DEF Given, Handout, Item, Moved, HandoutMove, RowOf
 <2>2. ASSUME NEW e \in noted'
       PROVE  e \in HandoutSet /\ Given(e)'
  <3>1. CASE e \in noted BY <1>13, <3>1 DEF StoreBooks, StoreNotes
  <3>2. CASE e \notin noted
   <4>1. NoteHandout(h) /\ e = Handout(job[h]) /\ job[h] \in HandoutJob BY <1>1, <1>8, <3>2 DEF StoreEffect
   <4>2. e \in HandoutSet BY <4>1 DEF Handout, HandoutJob, HandoutSet
   <4>3. Given(e) BY <4>1 DEF NoteHandout, StoreBooks, StoreNotes
   <4> QED BY <1>13, <4>2, <4>3
  <3> QED BY <3>1, <3>2
 <2>3. ASSUME NEW d \in HandoutSet, Given(d)'
       PROVE  \/ d.ref \in unnoted' \/ d.ref \in dropped' \/ \E e \in noted' : e.ref = d.ref
              \/ InFlight("handout", d.ref, {"note"})'
  <3>1. CASE Given(d)
   <4>1. CASE InFlight("handout", d.ref, {"note"})
    <5>1. PICK g \in Handlers : Doing(g, "handout", "note") /\ job[g].key = d.ref
      BY <4>1 DEF InFlight, Doing
    <5>2. CASE g # h BY <1>2, <5>1, <5>2 DEF InFlight, Doing
    <5>3. CASE g = h
     <6>1. NoteHandout(h)
       BY <1>7, <1>8, <5>1, <5>3 DEF StoreStep, DebitPurchase, Grant, GiveItem, AdjustBalance, Doing
     <6>2. \/ noted' = noted \cup {Handout(job[h])}
           \/ unnoted' = unnoted \cup {job[h].key}
       BY <6>1 DEF NoteHandout
     <6>3. Handout(job[h]).ref = d.ref BY <5>1, <5>3 DEF Handout
     <6> QED BY <5>1, <5>3, <6>2, <6>3
    <5> QED BY <5>2, <5>3
   <4> QED BY <1>2, <3>1, <4>1 DEF StoreBooks, StoreNotes
  <3>2. CASE ~Given(d)
   <4>1. d.ref = k /\ job[h] \in HandoutJob /\ job'[h] = [job[h] EXCEPT !.at = "note"]
    <5>1. CASE d.what = "item"
     <6>1. PICK item \in inventory' \ inventory : item = Item(d.account, d.ref, "admin")
       BY <2>3, <3>2, <5>1 DEF Given, Item
     <6>2. GiveItem(h) /\ job'[h] = [job[h] EXCEPT !.at = "note"] /\ item.ref = k
       BY <1>1, <1>4, <6>1 DEF StoreEffect, Item
     <6> QED BY <1>8, <6>1, <6>2 DEF Item
    <5>2. CASE d.what # "item"
     <6>1. PICK row \in CoinRows' \ CoinRows : row = RowOf(HandoutMove(d), row.balanceAfter)
       BY <2>3, <3>2, <5>2 DEF Given, Moved, HandoutMove, RowOf
     <6>2. StoreStep(h) /\ d.ref = k BY <1>4, <6>1 DEF RowOf, HandoutMove
     <6>3. ~DebitPurchase(h)
      <7>1. d.ref \in HandoutIds BY DEF HandoutSet
      <7> QED BY <1>8, <6>2, <7>1, Kinds DEF PurchaseJob
     <6>4. AdjustBalance(h) /\ job'[h] = [job[h] EXCEPT !.at = "note"] BY <1>1, <6>1, <6>3 DEF StoreEffect
     <6> QED BY <1>8, <6>2, <6>4
    <5> QED BY <5>1, <5>2
   <4>2. job'[h].op = "handout" /\ job'[h].at = "note" /\ job'[h].key = d.ref BY <4>1 DEF HandoutJob
   <4> QED BY <4>2 DEF InFlight
  <3> QED BY <3>1, <3>2
 <2> QED BY <2>1, <2>2, <2>3 DEF StoreNotes
<1> QED BY <1>10, <1>11, <1>12, <1>14 DEF StoreBooks
-----------------------------
\* Requests that are about to count a share of account a.
Sharing(a) == {h \in Handlers : job[h].op = "share" /\ job[h].account = a}

\* Rewards stand under claims, and claims lead to rewards.
EventClaims ==
  /\ \A row \in CoinRows : row.key \in RewardKeys =>
        row.key = RewardKey[row.account] /\ progress[row.account].claimed
  /\ \A h \in Handlers : job[h].op = "claim" /\ job[h].at \in {"credit", "notify"} =>
        progress[job[h].account].claimed
  /\ \A a \in Accounts : progress[a].claimed =>
        \/ Booked(a, RewardKey[a])
        \/ InFlight("claim", RewardKey[a], {"credit"})
        \/ RewardKey[a] \in dropped

\* What is counted, and what will be, was shared.
CountedOnce(a) ==
  /\ IsFiniteSet(Sharing(a))
  /\ progress[a].count + Cardinality(Sharing(a)) <= shares[a]
  /\ \A h \in Sharing(a) : job[h].at = "upsert" =>
        job[h].seen + Cardinality(Sharing(a)) <= shares[a]

\* A share counts, will count, or was cut off or out of the event's time.
ShareCounts(a) ==
  /\ progress[a].completed => progress[a].count > 0
  /\ shares[a] > 0 => \/ progress[a].count > 0
                      \/ InFlight("share", RewardKey[a], {"progress", "upsert"})
                      \/ RewardKey[a] \in dropped
                      \/ ~EventActive

\* The books of events.
EventBooks == EventClaims /\ \A a \in Accounts : CountedOnce(a) /\ ShareCounts(a)

\* Rewards follow claims, and counts follow shares.
LEMMA EventsAgree ==
  ASSUME Ground, EventBooks
  PROVE  ClaimsPaid /\ SharesCounted
<1>1. ASSUME NEW a \in Accounts
      PROVE  LET paid == {row \in CoinRows : row.key = RewardKey[a]} IN
             /\ Cardinality(paid) <= 1
             /\ paid # {} => progress[a].claimed
             /\ progress[a].claimed => \/ paid # {}
                                       \/ InFlight("claim", RewardKey[a], {"credit"})
                                       \/ RewardKey[a] \in dropped
 <2> DEFINE paid == {row \in CoinRows : row.key = RewardKey[a]}
 <2>1. \A row \in paid : row.account = a /\ progress[a].claimed
  <3>1. ASSUME NEW row \in paid PROVE row.account = a /\ progress[a].claimed
   <4>1. row \in CoinRows /\ row.key = RewardKey[a] /\ RewardKey[a] \in RewardKeys BY CallsTyped
   <4>2. row.account \in Accounts BY <4>1, CoinRowsTyped DEF Ground
   <4> QED BY <4>1, <4>2, RewardKeysDiffer DEF EventBooks, EventClaims
  <3> QED BY <3>1
 <2>2. \A x, y \in paid : x = y
  <3>1. \A x, y \in CoinRows : x.account = y.account /\ x.key = y.key => x = y BY DEF Ground, Books
  <3> QED BY <2>1, <3>1
 <2>3. Cardinality(paid) <= 1
  <3>1. CASE paid = {} BY <3>1, FS_EmptySet
  <3>2. CASE paid # {}
   <4>1. PICK x : paid = {x} BY <2>2, <3>2
   <4> QED BY <4>1, FS_Singleton
  <3> QED BY <3>1, <3>2
 <2>4. Booked(a, RewardKey[a]) => paid # {} BY DEF Booked
 <2> QED BY <2>1, <2>3, <2>4 DEF EventBooks, EventClaims
<1>2. ASSUME NEW a \in Accounts PROVE progress[a].count <= shares[a]
 <2>1. Cardinality(Sharing(a)) \in Nat BY FS_CardinalityType DEF EventBooks, CountedOnce
 <2>2. progress[a].count \in Nat /\ shares[a] \in Nat BY DEF Ground, Typed, TablesTyped, ProgressRow
 <2> QED BY <2>1, <2>2 DEF EventBooks, CountedOnce
<1> QED BY <1>1, <1>2 DEF ClaimsPaid, SharesCounted, EventBooks, ShareCounts

\* Events start with no progress.
LEMMA EventBooksInit ==
  ASSUME PaymentsInit
  PROVE  EventBooks
<1>1. /\ job = [h \in Handlers |-> Idle] /\ progress = [a \in Accounts |-> NoProgress]
      /\ shares = [a \in Accounts |-> 0] /\ SeededLedger
  BY DEF PaymentsInit, HandlersInit, EventsInit
<1>2. \A row \in CoinRows : row.key = SeedKey
 <2>1. ASSUME NEW a \in Accounts, NEW i \in DOMAIN SeedRows(a) PROVE SeedRows(a)[i].key = SeedKey
   BY DEF SeedRows
 <2> QED BY <1>1, <2>1, InCoins, CoinsAreCurrency DEF SeededLedger
<1>3. SeedKey \notin RewardKeys BY SeedKeyFree, RewardKeyType DEF RewardKeys
<1>4. \A h \in Handlers : job[h].op # "share" /\ job[h].op # "claim" BY <1>1 DEF Idle
<1>5. EventClaims BY <1>1, <1>2, <1>3, <1>4 DEF EventClaims, NoProgress
<1>6. ASSUME NEW a \in Accounts PROVE CountedOnce(a) /\ ShareCounts(a)
 <2>1. Sharing(a) = {} BY <1>4 DEF Sharing
 <2>2. IsFiniteSet(Sharing(a)) /\ Cardinality(Sharing(a)) = 0 BY <2>1, FS_EmptySet
 <2> QED BY <1>1, <2>1, <2>2 DEF CountedOnce, ShareCounts, NoProgress
<1> QED BY <1>5, <1>6 DEF EventBooks

\* With fewer shares under way, what was within the count still is.
LEMMA FewerSharing ==
  ASSUME Ground, Ground', NEW a \in Accounts, CountedOnce(a), Sharing(a)' \subseteq Sharing(a),
         progress'[a].count = progress[a].count, shares'[a] = shares[a],
         \A h \in Sharing(a)' : job'[h] = job[h]
  PROVE  CountedOnce(a)'
<1>1. /\ IsFiniteSet(Sharing(a)') /\ Cardinality(Sharing(a)') <= Cardinality(Sharing(a))
      /\ Cardinality(Sharing(a)') \in Nat /\ Cardinality(Sharing(a)) \in Nat
  BY FS_Subset, FS_CardinalityType DEF CountedOnce
<1>2. progress[a].count \in Nat /\ shares[a] \in Nat BY DEF Ground, Typed, TablesTyped, ProgressRow
<1>3. \A h \in Sharing(a) : job[h].seen \in Nat BY JobKinds DEF Ground, Sharing, ShareJob
<1> QED BY <1>1, <1>2, <1>3 DEF CountedOnce

\* Nobody else's step disturbs the event.
LEMMA EventsKept ==
  ASSUME Ground, Ground', EventBooks, Apart({"share", "claim"}, RewardKeys), UNCHANGED eventVars
  PROVE  EventBooks'
<1>1. /\ CoinRows \subseteq CoinRows' /\ \A row \in CoinRows' : row.key \in RewardKeys => row \in CoinRows
      /\ progress' = progress /\ shares' = shares /\ dropped \subseteq dropped' /\ time' >= time
      /\ \A h \in Handlers : job'[h].op \in {"share", "claim"} => job'[h] = job[h]
  BY DEF Apart, eventVars
<1>2. \A a \in Accounts : Booked(a, RewardKey[a]) => Booked(a, RewardKey[a])' BY <1>1 DEF Booked
<1>3. ASSUME NEW op \in {"share", "claim"}, NEW k, NEW steps, InFlight(op, k, steps)
      PROVE  InFlight(op, k, steps)' \/ k \in dropped'
  BY <1>3 DEF InFlight, Apart
<1>4. EventClaims' BY <1>1, <1>2, <1>3 DEF EventBooks, EventClaims
<1>5. ASSUME NEW a \in Accounts PROVE CountedOnce(a)'
 <2>1. /\ Sharing(a)' \subseteq Sharing(a)
       /\ \A h \in Sharing(a)' : job'[h] = job[h]
   BY <1>1 DEF Sharing
 <2> QED BY <1>1, <2>1, FewerSharing DEF EventBooks
<1>6. ASSUME NEW a \in Accounts PROVE ShareCounts(a)'
 <2>1. ~EventActive => ~EventActive' BY <1>1, EventEndsType DEF EventActive, Ground, Typed, TablesTyped
 <2> QED BY <1>1, <1>3, <2>1 DEF EventBooks, ShareCounts
<1> QED BY <1>4, <1>5, <1>6 DEF EventBooks

\* The event's own steps keep its books.
LEMMA EventStepKeeps ==
  ASSUME Ground, Ground', EventBooks, NEW h \in Handlers,
         EventStep(h) \/ \E a \in Accounts : StartShare(h, a) \/ StartClaim(h, a),
         Within(h, {"share", "claim"}, RewardKeys)
  PROVE  EventBooks'
<1> DEFINE b == job[h].account
           Starting == \E a \in Accounts : StartShare(h, a) \/ StartClaim(h, a)
<1>1. /\ job \in [Handlers -> Jobs] /\ progress \in [Accounts -> ProgressRow]
      /\ shares \in [Accounts -> Nat] /\ Idle.op = "none"
      /\ \A g \in Handlers \ {h} : job'[g] = job[g]
      /\ CoinRows \subseteq CoinRows'
  BY DEF Ground, Typed, TablesTyped, Idle, Within, Grown
<1>2. dropped' = dropped /\ time' = time
  BY DEF EventStep, ReadProgress, Upsert, MarkClaimed, CreditReward, NotifyClaim, StartShare, StartClaim,
     Accept, Goto, Finish, Notify
<1>3. /\ Starting => job[h] = Idle
      /\ ReadProgress(h) \/ Upsert(h) => job[h] \in ShareJob
      /\ MarkClaimed(h) \/ CreditReward(h) \/ NotifyClaim(h) => job[h] \in ClaimJob
      /\ EventStep(h) => /\ b \in Accounts /\ job[h].key = RewardKey[b]
                         /\ job[h].op \in {"share", "claim"}
 <2>1. Starting => job[h] = Idle BY DEF StartShare, StartClaim, Accept, Ready
 <2>2. ReadProgress(h) \/ Upsert(h) => job[h] \in ShareJob
   BY JobKinds DEF Ground, ReadProgress, Upsert, Doing
 <2>3. MarkClaimed(h) \/ CreditReward(h) \/ NotifyClaim(h) => job[h] \in ClaimJob
   BY JobKinds DEF Ground, MarkClaimed, CreditReward, NotifyClaim, Doing
 <2>4. EventStep(h) => job[h] \in ShareJob \cup ClaimJob BY <2>2, <2>3 DEF EventStep
 <2>5. EventStep(h) => b \in Accounts /\ job[h].op \in {"share", "claim"} BY <2>4 DEF ShareJob, ClaimJob
 <2> QED BY <2>1, <2>2, <2>3, <2>5 DEF Ground, Typed, KeysOfRewards
<1>4. /\ \A row \in CoinRows' \ CoinRows :
            CreditReward(h) /\ row.account = b /\ row.key = RewardKey[b]
      /\ CreditReward(h) => \E row \in CoinRows' : row.account = b /\ row.key = RewardKey[b]
 <2>1. CASE CreditReward(h)
  <3>1. PICK r, a : a = b /\ r = RewardCredit(a) OBVIOUS
  <3>2. Settle(r) /\ CoinMove(r) /\ r.account = a /\ r.key = RewardKey[a] /\ r.direction = "credit"
    BY <1>3, <2>1, <3>1, CallsTyped DEF CreditReward, RewardCredit, EventStep
  <3>3. Entered(r) /\ Booked(r.account, r.key)' BY <3>2, Settled DEF Ground
  <3> QED BY <2>1, <3>1, <3>2, <3>3 DEF Booked, Entered, RowOf
 <2>2. CASE ~CreditReward(h)
  <3>1. UNCHANGED ledgerVars
    BY <2>2 DEF EventStep, ReadProgress, Upsert, MarkClaimed, NotifyClaim, StartShare, StartClaim
  <3> QED BY <2>2, <3>1 DEF ledgerVars, CoinRows
 <2> QED BY <2>1, <2>2
<1>5. /\ \A a \in Accounts : progress[a].claimed => progress'[a].claimed
      /\ \A a \in Accounts : progress'[a].claimed /\ ~progress[a].claimed =>
            MarkClaimed(h) /\ a = b /\ job'[h] = [job[h] EXCEPT !.at = "credit"]
      /\ MarkClaimed(h) => progress'[b].claimed
 <2>1. CASE MarkClaimed(h)
  <3>1. /\ b \in Accounts
        /\ progress' = [progress EXCEPT ![b].claimed = TRUE]
        /\ ~progress[b].claimed => job' = [job EXCEPT ![h].at = "credit"]
    BY <1>3, <2>1 DEF MarkClaimed, Goto, EventStep
  <3>2. progress'[b].claimed /\ \A a \in Accounts : a # b => progress'[a] = progress[a]
    BY <1>1, <3>1 DEF ProgressRow
  <3> QED BY <1>1, <2>1, <3>1, <3>2
 <2>2. CASE Upsert(h)
  <3>1. \A a \in Accounts : progress'[a].claimed = progress[a].claimed BY <1>1, <2>2 DEF Upsert, ProgressRow
  <3>2. ~MarkClaimed(h) BY <2>2 DEF MarkClaimed, Upsert, Doing
  <3> QED BY <3>1, <3>2
 <2>3. CASE ~MarkClaimed(h) /\ ~Upsert(h)
  <3>1. progress' = progress
    BY <2>3 DEF EventStep, ReadProgress, CreditReward, NotifyClaim, StartShare, StartClaim, eventVars
  <3> QED BY <2>3, <3>1
 <2> QED BY <2>1, <2>2, <2>3
<1>6. EventClaims'
 <2>1. ASSUME NEW row \in CoinRows', row.key \in RewardKeys
       PROVE  row.key = RewardKey[row.account] /\ progress'[row.account].claimed
  <3>1. row.account \in Accounts BY <1>3, <1>4, CoinRowsTyped DEF Ground, EventStep
  <3>2. CASE row \in CoinRows BY <1>5, <2>1, <3>1, <3>2 DEF EventBooks, EventClaims
  <3>3. CASE row \notin CoinRows
   <4>1. CreditReward(h) /\ row.account = b /\ row.key = RewardKey[b] BY <1>4, <3>3
   <4>2. progress[b].claimed BY <4>1 DEF CreditReward, Doing, EventBooks, EventClaims
   <4> QED BY <1>5, <3>1, <4>1, <4>2
  <3> QED BY <3>2, <3>3
 <2>2. ASSUME NEW g \in Handlers, job'[g].op = "claim", job'[g].at \in {"credit", "notify"}
       PROVE  progress'[job'[g].account].claimed
  <3>1. job'[g].account \in Accounts
    BY <2>2, JobKinds DEF Ground, Typed, Jobs, RechargeJob, PurchaseJob, HandoutJob, GuardJob, ShareJob,
       ClaimJob, CodeJob, RedeemJob, Idle
  <3>2. CASE g # h BY <1>1, <1>5, <2>2, <3>1, <3>2 DEF EventBooks, EventClaims
  <3>3. CASE g = h /\ MarkClaimed(h)
   <4>1. job' = [job EXCEPT ![h].at = "credit"] \/ job' = [job EXCEPT ![h] = Idle]
     BY <3>3 DEF MarkClaimed, Goto, Finish
   <4>2. job'[h].account = b BY <1>1, <1>3, <2>2, <3>3, <4>1 DEF ClaimJob
   <4> QED BY <1>5, <3>3, <4>2
  <3>4. CASE g = h /\ CreditReward(h)
   <4>1. job' = [job EXCEPT ![h].at = "notify"] /\ progress[b].claimed
     BY <3>4 DEF CreditReward, Goto, Doing, EventBooks, EventClaims
   <4>2. job'[h].account = b BY <1>1, <1>3, <3>4, <4>1 DEF ClaimJob
   <4> QED BY <1>5, <3>1, <3>4, <4>1, <4>2
  <3>5. CASE g = h /\ (NotifyClaim(h) \/ Upsert(h) \/ ReadProgress(h))
   <4>1. job' = [job EXCEPT ![h] = Idle] \/ ReadProgress(h) BY <3>5 DEF NotifyClaim, Upsert, Finish, Notify
   <4>2. ReadProgress(h) => job'[h].op # "claim" BY <1>1, <1>3 DEF ReadProgress, Finish, ShareJob, Idle
   <4> QED BY <1>1, <2>2, <3>5, <4>1, <4>2
  <3>6. CASE g = h /\ Starting
   <4>1. job'[h].at \in {"progress", "mark"} BY <1>1, <3>6 DEF StartShare, StartClaim, Accept
   <4> QED BY <2>2, <3>6, <4>1
  <3> QED BY <3>2, <3>3, <3>4, <3>5, <3>6 DEF EventStep
 <2>3. ASSUME NEW a \in Accounts, progress'[a].claimed
       PROVE  \/ Booked(a, RewardKey[a])'
              \/ InFlight("claim", RewardKey[a], {"credit"})'
              \/ RewardKey[a] \in dropped
  <3>1. CASE progress[a].claimed
   <4>1. CASE Booked(a, RewardKey[a]) BY <1>1, <4>1 DEF Booked
   <4>2. CASE InFlight("claim", RewardKey[a], {"credit"})
    <5>1. PICK g \in Handlers : Doing(g, "claim", "credit") /\ job[g].key = RewardKey[a]
      BY <4>2 DEF InFlight, Doing
    <5>2. CASE g # h BY <1>1, <5>1, <5>2 DEF InFlight, Doing
    <5>3. CASE g = h
     <6>1. CreditReward(h)
       BY <1>1, <1>3, <5>1, <5>3 DEF EventStep, ReadProgress, Upsert, MarkClaimed, NotifyClaim, Doing
     <6>2. a = b BY <1>3, <5>1, <5>3, <6>1, RewardKeysDiffer DEF EventStep
     <6> QED BY <1>4, <6>1, <6>2 DEF Booked
    <5> QED BY <5>2, <5>3
   <4> QED BY <3>1, <4>1, <4>2 DEF EventBooks, EventClaims
  <3>2. CASE ~progress[a].claimed
   <4>1. MarkClaimed(h) /\ a = b /\ job'[h] = [job[h] EXCEPT !.at = "credit"] BY <1>5, <2>3, <3>2
   <4>2. job'[h].op = "claim" /\ job'[h].key = RewardKey[a] /\ job'[h].at = "credit"
     BY <1>3, <4>1 DEF ClaimJob, EventStep
   <4> QED BY <4>2 DEF InFlight
  <3> QED BY <3>1, <3>2
 <2> QED BY <1>2, <2>1, <2>2, <2>3 DEF EventClaims
<1>7. ASSUME NEW a \in Accounts PROVE CountedOnce(a)'
 <2>1. /\ CountedOnce(a) /\ IsFiniteSet(Sharing(a)) /\ Cardinality(Sharing(a)) \in Nat
       /\ progress[a].count \in Nat /\ shares[a] \in Nat
   BY <1>1, FS_CardinalityType DEF EventBooks, CountedOnce, ProgressRow
 <2>2. \A g \in Sharing(a) : job[g].seen \in Nat /\ job[g] \in ShareJob
   BY JobKinds DEF Ground, Sharing, ShareJob
 <2>3. ASSUME StartShare(h, a) PROVE CountedOnce(a)'
  <3>1. /\ job[h] = Idle /\ shares'[a] = shares[a] + 1 /\ progress'[a] = progress[a]
        /\ job'[h] = [op |-> "share", at |-> "progress", key |-> RewardKey[a],
                      account |-> a, seen |-> 0]
    BY <1>1, <2>3 DEF StartShare, Accept, Ready
  <3>2. Sharing(a)' = Sharing(a) \cup {h} /\ h \notin Sharing(a) BY <1>1, <3>1 DEF Sharing
  <3>3. IsFiniteSet(Sharing(a)') /\ Cardinality(Sharing(a)') = Cardinality(Sharing(a)) + 1
    BY <2>1, <3>2, FS_AddElement
  <3>4. \A g \in Sharing(a)' : job'[g].at = "upsert" => g \in Sharing(a) /\ job'[g] = job[g]
    BY <1>1, <3>1 DEF Sharing
  <3> QED BY <2>1, <2>2, <3>1, <3>3, <3>4 DEF CountedOnce
 <2>4. ASSUME ReadProgress(h), b = a, job'[h] # Idle PROVE CountedOnce(a)'
  <3>1. /\ job'[h] = [job[h] EXCEPT !.at = "upsert", !.seen = progress[a].count]
        /\ progress' = progress /\ shares' = shares
    BY <1>1, <2>4 DEF ReadProgress, Finish, eventVars
  <3>2. /\ job[h].op = "share" /\ job[h].account = a
        /\ job'[h].op = "share" /\ job'[h].account = a /\ job'[h].seen = progress[a].count
    BY <1>3, <2>4, <3>1 DEF ShareJob
  <3>3. Sharing(a)' = Sharing(a) BY <1>1, <3>2 DEF Sharing
  <3>4. \A g \in Sharing(a) : g = h \/ job'[g] = job[g] BY <1>1 DEF Sharing
  <3> QED BY <2>1, <3>1, <3>2, <3>3, <3>4 DEF CountedOnce
 <2>5. ASSUME Upsert(h), b = a PROVE CountedOnce(a)'
  <3> DEFINE new == IF job[h].seen + 1 < TargetCount THEN job[h].seen + 1 ELSE TargetCount
  <3>1. /\ job'[h] = Idle /\ shares' = shares /\ h \in Sharing(a) /\ job[h].at = "upsert"
        /\ progress'[a].count = new
   <4>1. job'[h] = Idle /\ shares' = shares /\ h \in Sharing(a) /\ job[h].at = "upsert"
     BY <1>1, <2>5 DEF Upsert, Finish, Doing, Sharing
   <4>2. progress'[a].count = new BY <1>1, <2>5 DEF Upsert, ProgressRow
   <4> QED BY <4>1, <4>2
  <3>2. Sharing(a)' = Sharing(a) \ {h} BY <1>1, <3>1 DEF Sharing
  <3>3. IsFiniteSet(Sharing(a)') /\ Cardinality(Sharing(a)') = Cardinality(Sharing(a)) - 1
    BY <2>1, <3>1, <3>2, FS_RemoveElement
  <3>4. new \in Nat /\ new <= job[h].seen + 1 BY <2>2, <3>1, TargetPositive
  <3>5. \A g \in Sharing(a)' : g \in Sharing(a) /\ job'[g] = job[g] BY <1>1, <3>2 DEF Sharing
  <3>6. job[h].seen + Cardinality(Sharing(a)) <= shares[a] /\ job[h].seen \in Nat
    BY <2>1, <2>2, <3>1 DEF CountedOnce
  <3> HIDE DEF new
  <3> QED BY <2>1, <2>2, <3>1, <3>3, <3>4, <3>5, <3>6 DEF CountedOnce
 <2>6. ASSUME ~StartShare(h, a), ~(ReadProgress(h) /\ b = a /\ job'[h] # Idle), ~(Upsert(h) /\ b = a)
       PROVE  CountedOnce(a)'
  <3>1. shares'[a] = shares[a] /\ progress'[a].count = progress[a].count
   <4>1. shares'[a] = shares[a]
     BY <1>1, <2>6 DEF EventStep, ReadProgress, Upsert, MarkClaimed, CreditReward, NotifyClaim, StartShare,
        StartClaim, eventVars
   <4>2. CASE Upsert(h) BY <1>1, <2>6, <4>2 DEF Upsert
   <4>3. CASE MarkClaimed(h) BY <1>1, <4>3 DEF MarkClaimed, ProgressRow
   <4>4. CASE ~Upsert(h) /\ ~MarkClaimed(h)
    <5>1. progress' = progress
      BY <4>4 DEF EventStep, ReadProgress, CreditReward, NotifyClaim, StartShare, StartClaim, eventVars
    <5> QED BY <4>1, <5>1
   <4> QED BY <4>1, <4>2, <4>3, <4>4
  <3>2. h \notin Sharing(a)'
   <4>1. CASE EventStep(h)
    <5>1. CASE ReadProgress(h)
     <6>1. CASE job'[h] = Idle BY <1>1, <6>1 DEF Sharing
     <6>2. CASE job'[h] # Idle
      <7>1. job'[h] = [job[h] EXCEPT !.at = "upsert", !.seen = progress[b].count]
        BY <1>1, <5>1, <6>2 DEF ReadProgress, Finish
      <7> QED BY <1>3, <2>6, <5>1, <6>2, <7>1 DEF Sharing, ShareJob
     <6> QED BY <6>1, <6>2
    <5>2. CASE ~ReadProgress(h)
     <6>1. job'[h] = Idle \/ (job[h] \in ClaimJob /\ \E t : job'[h] = [job[h] EXCEPT !.at = t])
      <7>1. Upsert(h) \/ NotifyClaim(h) => job'[h] = Idle BY <1>1 DEF Upsert, NotifyClaim, Finish, Notify
      <7>2. MarkClaimed(h) \/ CreditReward(h) =>
              job[h] \in ClaimJob /\ (job'[h] = Idle \/ \E t : job'[h] = [job[h] EXCEPT !.at = t])
       <8>1. MarkClaimed(h) \/ CreditReward(h) => job[h] \in ClaimJob
         BY <1>3 DEF MarkClaimed, CreditReward, Doing
       <8>2. MarkClaimed(h) \/ CreditReward(h) =>
               job' = [job EXCEPT ![h] = Idle] \/ \E t : job' = [job EXCEPT ![h].at = t]
         BY DEF MarkClaimed, CreditReward, Goto, Finish
       <8> QED BY <1>1, <8>1, <8>2
      <7> QED BY <4>1, <5>2, <7>1, <7>2 DEF EventStep
     <6> QED BY <1>1, <6>1 DEF Sharing, ClaimJob
    <5> QED BY <5>1, <5>2
   <4>2. CASE Starting
    <5>1. PICK c \in Accounts : StartShare(h, c) \/ StartClaim(h, c) BY <4>2
    <5> QED BY <1>1, <2>6, <5>1 DEF StartShare, StartClaim, Accept, Sharing
   <4> QED BY <4>1, <4>2
  <3>3. Sharing(a)' \subseteq Sharing(a) /\ \A g \in Sharing(a)' : job'[g] = job[g]
    BY <1>1, <3>2 DEF Sharing
  <3> QED BY <2>1, <3>1, <3>3, FewerSharing
 <2> QED BY <2>3, <2>4, <2>5, <2>6
<1>8. ASSUME NEW a \in Accounts PROVE ShareCounts(a)'
 <2>1. /\ ShareCounts(a) /\ progress[a].count \in Nat /\ shares[a] \in Nat
       /\ EventActive' = EventActive
   BY <1>1, <1>2 DEF EventBooks, ProgressRow, EventActive
 <2>2. CASE Upsert(h) /\ b = a
  <3>1. job[h].seen \in Nat BY <1>3, <2>2 DEF ShareJob
  <3>2. progress'[a].count =
          IF job[h].seen + 1 < TargetCount THEN job[h].seen + 1 ELSE TargetCount
    BY <1>1, <2>2 DEF Upsert, ProgressRow
  <3>3. progress'[a].count > 0 BY <3>1, <3>2, TargetPositive
  <3> QED BY <3>3 DEF ShareCounts
 <2>3. CASE ~(Upsert(h) /\ b = a)
  <3>1. progress'[a].count = progress[a].count /\ progress'[a].completed = progress[a].completed
   <4>1. CASE Upsert(h) BY <1>1, <2>3, <4>1 DEF Upsert
   <4>2. CASE MarkClaimed(h) BY <1>1, <4>2 DEF MarkClaimed, ProgressRow
   <4>3. CASE ~Upsert(h) /\ ~MarkClaimed(h)
     BY <4>3 DEF EventStep, ReadProgress, CreditReward, NotifyClaim, StartShare, StartClaim, eventVars
   <4> QED BY <4>1, <4>2, <4>3
  <3>2. ASSUME shares'[a] > 0
        PROVE  \/ progress[a].count > 0
               \/ InFlight("share", RewardKey[a], {"progress", "upsert"})'
               \/ RewardKey[a] \in dropped
               \/ ~EventActive
   <4>1. CASE StartShare(h, a)
    <5>1. job'[h] = [op |-> "share", at |-> "progress", key |-> RewardKey[a],
                     account |-> a, seen |-> 0]
      BY <1>1, <4>1 DEF StartShare, Accept
    <5> QED BY <5>1 DEF InFlight
   <4>2. CASE ~StartShare(h, a)
    <5>1. shares'[a] = shares[a]
      BY <1>1, <4>2 DEF EventStep, ReadProgress, Upsert, MarkClaimed, CreditReward, NotifyClaim, StartShare,
         StartClaim, eventVars
    <5>2. CASE InFlight("share", RewardKey[a], {"progress", "upsert"})
     <6>1. PICK g \in Handlers : /\ job[g].op = "share" /\ job[g].key = RewardKey[a]
                                 /\ job[g].at \in {"progress", "upsert"}
       BY <5>2 DEF InFlight
     <6>2. CASE g # h BY <1>1, <6>1, <6>2 DEF InFlight
     <6>3. CASE g = h
      <7>1. b = a /\ ReadProgress(h)
       <8>1. EventStep(h) BY <1>1, <1>3, <6>1, <6>3
       <8>2. b = a BY <1>3, <6>1, <6>3, <8>1, RewardKeysDiffer
       <8> QED BY <2>3, <6>1, <6>3, <8>1, <8>2 DEF EventStep, MarkClaimed, CreditReward,
                  NotifyClaim, Doing
      <7>2. CASE EventActive /\ ~progress[a].completed
       <8>1. job'[h] = [job[h] EXCEPT !.at = "upsert", !.seen = progress[a].count]
         BY <1>1, <7>1, <7>2 DEF ReadProgress
       <8>2. job'[h].op = "share" /\ job'[h].key = RewardKey[a] /\ job'[h].at = "upsert"
         BY <1>3, <6>1, <6>3, <7>1, <8>1 DEF ShareJob
       <8> QED BY <8>2 DEF InFlight
      <7>3. CASE ~(EventActive /\ ~progress[a].completed) BY <2>1, <7>3 DEF ShareCounts
      <7> QED BY <7>2, <7>3
     <6> QED BY <6>2, <6>3
    <5> QED BY <2>1, <3>2, <5>1, <5>2 DEF ShareCounts
   <4> QED BY <4>1, <4>2
  <3> QED BY <1>2, <2>1, <3>1, <3>2 DEF ShareCounts
 <2> QED BY <2>2, <2>3
<1> QED BY <1>6, <1>7, <1>8 DEF EventBooks
-----------------------------
\* Ids of redemptions are drawn before they are used, by one request each.
RedeemIds ==
  /\ \A h \in Handlers : job[h].op = "redeem" => job[h].key \in issued
  /\ \A g, h \in Handlers :
        job[g].op = "redeem" /\ job[h].op = "redeem" /\ job[g].key = job[h].key => g = h
  /\ \A row \in CoinRows : row.key \in RedemptionIds => row.key \in issued
  /\ \A d \in redemptions : d.id \in RedemptionIds /\ d.id \in issued

\* How far a redemption is, and the rows it left so far.
RedeemFresh ==
  \A h \in Handlers : job[h].op = "redeem" =>
     /\ job[h].at \in {"add", "credit"} => ~OnBooks(job[h].key)
     /\ job[h].at = "add" => \A d \in redemptions : d.id # job[h].key
     /\ job[h].at \in {"credit", "complete"} => Redemption(h, "pending") \in redemptions
     /\ \E c \in codes : c.owner = job[h].referrer

\* The coins of redemption k are the referrer's, and nobody else's.
PaidFor(k, referrer) ==
  /\ Moved(RedemptionCredit([id |-> k, referrer |-> referrer]))
  /\ \A row \in CoinRows : row.key = k => row.account = referrer

\* Completed redemptions were paid, and rewards have their redemption.
RedeemMoney ==
  /\ \A h \in Handlers : Doing(h, "redeem", "complete") => PaidFor(job[h].key, job[h].referrer)
  /\ \A d \in redemptions : d.status = "completed" => PaidFor(d.id, d.referrer)
  /\ RedemptionsAccounted

\* The books of referrals.
RedeemBooks == RedeemIds /\ RedeemFresh /\ RedeemMoney

\* Referrals start with no redemption.
LEMMA RedeemBooksInit ==
  ASSUME PaymentsInit
  PROVE  RedeemBooks
<1>1. job = [h \in Handlers |-> Idle] /\ redemptions = {} /\ SeededLedger
  BY DEF PaymentsInit, HandlersInit, ReferralInit
<1>2. \A row \in CoinRows : row.key = SeedKey
 <2>1. ASSUME NEW a \in Accounts, NEW i \in DOMAIN SeedRows(a) PROVE SeedRows(a)[i].key = SeedKey
   BY DEF SeedRows
 <2> QED BY <1>1, <2>1, InCoins, CoinsAreCurrency DEF SeededLedger
<1>3. SeedKey \notin RedemptionIds BY SeedKeyFree, RedemptionsAreKeys
<1>4. \A h \in Handlers : job[h].op # "redeem" /\ ~Doing(h, "redeem", "complete") BY <1>1 DEF Idle, Doing
<1> QED BY <1>1, <1>2, <1>3, <1>4
        DEF RedeemBooks, RedeemIds, RedeemFresh, RedeemMoney, RedemptionsAccounted

\* A completed redemption has its credit in the ledger.
LEMMA RedeemAgrees ==
  ASSUME RedeemBooks
  PROVE  /\ RedemptionsAccounted
         /\ \A d \in redemptions : d.status = "completed" => Moved(RedemptionCredit(d))
  BY DEF RedeemBooks, RedeemMoney, PaidFor, Moved, RedemptionCredit, RowOf

\* Nobody else's step disturbs the redemptions.
LEMMA RedeemKept ==
  ASSUME Ground, RedeemBooks, Apart({"code", "redeem"}, RedemptionIds), UNCHANGED referralVars
  PROVE  RedeemBooks'
<1>1. /\ CoinRows \subseteq CoinRows'
      /\ \A row \in CoinRows' : row.key \in RedemptionIds => row \in CoinRows
      /\ redemptions' = redemptions /\ codes' = codes
      /\ issued \subseteq issued' /\ dropped \subseteq dropped'
      /\ \A h \in Handlers : job'[h].op = "redeem" => job'[h] = job[h]
  BY DEF Apart, referralVars
<1>2. \A h \in Handlers : job[h].op = "redeem" => job[h].key \in RedemptionIds
  BY JobKinds DEF Ground, RedeemJob
<1>3. RedeemIds' BY <1>1 DEF RedeemBooks, RedeemIds
<1>4. RedeemFresh' BY <1>1, <1>2 DEF RedeemBooks, RedeemFresh, OnBooks, Redemption
<1>5. ASSUME NEW k \in RedemptionIds, NEW a, PaidFor(k, a) PROVE PaidFor(k, a)'
  BY <1>1, <1>5 DEF PaidFor, Moved, RedemptionCredit, RowOf
<1>6. RedeemMoney'
 <2>1. ASSUME NEW h \in Handlers, Doing(h, "redeem", "complete")'
       PROVE  PaidFor(job[h].key, job[h].referrer)'
  <3>1. PICK k, a : k = job[h].key /\ a = job[h].referrer OBVIOUS
  <3>2. job'[h] = job[h] /\ k \in RedemptionIds /\ PaidFor(k, a)
    BY <1>1, <1>2, <2>1, <3>1 DEF Doing, RedeemBooks, RedeemMoney
  <3>3. PaidFor(k, a)' BY <1>5, <3>2
  <3> QED BY <3>1, <3>2, <3>3 DEF PaidFor, Moved, RedemptionCredit, RowOf
 <2>2. ASSUME NEW d \in redemptions', d.status = "completed"
       PROVE  PaidFor(d.id, d.referrer)'
   BY <1>1, <1>5, <2>2 DEF RedeemBooks, RedeemMoney, RedeemIds
 <2>3. ASSUME NEW k, InFlight("redeem", k, {"complete"})
       PROVE  InFlight("redeem", k, {"complete"})' \/ k \in dropped'
   BY <2>3 DEF InFlight, Apart
 <2>4. RedemptionsAccounted' BY <1>1, <2>3 DEF RedeemBooks, RedeemMoney, RedemptionsAccounted
 <2> QED BY <2>1, <2>2, <2>4 DEF RedeemMoney
<1> QED BY <1>3, <1>4, <1>6 DEF RedeemBooks

\* Handler h takes up a request for a code, or to redeem one.
ReferralStarts(h) ==
  \/ \E a \in Accounts : StartCode(h, a)
  \/ \E a \in Accounts, c \in codes : StartRedeem(h, a, c)

\* The referrals' own steps keep their books.
LEMMA RedeemStepKeeps ==
  ASSUME Ground, Ground', RedeemBooks, NEW h \in Handlers, ReferralStep(h) \/ ReferralStarts(h),
         Within(h, {"code", "redeem"}, RedemptionIds)
  PROVE  RedeemBooks'
<1> DEFINE k == job[h].key
<1>1. /\ job \in [Handlers -> Jobs] /\ Idle.op = "none"
      /\ \A g \in Handlers \ {h} : job'[g] = job[g]
      /\ CoinRows \subseteq CoinRows' /\ issued \subseteq issued'
  BY DEF Ground, Typed, Idle, Within, Grown
<1>2. dropped' = dropped /\ codes \subseteq codes'
  BY DEF ReferralStep, ReferralStarts, AddCode, AddRedemption, CreditReferrer, CompleteRedemption,
     StartCode, StartRedeem, Accept, Goto, Finish, referralVars
<1>3. /\ \A g \in Handlers : job[g].op = "redeem" => job[g] \in RedeemJob
      /\ ReferralStarts(h) => job[h] = Idle
      /\ AddCode(h) => job[h].op = "code" /\ job'[h] = Idle
      /\ AddRedemption(h) => /\ Doing(h, "redeem", "add") /\ job[h] \in RedeemJob
                             /\ job'[h] = [job[h] EXCEPT !.at = "credit"]
      /\ CreditReferrer(h) => /\ Doing(h, "redeem", "credit") /\ job[h] \in RedeemJob
                              /\ job'[h] = [job[h] EXCEPT !.at = "complete"]
      /\ CompleteRedemption(h) => /\ Doing(h, "redeem", "complete") /\ job[h] \in RedeemJob
                                  /\ job'[h] = Idle
 <2>1. \A g \in Handlers : job[g].op = "redeem" => job[g] \in RedeemJob BY JobKinds DEF Ground
 <2>2. ReferralStarts(h) => job[h] = Idle BY DEF ReferralStarts, StartCode, StartRedeem, Accept, Ready
 <2> QED BY <1>1, <2>1, <2>2 DEF AddCode, AddRedemption, CreditReferrer, CompleteRedemption, Doing,
            Goto, Finish
<1>4. /\ \A row \in CoinRows' \ CoinRows : CreditReferrer(h) /\ row.key = k /\ row.account = job[h].referrer
      /\ CreditReferrer(h) => \E row \in CoinRows' \ CoinRows :
            row = RowOf(RedemptionCredit([id |-> k, referrer |-> job[h].referrer]), row.balanceAfter)
 <2>1. CASE CreditReferrer(h)
  <3>1. PICK r : r = RedemptionCredit(Redemption(h, "pending")) OBVIOUS
  <3>2. /\ Settle(r) /\ CoinMove(r) /\ r.direction = "credit" /\ r.key = k
        /\ r.account = job[h].referrer
        /\ r = RedemptionCredit([id |-> k, referrer |-> job[h].referrer])
    BY <1>3, <2>1, <3>1, CallsTyped DEF CreditReferrer, RedemptionCredit, Redemption, RedeemJob
  <3>3. Entered(r) /\ Booked(r.account, r.key)' BY <3>2, Settled DEF Ground
  <3>4. ~OnBooks(k) BY <1>3, <2>1 DEF Doing, RedeemBooks, RedeemFresh
  <3>5. PICK row \in CoinRows' : row.key = k BY <3>2, <3>3 DEF Booked
  <3>6. row \notin CoinRows BY <3>4, <3>5 DEF OnBooks
  <3> QED BY <2>1, <3>2, <3>3, <3>5, <3>6 DEF Entered, RowOf
 <2>2. CASE ~CreditReferrer(h)
  <3>1. UNCHANGED ledgerVars
    BY <2>2 DEF ReferralStep, ReferralStarts, AddCode, AddRedemption, CompleteRedemption, StartCode,
       StartRedeem
  <3> QED BY <2>2, <3>1 DEF ledgerVars, CoinRows
 <2> QED BY <2>1, <2>2
<1>5. /\ AddRedemption(h) => redemptions' = redemptions \cup {Redemption(h, "pending")}
      /\ CompleteRedemption(h) =>
           redemptions' = (redemptions \ {Redemption(h, "pending")}) \cup {Redemption(h, "completed")}
      /\ ~AddRedemption(h) /\ ~CompleteRedemption(h) => redemptions' = redemptions
      /\ \A s : Redemption(h, s).id = k /\ Redemption(h, s).referrer = job[h].referrer
                /\ Redemption(h, s).status = s
  BY DEF ReferralStep, ReferralStarts, AddCode, AddRedemption, CreditReferrer, CompleteRedemption,
     StartCode, StartRedeem, referralVars, Redemption
<1>6. ReferralStarts(h) =>
        \/ job'[h].op # "redeem"
        \/ \E q \in RedemptionIds \ issued, c \in codes :
              /\ q \in issued'
              /\ job'[h].op = "redeem" /\ job'[h].at = "add" /\ job'[h].key = q
              /\ job'[h].referrer = c.owner
 <2>1. ASSUME NEW a \in Accounts, StartCode(h, a) PROVE job'[h].op # "redeem"
   BY <1>1, <2>1 DEF StartCode, Accept
 <2>2. ASSUME NEW a \in Accounts, NEW c \in codes, StartRedeem(h, a, c)
       PROVE  \E q \in RedemptionIds \ issued :
                /\ q \in issued'
                /\ job'[h].op = "redeem" /\ job'[h].at = "add" /\ job'[h].key = q
                /\ job'[h].referrer = c.owner
  <3>1. PICK q \in RedemptionIds \ issued :
          /\ Accept(h, [op |-> "redeem", at |-> "add", key |-> q,
                        referee |-> a, referrer |-> c.owner])
          /\ issued' = issued \cup {q}
    BY <2>2 DEF StartRedeem
  <3>2. job'[h] = [op |-> "redeem", at |-> "add", key |-> q, referee |-> a, referrer |-> c.owner]
    BY <1>1, <3>1 DEF Accept
  <3> QED BY <3>1, <3>2
 <2> QED BY <2>1, <2>2 DEF ReferralStarts
<1>7. /\ ReferralStep(h) /\ job'[h].op = "redeem" =>
           /\ AddRedemption(h) \/ CreditReferrer(h)
           /\ job[h] \in RedeemJob /\ job[h].op = "redeem"
           /\ job'[h].key = k /\ job'[h].referrer = job[h].referrer /\ job'[h].referee = job[h].referee
      /\ AddRedemption(h) \/ CreditReferrer(h) \/ CompleteRedemption(h) =>
           k \in RedemptionIds /\ k \in issued /\ job[h].op = "redeem"
      /\ AddRedemption(h) => job'[h].at = "credit"
      /\ CreditReferrer(h) => job'[h].at = "complete" /\ job'[h].op = "redeem" /\ job'[h].key = k
 <2>1. ReferralStep(h) /\ job'[h].op = "redeem" => AddRedemption(h) \/ CreditReferrer(h)
   BY <1>1, <1>3 DEF ReferralStep
 <2>2. AddRedemption(h) \/ CreditReferrer(h) =>
          /\ job'[h].key = k /\ job'[h].referrer = job[h].referrer /\ job'[h].referee = job[h].referee
          /\ job'[h].op = "redeem" /\ job[h].op = "redeem" /\ job[h] \in RedeemJob
          /\ AddRedemption(h) => job'[h].at = "credit"
          /\ CreditReferrer(h) => job'[h].at = "complete"
   BY <1>3 DEF RedeemJob, Doing
 <2>3. AddRedemption(h) \/ CreditReferrer(h) \/ CompleteRedemption(h) =>
          k \in RedemptionIds /\ k \in issued /\ job[h].op = "redeem"
   BY <1>3 DEF RedeemJob, Doing, RedeemBooks, RedeemIds
 <2> QED BY <2>1, <2>2, <2>3
<1>8. RedeemIds'
 <2>1. ASSUME NEW g \in Handlers, job'[g].op = "redeem" PROVE job'[g].key \in issued'
   BY <1>1, <1>6, <1>7, <2>1 DEF RedeemBooks, RedeemIds
 <2>2. ASSUME NEW e \in Handlers \ {h}, job'[e].op = "redeem", job'[h].op = "redeem"
       PROVE  job'[e].key # job'[h].key
  <3>1. job'[e] = job[e] /\ job[e].op = "redeem" /\ job[e].key \in issued
    BY <1>1, <2>2 DEF RedeemBooks, RedeemIds
  <3>2. CASE ReferralStep(h) BY <1>7, <2>2, <3>1, <3>2 DEF RedeemBooks, RedeemIds
  <3>3. CASE ReferralStarts(h) BY <1>6, <2>2, <3>1, <3>3
  <3> QED BY <3>2, <3>3
 <2>3. ASSUME NEW f \in Handlers, NEW g \in Handlers, job'[f].op = "redeem", job'[g].op = "redeem",
              job'[f].key = job'[g].key
       PROVE  f = g
   BY <1>1, <2>2, <2>3 DEF RedeemBooks, RedeemIds
 <2>4. \A row \in CoinRows' : row.key \in RedemptionIds => row.key \in issued'
   BY <1>1, <1>4, <1>7 DEF RedeemBooks, RedeemIds
 <2>5. \A d \in redemptions' : d.id \in RedemptionIds /\ d.id \in issued'
   BY <1>1, <1>5, <1>7 DEF RedeemBooks, RedeemIds
 <2> QED BY <2>1, <2>3, <2>4, <2>5 DEF RedeemIds
<1>9. \A d \in redemptions' \ redemptions :
         (AddRedemption(h) \/ CompleteRedemption(h)) /\ d.id = k /\ d.referrer = job[h].referrer
  BY <1>5
<1>10. RedeemFresh'
 <2>1. ASSUME NEW g \in Handlers \ {h}, job'[g].op = "redeem"
       PROVE  /\ job'[g] = job[g] /\ job[g].op = "redeem"
              /\ job[h].op = "redeem" => job[g].key # k
   BY <1>1, <2>1 DEF RedeemBooks, RedeemIds
 <2>2. ASSUME NEW g \in Handlers, job'[g].op = "redeem", job'[g].at \in {"add", "credit"}
       PROVE  \A row \in CoinRows' : row.key # job'[g].key
  <3>1. CASE g # h
   <4>1. \A row \in CoinRows : row.key # job[g].key
     BY <2>1, <2>2, <3>1 DEF RedeemBooks, RedeemFresh, OnBooks
   <4> QED BY <1>4, <1>7, <2>1, <2>2, <3>1, <4>1
  <3>2. CASE g = h /\ ReferralStep(h)
   <4>1. AddRedemption(h) /\ job'[h].key = k BY <1>7, <2>2, <3>2
   <4>2. CoinRows' \subseteq CoinRows BY <1>3, <1>4, <4>1 DEF Doing
   <4> QED BY <1>3, <3>2, <4>1, <4>2 DEF RedeemBooks, RedeemFresh, OnBooks, Doing
  <3>3. CASE g = h /\ ReferralStarts(h)
   <4>1. PICK q \in RedemptionIds \ issued : job'[h].key = q BY <1>6, <2>2, <3>3
   <4>2. CoinRows' \subseteq CoinRows BY <1>1, <1>3, <1>4, <3>3 DEF Doing
   <4> QED BY <3>3, <4>1, <4>2 DEF RedeemBooks, RedeemIds
  <3> QED BY <3>1, <3>2, <3>3
 <2>3. ASSUME NEW g \in Handlers, job'[g].op = "redeem", job'[g].at = "add",
              NEW d \in redemptions'
       PROVE  d.id # job'[g].key
  <3>1. CASE g # h
   <4>1. \A e \in redemptions : e.id # job[g].key BY <2>1, <2>3, <3>1 DEF RedeemBooks, RedeemFresh
   <4> QED BY <1>7, <1>9, <2>1, <2>3, <3>1, <4>1
  <3>2. CASE g = h /\ ReferralStarts(h)
   <4>1. PICK q \in RedemptionIds \ issued : job'[h].key = q BY <1>6, <2>3, <3>2
   <4>2. redemptions' \subseteq redemptions BY <1>1, <1>3, <1>9, <3>2 DEF Doing
   <4> QED BY <3>2, <4>1, <4>2 DEF RedeemBooks, RedeemIds
  <3>3. CASE g = h /\ ReferralStep(h) BY <1>7, <2>3, <3>3
  <3> QED BY <3>1, <3>2, <3>3
 <2>4. ASSUME NEW g \in Handlers, job'[g].op = "redeem", job'[g].at \in {"credit", "complete"}
       PROVE  Redemption(g, "pending")' \in redemptions'
  <3>1. CASE g # h
   <4>1. Redemption(g, "pending") \in redemptions /\ Redemption(g, "pending").id = job[g].key
     BY <2>1, <2>4, <3>1 DEF RedeemBooks, RedeemFresh, Redemption
   <4>2. Redemption(g, "pending") \in redemptions' BY <1>5, <1>7, <2>1, <2>4, <3>1, <4>1
   <4> QED BY <2>1, <2>4, <3>1, <4>2 DEF Redemption
  <3>2. CASE g = h
   <4>1. ReferralStep(h) BY <1>6, <2>4, <3>2
   <4>2. /\ AddRedemption(h) \/ CreditReferrer(h)
         /\ Redemption(h, "pending")' = Redemption(h, "pending")
     BY <1>7, <2>4, <3>2, <4>1 DEF Redemption
   <4>3. CreditReferrer(h) => Redemption(h, "pending") \in redemptions
     BY <1>3 DEF Doing, RedeemBooks, RedeemFresh
   <4>4. ~CompleteRedemption(h) BY <1>1, <1>3, <2>4, <3>2
   <4> QED BY <1>5, <3>2, <4>2, <4>3, <4>4
  <3> QED BY <3>1, <3>2
 <2>5. ASSUME NEW g \in Handlers, job'[g].op = "redeem"
       PROVE  \E c \in codes' : c.owner = job'[g].referrer
  <3>1. CASE g # h BY <1>2, <2>1, <2>5, <3>1 DEF RedeemBooks, RedeemFresh
  <3>2. CASE g = h /\ ReferralStep(h) BY <1>2, <1>7, <2>5, <3>2 DEF RedeemBooks, RedeemFresh
  <3>3. CASE g = h /\ ReferralStarts(h) BY <1>2, <1>6, <2>5, <3>3
  <3> QED BY <3>1, <3>2, <3>3
 <2> QED BY <2>2, <2>3, <2>4, <2>5 DEF RedeemFresh, OnBooks
<1>11. ASSUME NEW q, NEW a, PaidFor(q, a), CreditReferrer(h) => q # k PROVE PaidFor(q, a)'
  BY <1>1, <1>4, <1>11 DEF PaidFor, Moved, RedemptionCredit, RowOf
<1>12. RedeemMoney'
 <2>1. ASSUME NEW g \in Handlers, Doing(g, "redeem", "complete")'
       PROVE  PaidFor(job[g].key, job[g].referrer)'
  <3>1. PICK q, a : q = job'[g].key /\ a = job'[g].referrer OBVIOUS
  <3>2. PaidFor(q, a)'
   <4>1. CASE g # h
    <5>1. /\ job'[g] = job[g] /\ Doing(g, "redeem", "complete")
          /\ job[h].op = "redeem" => job[g].key # k
      BY <1>1, <2>1, <4>1 DEF Doing, RedeemBooks, RedeemIds
    <5>2. PaidFor(q, a) BY <3>1, <5>1 DEF RedeemBooks, RedeemMoney
    <5> QED BY <1>7, <1>11, <3>1, <5>1, <5>2
   <4>2. CASE g = h
    <5>1. CreditReferrer(h) /\ q = k /\ a = job[h].referrer BY <1>6, <1>7, <2>1, <3>1, <4>2 DEF Doing
    <5>2. \E row \in CoinRows' :
            row = RowOf(RedemptionCredit([id |-> q, referrer |-> a]), row.balanceAfter)
      BY <1>4, <5>1
    <5>3. \A row \in CoinRows' : row.key = q => row.account = a
      BY <1>3, <1>4, <5>1 DEF Doing, RedeemBooks, RedeemFresh, OnBooks
    <5> QED BY <5>2, <5>3 DEF PaidFor, Moved
   <4> QED BY <4>1, <4>2
  <3> QED BY <3>1, <3>2 DEF PaidFor, Moved, RedemptionCredit, RowOf
 <2>2. ASSUME NEW d \in redemptions', d.status = "completed"
       PROVE  PaidFor(d.id, d.referrer)'
  <3>1. CASE d \in redemptions
   <4>1. PaidFor(d.id, d.referrer) BY <2>2, <3>1 DEF RedeemBooks, RedeemMoney
   <4>2. CreditReferrer(h) => d.id # k
     BY <1>3, <4>1 DEF PaidFor, Moved, RowOf, RedemptionCredit, Doing, RedeemBooks, RedeemFresh, OnBooks
   <4> QED BY <1>11, <4>1, <4>2
  <3>2. CASE d \notin redemptions
   <4>1. CompleteRedemption(h) /\ d.id = k /\ d.referrer = job[h].referrer BY <1>5, <1>9, <2>2, <3>2
   <4>2. PaidFor(d.id, d.referrer) /\ ~CreditReferrer(h) BY <1>3, <4>1 DEF RedeemBooks, RedeemMoney, Doing
   <4> QED BY <1>11, <4>2
  <3> QED BY <3>1, <3>2
 <2>3. ASSUME NEW row \in CoinRows', row.key \in RedemptionIds
       PROVE  \E d \in redemptions' :
                /\ d.id = row.key /\ d.referrer = row.account
                /\ \E c \in codes' : c.owner = row.account
                /\ \/ d.status = "completed"
                   \/ InFlight("redeem", d.id, {"complete"})'
                   \/ d.id \in dropped'
  <3>1. CASE row \in CoinRows
   <4>1. PICK d \in redemptions :
           /\ d.id = row.key /\ d.referrer = row.account
           /\ \E c \in codes : c.owner = row.account
           /\ \/ d.status = "completed"
              \/ InFlight("redeem", d.id, {"complete"})
              \/ d.id \in dropped
     BY <2>3, <3>1 DEF RedeemBooks, RedeemMoney, RedemptionsAccounted
   <4>2. CASE CompleteRedemption(h) /\ d.id = k
    <5>1. row.account = job[h].referrer BY <1>3, <3>1, <4>1, <4>2 DEF RedeemBooks, RedeemMoney, PaidFor
    <5>2. Redemption(h, "completed") \in redemptions' BY <1>5, <4>2
    <5> QED BY <1>2, <1>5, <4>1, <4>2, <5>1, <5>2
   <4>3. CASE ~(CompleteRedemption(h) /\ d.id = k)
    <5>1. d \in redemptions' BY <1>5, <4>3
    <5>2. ASSUME InFlight("redeem", d.id, {"complete"}) PROVE InFlight("redeem", d.id, {"complete"})'
     <6>1. PICK g \in Handlers : job[g].op = "redeem" /\ job[g].key = d.id /\ job[g].at = "complete"
       BY <5>2 DEF InFlight
     <6>2. g # h BY <1>1, <1>3, <4>3, <6>1 DEF ReferralStep, Doing
     <6> QED BY <1>1, <6>1, <6>2 DEF InFlight
    <5> QED BY <1>2, <4>1, <5>1, <5>2
   <4> QED BY <4>2, <4>3
  <3>2. CASE row \notin CoinRows
   <4>1. CreditReferrer(h) /\ row.key = k /\ row.account = job[h].referrer BY <1>4, <3>2
   <4>2. Redemption(h, "pending") \in redemptions' /\ \E c \in codes : c.owner = job[h].referrer
     BY <1>3, <1>5, <4>1 DEF Doing, RedeemBooks, RedeemFresh
   <4>3. PICK d : d = Redemption(h, "pending") OBVIOUS
   <4>4. d \in redemptions' /\ d.id = row.key /\ d.referrer = row.account BY <1>5, <4>1, <4>2, <4>3
   <4>5. InFlight("redeem", d.id, {"complete"})' BY <1>7, <4>1, <4>4 DEF InFlight
   <4> QED BY <1>2, <4>1, <4>2, <4>4, <4>5
  <3> QED BY <3>1, <3>2
 <2>4. RedemptionsAccounted' BY <2>3 DEF RedemptionsAccounted
 <2> QED BY <2>1, <2>2, <2>4 DEF RedeemMoney
<1> QED BY <1>8, <1>10, <1>12 DEF RedeemBooks
-----------------------------
\* The inductive invariant: the ground, and the books of each flow.
PaymentsInv == Ground /\ OrderBooks /\ StoreBooks /\ EventBooks /\ RedeemBooks

\* The invariant holds at the start.
LEMMA PaymentsStart == PaymentsInit => PaymentsInv
<1> SUFFICES ASSUME PaymentsInit PROVE PaymentsInv OBVIOUS
<1>1. /\ job = [h \in Handlers |-> Idle] /\ notices = [k \in Ids |-> 0] /\ time = 0
      /\ orders = [o \in Orders |-> NoOrder] /\ progress = [a \in Accounts |-> NoProgress]
      /\ shares = [a \in Accounts |-> 0] /\ codes = {[id |-> "old", owner |-> a] : a \in CodeOwners}
      /\ SeededLedger
  BY DEF PaymentsInit, HandlersInit, RechargeInit, EventsInit, ReferralInit
<1>2. Idle \in Jobs /\ Idle.op = "none" /\ ~Past(Idle) BY DEF Idle, Jobs, Past
<1>3. Typed
  BY <1>1, <1>2, CodeOwnersKnown, TargetPositive DEF Typed, KeysOfRewards, TablesTyped, NoProgress,
     ProgressRow
<1>4. Announced BY <1>1, <1>2 DEF Announced
<1>5. Ground BY <1>1, <1>3, <1>4, BooksInit DEF Ground
<1> QED BY <1>5, OrdersInit, StoreBooksInit, EventBooksInit, RedeemBooksInit DEF PaymentsInv

\* The ground, and a step outside a flow, keep the books of that flow.
LEMMA OthersKept ==
  ASSUME PaymentsInv, Ground'
  PROVE  /\ Apart({"recharge"}, Orders) /\ orders' = orders => OrderBooks'
         /\ Apart({"store", "handout"}, StoreKeys) /\ UNCHANGED storeVars => StoreBooks'
         /\ Apart({"share", "claim"}, RewardKeys) /\ UNCHANGED eventVars => EventBooks'
         /\ Apart({"code", "redeem"}, RedemptionIds) /\ UNCHANGED referralVars => RedeemBooks'
  BY OrdersKept, StoreKept, EventsKept, RedeemKept DEF PaymentsInv

\* Every step keeps it: its own flow's lemma, and OthersKept for the others.
LEMMA PaymentsStep == PaymentsInv /\ [PaymentsNext]_paymentVars => PaymentsInv'
<1> SUFFICES ASSUME PaymentsInv, [PaymentsNext]_paymentVars PROVE PaymentsInv' OBVIOUS
<1>1. Ground /\ OrderBooks /\ StoreBooks /\ EventBooks /\ RedeemBooks BY DEF PaymentsInv
<1>2. ASSUME NEW h \in Handlers, StartComplete(h) \/ RechargeStep(h),
             UNCHANGED <<storeVars, eventVars, referralVars>>
      PROVE  PaymentsInv'
 <2>1. Ground' /\ Within(h, {"recharge"}, Orders) BY <1>1, <1>2, RechargeGround DEF OrderBooks
 <2>2. OrderBooks' BY <1>1, <1>2, <2>1, OrdersStep
 <2>3. /\ Apart({"store", "handout"}, StoreKeys) /\ Apart({"share", "claim"}, RewardKeys)
       /\ Apart({"code", "redeem"}, RedemptionIds)
   BY <2>1, WithinIsApart, Kinds
 <2> QED BY <1>2, <2>1, <2>2, <2>3, OthersKept DEF PaymentsInv
<1>3. ASSUME NEW h \in Handlers, StoreStep(h) \/ StoreStarts(h),
             UNCHANGED <<rechargeVars, eventVars, referralVars>>
      PROVE  PaymentsInv'
 <2>1. Ground' /\ Within(h, {"store", "handout"}, StoreKeys) BY <1>1, <1>3, StoreGround DEF StoreStarts
 <2>2. StoreBooks' BY <1>1, <1>3, <2>1, StoreStepKeeps
 <2>3. /\ Apart({"recharge"}, Orders) /\ Apart({"share", "claim"}, RewardKeys)
       /\ Apart({"code", "redeem"}, RedemptionIds)
   BY <2>1, WithinIsApart, Kinds
 <2>4. orders' = orders BY <1>3 DEF rechargeVars
 <2> QED BY <1>3, <2>1, <2>2, <2>3, <2>4, OthersKept DEF PaymentsInv
<1>4. ASSUME NEW h \in Handlers, GuardStep(h) \/ \E fan, host \in Accounts : StartGuard(h, fan, host),
             UNCHANGED <<rechargeVars, storeVars, eventVars, referralVars>>
      PROVE  PaymentsInv'
 <2>1. Ground' /\ Within(h, {"guard"}, GuardIds) BY <1>1, <1>4, GuardGround
 <2>2. /\ Apart({"recharge"}, Orders) /\ Apart({"share", "claim"}, RewardKeys)
       /\ Apart({"store", "handout"}, StoreKeys) /\ Apart({"code", "redeem"}, RedemptionIds)
   BY <2>1, WithinIsApart, Kinds
 <2>3. orders' = orders BY <1>4 DEF rechargeVars
 <2> QED BY <1>4, <2>1, <2>2, <2>3, OthersKept DEF PaymentsInv
<1>5. ASSUME NEW h \in Handlers,
             EventStep(h) \/ \E a \in Accounts : StartShare(h, a) \/ StartClaim(h, a),
             UNCHANGED <<rechargeVars, storeVars, referralVars>>
      PROVE  PaymentsInv'
 <2>1. Ground' /\ Within(h, {"share", "claim"}, RewardKeys) BY <1>1, <1>5, EventGround
 <2>2. EventBooks' BY <1>1, <1>5, <2>1, EventStepKeeps
 <2>3. /\ Apart({"recharge"}, Orders) /\ Apart({"store", "handout"}, StoreKeys)
       /\ Apart({"code", "redeem"}, RedemptionIds)
   BY <2>1, WithinIsApart, Kinds
 <2>4. orders' = orders BY <1>5 DEF rechargeVars
 <2> QED BY <1>5, <2>1, <2>2, <2>3, <2>4, OthersKept DEF PaymentsInv
<1>6. ASSUME NEW h \in Handlers, ReferralStep(h) \/ ReferralStarts(h),
             UNCHANGED <<rechargeVars, storeVars, eventVars>>
      PROVE  PaymentsInv'
 <2>1. Ground' /\ Within(h, {"code", "redeem"}, RedemptionIds)
   BY <1>1, <1>6, ReferralGround DEF ReferralStarts
 <2>2. RedeemBooks' BY <1>1, <1>6, <2>1, RedeemStepKeeps
 <2>3. /\ Apart({"recharge"}, Orders) /\ Apart({"share", "claim"}, RewardKeys)
       /\ Apart({"store", "handout"}, StoreKeys)
   BY <2>1, WithinIsApart, Kinds
 <2>4. orders' = orders BY <1>6 DEF rechargeVars
 <2> QED BY <1>6, <2>1, <2>2, <2>3, <2>4, OthersKept DEF PaymentsInv
<1>7. ASSUME \/ Outside \/ UNCHANGED paymentVars
             \/ (\E a \in Accounts : CreateOrder(a)) /\ UNCHANGED <<storeVars, eventVars, referralVars>>
      PROVE  PaymentsInv'
 <2>1. /\ \/ Outside \/ UNCHANGED paymentVars
          \/ (\E a \in Accounts : CreateOrder(a)) /\ UNCHANGED <<eventVars, referralVars>>
       /\ UNCHANGED <<storeVars, eventVars, referralVars>>
   BY <1>7 DEF Outside, paymentVars
 <2>2. /\ Ground' /\ Apart({"recharge"}, Orders) /\ Apart({"store", "handout"}, StoreKeys)
       /\ Apart({"share", "claim"}, RewardKeys) /\ Apart({"code", "redeem"}, RedemptionIds)
   BY <1>1, <2>1, OutsideGround
 <2>3. OrderBooks'
  <3>1. CASE \E a \in Accounts : CreateOrder(a) BY <1>1, <3>1, OrdersCreated
  <3>2. CASE Outside \/ UNCHANGED paymentVars
   <4>1. orders' = orders BY <3>2 DEF Outside, paymentVars, rechargeVars
   <4> QED BY <2>2, <4>1, OthersKept
  <3> QED BY <1>7, <3>1, <3>2
 <2> QED BY <2>1, <2>2, <2>3, OthersKept DEF PaymentsInv
<1>8. CASE Recharging BY <1>2, <1>7, <1>8 DEF Recharging, RechargeNext
<1>9. CASE Buying BY <1>3, <1>9 DEF Buying, StoreStarts
<1>10. CASE Guarding BY <1>4, <1>10 DEF Guarding
<1>11. CASE Rewarding BY <1>5, <1>11 DEF Rewarding
<1>12. CASE Referring BY <1>6, <1>12 DEF Referring, ReferralStarts
<1> QED BY <1>7, <1>8, <1>9, <1>10, <1>11, <1>12 DEF PaymentsNext

\* So it holds in every reachable state.
LEMMA PaymentsInvariant == PaymentsSpec => []PaymentsInv
<1> QED BY PaymentsStart, PaymentsStep, PTL DEF PaymentsSpec

\* An order is completed only when its coins are in the ledger, and coins in the
\* ledger belong to an order that is completed, will be, or whose request was
\* cut off (recharge.service.js:47-82).
THEOREM OrdersSettled == PaymentsSpec => []OrderSettled
<1>1. PaymentsInv => OrderSettled BY OrdersSettle DEF PaymentsInv
<1> QED BY <1>1, PaymentsInvariant, PTL

\* Nothing is handed out, completed or announced without the coins behind it;
\* what was paid for arrives, and what staff gave is in the audit log, short of
\* requests under way or cut off (store.service.js:29-34).
THEOREM DeliveriesArePaid == PaymentsSpec => []DeliveriesPaid
<1>1. ASSUME PaymentsInv PROVE DeliveriesPaid
 <2>1. NothingFree
  <3>1. \A item \in inventory : item.source = "store_purchase" => Moved(StoreDebit(item.account, item.ref))
    BY <1>1 DEF PaymentsInv, StoreBooks, StoreGoods
  <3>2. \A d \in redemptions : d.status = "completed" => Moved(RedemptionCredit(d))
    BY <1>1, RedeemAgrees DEF PaymentsInv
  <3>3. \A k \in Ids : notices[k] > 0 => \E row \in CoinRows : row.key = k
    BY <1>1 DEF PaymentsInv, Ground, Announced, OnBooks
  <3> QED BY <3>1, <3>2, <3>3 DEF NothingFree
 <2>2. DebitsDelivered BY <1>1 DEF PaymentsInv, StoreBooks, StoreGoods
 <2>3. HandoutsNoted BY <1>1, NotesAgree DEF PaymentsInv
 <2> QED BY <2>1, <2>2, <2>3 DEF DeliveriesPaid
<1> QED BY <1>1, PaymentsInvariant, PTL

\* A reward is paid once, for a claimed mission; no share is counted that was not
\* made; and every referral reward has its record, for a code its owner had
\* (event.service.js:172-209, referral.service.js:28-45).
THEOREM RewardsArePaid == PaymentsSpec => []RewardsPaid
<1>1. PaymentsInv => RewardsPaid BY EventsAgree, RedeemAgrees DEF PaymentsInv, RewardsPaid
<1> QED BY <1>1, PaymentsInvariant, PTL
-----------------------------
\* The last threshold an amount reaches is there, and a larger amount does not
\* reach an earlier one (vip-tiers.js:29-36).
LEMMA TierReached ==
  ASSUME NEW steps \in {VipSteps, SvipSteps}, NEW amount \in Nat
  PROVE  \E i \in DOMAIN steps : /\ amount >= steps[i]
                                 /\ \A k \in DOMAIN steps : amount >= steps[k] => k <= i
<1>1. steps \in Seq(Nat) /\ steps # <<>> /\ steps[1] = 0 BY StepsFromZero
<1>2. PICK n \in Nat : n = Len(steps) /\ DOMAIN steps = 1..n /\ n >= 1 BY <1>1
<1> DEFINE Reach == {i \in 1..n : amount >= steps[i]}
           Above == {i..n : i \in Reach}
<1>3. 1 \in Reach BY <1>1, <1>2
<1>4. IsFiniteSet(1..n) /\ Above \subseteq SUBSET (1..n) /\ Above # {}
 <2>1. IsFiniteSet(1..n) BY FS_Interval
 <2>2. \A i \in Reach : i..n \subseteq 1..n OBVIOUS
 <2> QED BY <1>3, <2>1, <2>2
<1>5. PICK T \in Above : \A U \in Above : U \subseteq T => U = T
 <2> DEFINE S == 1..n
 <2>1. IsFiniteSet(S) /\ Above \subseteq SUBSET S /\ Above # {} BY <1>4
 <2> HIDE DEF Above, S
 <2> QED BY <2>1, MinimalSet
<1>6. PICK i \in Reach : T = i..n BY <1>5
<1>7. ASSUME NEW k \in Reach PROVE k <= i
 <2> SUFFICES ASSUME k > i PROVE FALSE OBVIOUS
 <2>1. k..n \in Above OBVIOUS
 <2>2. k..n \subseteq i..n OBVIOUS
 <2>3. k..n = i..n BY <1>5, <1>6, <2>1, <2>2
 <2>4. i \in i..n /\ i \notin k..n OBVIOUS
 <2> QED BY <2>3, <2>4
<1>8. i \in DOMAIN steps /\ amount >= steps[i] BY <1>2
<1>9. \A k \in DOMAIN steps : amount >= steps[k] => k <= i BY <1>2, <1>7
<1> QED BY <1>8, <1>9

\* More coins never make for a lower tier.
LEMMA TierRises ==
  ASSUME NEW steps \in {VipSteps, SvipSteps}, NEW m \in Nat, NEW n \in Nat, m <= n
  PROVE  TierFor(m, steps) <= TierFor(n, steps)
<1> DEFINE Last(amount, i) == /\ amount >= steps[i]
                              /\ \A k \in DOMAIN steps : amount >= steps[k] => k <= i
<1>1. steps \in Seq(Nat) BY StepsFromZero
<1>2. PICK i : i \in DOMAIN steps /\ Last(m, i) /\ TierFor(m, steps) = i - 1
 <2>1. \E i \in DOMAIN steps : Last(m, i) BY TierReached
 <2> QED BY <2>1 DEF TierFor
<1>3. PICK k : k \in DOMAIN steps /\ Last(n, k) /\ TierFor(n, steps) = k - 1
 <2>1. \E k \in DOMAIN steps : Last(n, k) BY TierReached
 <2> QED BY <2>1 DEF TierFor
<1>4. n >= steps[i] BY <1>1, <1>2
<1>5. i <= k BY <1>2, <1>3, <1>4
<1>6. i \in Nat /\ k \in Nat
 <2>1. DOMAIN steps = 1..Len(steps) BY <1>1
 <2> QED BY <1>2, <1>3, <2>1
<1> QED BY <1>2, <1>3, <1>5, <1>6
-----------------------------
\* A set that grows by one member at most adds at most one unit.
LEMMA OneMore ==
  ASSUME NEW unit \in Nat, NEW S, NEW T, NEW x, IsFiniteSet(S), T \subseteq S \cup {x}
  PROVE  /\ unit * Cardinality(S) \in Nat /\ unit * Cardinality(T) \in Nat
         /\ unit * Cardinality(T) <= unit * Cardinality(S) + unit
         /\ T \subseteq S => unit * Cardinality(T) <= unit * Cardinality(S)
         /\ x \notin S /\ T = S \cup {x} => unit * Cardinality(T) = unit * Cardinality(S) + unit
<1>1. IsFiniteSet(S \cup {x}) /\ Cardinality(S) \in Nat
      /\ Cardinality(S \cup {x}) = IF x \in S THEN Cardinality(S) ELSE Cardinality(S) + 1
  BY FS_AddElement, FS_CardinalityType
<1>2. IsFiniteSet(T) /\ Cardinality(T) \in Nat /\ Cardinality(T) <= Cardinality(S \cup {x})
  BY <1>1, FS_Subset, FS_CardinalityType
<1>3. T \subseteq S => Cardinality(T) <= Cardinality(S) BY FS_Subset
<1> DEFINE s == Cardinality(S)
           t == Cardinality(T)
<1>4. s \in Nat /\ t \in Nat /\ t <= s + 1 /\ (T \subseteq S => t <= s)
      /\ (x \notin S /\ T = S \cup {x} => t = s + 1)
 <2>1. PICK u : u = Cardinality(S \cup {x}) OBVIOUS
 <2>2. u = s \/ u = s + 1 BY <1>1, <2>1
 <2>3. x \notin S => u = s + 1 BY <1>1, <2>1
 <2>4. s \in Nat /\ t \in Nat /\ t <= u BY <1>1, <1>2, <2>1
 <2>5. T = S \cup {x} => t = u BY <2>1
 <2>6. T \subseteq S => t <= s BY <1>3
 <2> HIDE DEF s, t
 <2> QED BY <2>2, <2>3, <2>4, <2>5, <2>6
<1> HIDE DEF s, t
<1>5. \A i, j \in Nat : i <= j => unit * i <= unit * j OBVIOUS
<1>6. \A i \in Nat : unit * i \in Nat /\ unit * (i + 1) = unit * i + unit OBVIOUS
<1>7. unit * s \in Nat /\ unit * t \in Nat /\ unit * t <= unit * s + unit BY <1>4, <1>5, <1>6
<1>8. T \subseteq S => unit * t <= unit * s BY <1>4, <1>5
<1>9. x \notin S /\ T = S \cup {x} => unit * t = unit * s + unit BY <1>4, <1>6
<1> QED BY <1>7, <1>8, <1>9 DEF s, t
-----------------------------
\* Ids come from the server; goods and records are of their tables.
Stocked ==
  /\ issued \subseteq Ids /\ dropped \subseteq Ids
  /\ inventory \subseteq ItemRow
  /\ \A d \in redemptions : d.status \in {"pending", "completed"}

\* Every request is about an id of the server's.
LEMMA JobIds ==
  ASSUME Typed, NEW h \in Handlers
  PROVE  job[h] = Idle \/ job[h].key \in Ids
<1>1. job[h] \in Jobs BY DEF Typed
<1>2. RewardKeys \subseteq Ids BY RewardKeyType DEF RewardKeys
<1> QED BY <1>1, <1>2, OrdersAreKeys, PurchasesAreKeys, GuardsAreKeys, RedemptionsAreKeys
        DEF Jobs, RechargeJob, PurchaseJob, HandoutJob, GuardJob, ShareJob, ClaimJob, CodeJob, RedeemJob

\* No step takes an id, an item or a record from elsewhere.
LEMMA StockedKept ==
  ASSUME Ground, Stocked, [PaymentsNext]_paymentVars
  PROVE  Stocked'
<1>1. ASSUME NEW h \in Handlers, job[h] # Idle PROVE job[h].key \in Ids BY <1>1, JobIds DEF Ground
<1>2. CASE UNCHANGED paymentVars BY <1>2 DEF Stocked, paymentVars, handlerVars, storeVars, referralVars
<1>3. CASE Recharging
 <2>1. UNCHANGED <<inventory, redemptions>> BY <1>3 DEF Recharging, storeVars, referralVars
 <2>2. ASSUME NEW a \in Accounts, CreateOrder(a)
       PROVE  issued' \subseteq Ids /\ dropped' = dropped
   BY <2>2, OrdersAreKeys DEF Stocked, CreateOrder
 <2>3. ASSUME NEW h \in Handlers, StartComplete(h) \/ RechargeStep(h)
       PROVE  issued' = issued /\ dropped' = dropped
   BY <2>3 DEF StartComplete, RechargeStep, VerifyOk, VerifyFails, MarkFailed, CreditOrder, MarkCompleted,
      AddLifetime, NotifyPayment, Accept, Goto, Finish, Notify
 <2> QED BY <1>3, <2>1, <2>2, <2>3 DEF Stocked, Recharging, RechargeNext
<1>4. CASE Buying
 <2>1. UNCHANGED redemptions BY <1>4 DEF Buying, referralVars
 <2>2. issued' \subseteq Ids /\ dropped' \subseteq Ids
   BY <1>4, PurchasesAreKeys DEF Stocked, Buying, StoreStep, StartPurchase, StartHandout, DebitPurchase,
      Grant, GiveItem, AdjustBalance, NoteHandout, Accept, Goto, Finish
 <2>3. ASSUME NEW h \in Handlers, Grant(h) \/ GiveItem(h)
       PROVE  inventory' \subseteq ItemRow
  <3>1. Doing(h, "store", "grant") \/ Doing(h, "handout", "give") BY <2>3 DEF Grant, GiveItem
  <3>2. job[h] \in PurchaseJob \cup HandoutJob BY <3>1, JobKinds DEF Ground, Doing
  <3>3. job[h].account \in Accounts /\ job[h].key \in PurchaseIds \cup HandoutIds
    BY <3>2 DEF PurchaseJob, HandoutJob
  <3> QED BY <2>3, <3>3 DEF Stocked, Grant, GiveItem, Item, ItemRow
 <2>4. inventory' \subseteq ItemRow
   BY <1>4, <2>3 DEF Stocked, Buying, StoreStep, StartPurchase, StartHandout, DebitPurchase, AdjustBalance,
      NoteHandout, storeVars
 <2> QED BY <2>1, <2>2, <2>4 DEF Stocked
<1>5. CASE Guarding
 <2>1. ASSUME NEW h \in Handlers, InsertLoses(h) PROVE dropped' \subseteq Ids /\ issued' = issued
  <3>1. job[h].op = "guard" /\ Break(h) BY <2>1 DEF InsertLoses, Doing
  <3>2. job[h] # Idle BY <3>1 DEF Idle
  <3> QED BY <1>1, <3>1, <3>2 DEF Stocked, Break
 <2>2. issued' \subseteq Ids /\ dropped' \subseteq Ids
   BY <1>5, <2>1, GuardsAreKeys DEF Stocked, Guarding, GuardStep, StartGuard, DebitGuard, RenewGuard,
      SeeNoGuard, InsertGuard, NotifyGuard, Accept, Goto, Finish, Notify
 <2> QED BY <1>5, <2>2 DEF Stocked, Guarding, storeVars, referralVars
<1>6. CASE Rewarding
  BY <1>6 DEF Stocked, Rewarding, EventStep, ReadProgress, Upsert, MarkClaimed, CreditReward, NotifyClaim,
     StartShare, StartClaim, Accept, Goto, Finish, Notify, storeVars, referralVars
<1>7. CASE Referring
 <2>1. issued' \subseteq Ids /\ dropped' \subseteq Ids
   BY <1>7, RedemptionsAreKeys DEF Stocked, Referring, ReferralStep, StartCode, StartRedeem, AddCode,
      AddRedemption, CreditReferrer, CompleteRedemption, Accept, Goto, Finish
 <2>2. \A d \in redemptions' : d.status \in {"pending", "completed"}
   BY <1>7 DEF Stocked, Referring, ReferralStep, StartCode, StartRedeem, AddCode, AddRedemption,
      CreditReferrer, CompleteRedemption, Redemption, referralVars
 <2> QED BY <1>7, <2>1, <2>2 DEF Stocked, Referring, storeVars
<1>8. CASE Outside BY <1>1, <1>8 DEF Stocked, Outside, Tick, Interrupted, Break, storeVars, referralVars
<1> QED BY <1>2, <1>3, <1>4, <1>5, <1>6, <1>7, <1>8 DEF PaymentsNext
-----------------------------
\* Handler h takes up the purchase of a guard, or goes on with one.
GuardMoves(h) == GuardStep(h) \/ \E fan, host \in Accounts : StartGuard(h, fan, host)

\* A step is a recharge's, a guard's, or leaves both tables alone.
Whose ==
  \/ /\ \E h \in Handlers : /\ StartComplete(h) \/ RechargeStep(h)
                            /\ Within(h, {"recharge"}, Orders)
     /\ Apart({"guard"}, GuardIds) /\ UNCHANGED guards
  \/ /\ \E h \in Handlers : GuardMoves(h) /\ Within(h, {"guard"}, GuardIds)
     /\ Apart({"recharge"}, Orders) /\ UNCHANGED rechargeVars
  \/ /\ Apart({"recharge"}, Orders) /\ Apart({"guard"}, GuardIds) /\ UNCHANGED guards
     /\ UNCHANGED rechargeVars \/ \E a \in Accounts : CreateOrder(a)

\* Every step is one of the three.
LEMMA WhoseStep ==
  ASSUME PaymentsInv, [PaymentsNext]_paymentVars
  PROVE  Whose
<1>1. Ground /\ OrderBooks BY DEF PaymentsInv
<1>2. ASSUME NEW h \in Handlers, StartComplete(h) \/ RechargeStep(h),
             UNCHANGED <<guards, eventVars, referralVars>>
      PROVE  Whose
 <2>1. Within(h, {"recharge"}, Orders) BY <1>1, <1>2, RechargeGround DEF OrderBooks
 <2>2. Apart({"guard"}, GuardIds) BY <2>1, WithinIsApart, Kinds
 <2> QED BY <1>2, <2>1, <2>2 DEF Whose
<1>3. ASSUME NEW h \in Handlers, GuardMoves(h), UNCHANGED <<rechargeVars, eventVars, referralVars>>
      PROVE  Whose
 <2>1. Within(h, {"guard"}, GuardIds) BY <1>1, <1>3, GuardGround DEF GuardMoves
 <2>2. Apart({"recharge"}, Orders) BY <2>1, WithinIsApart, Kinds
 <2> QED BY <1>3, <2>1, <2>2 DEF Whose
<1>4. ASSUME NEW h \in Handlers, UNCHANGED <<rechargeVars, guards>>,
             \/ Within(h, {"store", "handout"}, StoreKeys)
             \/ Within(h, {"share", "claim"}, RewardKeys)
             \/ Within(h, {"code", "redeem"}, RedemptionIds)
      PROVE  Whose
 <2>1. Apart({"recharge"}, Orders) /\ Apart({"guard"}, GuardIds)
  <3>1. CASE Within(h, {"store", "handout"}, StoreKeys) BY <3>1, WithinIsApart, Kinds
  <3>2. CASE Within(h, {"share", "claim"}, RewardKeys) BY <3>2, WithinIsApart, Kinds
  <3>3. CASE Within(h, {"code", "redeem"}, RedemptionIds) BY <3>3, WithinIsApart, Kinds
  <3> QED BY <1>4, <3>1, <3>2, <3>3
 <2> QED BY <1>4, <2>1 DEF Whose
<1>5. ASSUME \/ Outside \/ UNCHANGED paymentVars
             \/ (\E a \in Accounts : CreateOrder(a)) /\ UNCHANGED <<guards, eventVars, referralVars>>
      PROVE  Whose
 <2>1. Apart({"recharge"}, Orders) /\ Apart({"guard"}, GuardIds) BY <1>1, <1>5, OutsideGround
 <2> QED BY <1>5, <2>1 DEF Outside, paymentVars, Whose
<1>6. CASE Recharging
 <2>1. UNCHANGED <<guards, eventVars, referralVars>> BY <1>6 DEF Recharging
 <2>2. CASE \E a \in Accounts : CreateOrder(a) BY <1>5, <2>1, <2>2
 <2>3. CASE \E h \in Handlers : StartComplete(h) \/ RechargeStep(h) BY <1>2, <2>1, <2>3
 <2> QED BY <1>6, <2>2, <2>3 DEF Recharging, RechargeNext
<1>7. CASE Buying
 <2>1. PICK h \in Handlers : StoreStep(h) \/ StoreStarts(h) BY <1>7 DEF Buying, StoreStarts
 <2>2. UNCHANGED <<rechargeVars, guards, eventVars, referralVars>> BY <1>7 DEF Buying
 <2>3. Within(h, {"store", "handout"}, StoreKeys) BY <1>1, <2>1, <2>2, StoreGround DEF StoreStarts
 <2>4. UNCHANGED <<rechargeVars, guards>> BY <2>2
 <2> QED BY <1>4, <2>3, <2>4
<1>8. CASE Guarding
 <2>1. UNCHANGED <<rechargeVars, eventVars, referralVars>> BY <1>8 DEF Guarding
 <2>2. PICK h \in Handlers : GuardMoves(h) BY <1>8 DEF Guarding, GuardMoves
 <2> QED BY <1>3, <2>1, <2>2
<1>9. CASE Rewarding
 <2>1. PICK h \in Handlers : EventStep(h) \/ \E a \in Accounts : StartShare(h, a) \/ StartClaim(h, a)
   BY <1>9 DEF Rewarding
 <2>2. UNCHANGED <<rechargeVars, storeVars, guards, referralVars>> BY <1>9 DEF Rewarding
 <2>3. Within(h, {"share", "claim"}, RewardKeys) BY <1>1, <2>1, <2>2, EventGround
 <2>4. UNCHANGED <<rechargeVars, guards>> BY <2>2
 <2> QED BY <1>4, <2>3, <2>4
<1>10. CASE Referring
 <2>1. PICK h \in Handlers : ReferralStep(h) \/ ReferralStarts(h) BY <1>10 DEF Referring, ReferralStarts
 <2>2. UNCHANGED <<rechargeVars, storeVars, guards, eventVars>> BY <1>10 DEF Referring
 <2>3. Within(h, {"code", "redeem"}, RedemptionIds) BY <1>1, <2>1, <2>2, ReferralGround DEF ReferralStarts
 <2>4. UNCHANGED <<rechargeVars, guards>> BY <2>2
 <2> QED BY <1>4, <2>3, <2>4
<1> QED BY <1>5, <1>6, <1>7, <1>8, <1>9, <1>10 DEF PaymentsNext
-----------------------------
\* The counter of an account holds the coins of the orders it has to, and its
\* tiers are those of the counter.
Lifetimes ==
  /\ lifetime \in [Accounts -> Nat]
  /\ DOMAIN tiers = Accounts
  /\ \A a \in Accounts : /\ lifetime[a] >= PackageCoins * Cardinality(Counted(a))
                         /\ tiers[a] = Tiers(lifetime[a])

\* With the counter high enough, so are the tiers.
LEMMA LifetimesCover ==
  ASSUME Lifetimes
  PROVE  LifetimeCovers
<1> SUFFICES ASSUME NEW a \in Accounts
             PROVE  LET due == PackageCoins * Cardinality(Counted(a))
                    IN /\ lifetime[a] >= due
                       /\ tiers[a].vip >= TierFor(due, VipSteps)
                       /\ tiers[a].svip >= TierFor(due, SvipSteps)
  BY Zenon DEF LifetimeCovers
<1>1. PICK due : due = PackageCoins * Cardinality(Counted(a)) OBVIOUS
<1>2. lifetime[a] >= due /\ lifetime[a] \in Nat /\ tiers[a] = Tiers(lifetime[a]) BY <1>1 DEF Lifetimes
<1>3. due \in Nat
 <2>1. IsFiniteSet(Counted(a)) BY PaymentsFinite, FS_Subset DEF Counted
 <2>2. PackageCoins \in Nat BY PricesAreAmounts, AmountsPositive
 <2> QED BY <1>1, <2>1, <2>2, OneMore
<1>4. PICK held : held = lifetime[a] OBVIOUS
<1>5. held \in Nat /\ due <= held BY <1>2, <1>3, <1>4
<1>6. /\ TierFor(due, VipSteps) <= TierFor(held, VipSteps)
      /\ TierFor(due, SvipSteps) <= TierFor(held, SvipSteps)
  BY <1>3, <1>5, TierRises
<1>7. \A s \in {VipSteps, SvipSteps}, n \in Nat : TierFor(n, s) \in Int
 <2>1. ASSUME NEW s \in {VipSteps, SvipSteps}, NEW n \in Nat PROVE TierFor(n, s) \in Int
  <3>1. DOMAIN s \subseteq Int BY StepsFromZero
  <3> QED BY <3>1, TierReached DEF TierFor
 <2> QED BY <2>1
<1>8. /\ TierFor(due, VipSteps) \in Int /\ TierFor(held, VipSteps) \in Int
      /\ TierFor(due, SvipSteps) \in Int /\ TierFor(held, SvipSteps) \in Int
  BY <1>3, <1>5, <1>7
<1>9. tiers[a].vip = TierFor(held, VipSteps) /\ tiers[a].svip = TierFor(held, SvipSteps)
  BY <1>2, <1>4 DEF Tiers
<1> QED BY <1>1, <1>2, <1>6, <1>8, <1>9

\* Nothing new has to be counted: the counter stays high enough.
LEMMA LifetimesSame ==
  ASSUME Lifetimes, UNCHANGED <<lifetime, tiers>>, \A a \in Accounts : Counted(a)' \subseteq Counted(a)
  PROVE  Lifetimes'
<1>1. ASSUME NEW a \in Accounts
      PROVE  /\ lifetime'[a] >= PackageCoins * Cardinality(Counted(a)')
             /\ tiers'[a] = Tiers(lifetime'[a])
 <2>1. PICK S, T : S = Counted(a) /\ T = Counted(a)' OBVIOUS
 <2>2. IsFiniteSet(S) /\ T \subseteq S BY <2>1, PaymentsFinite, FS_Subset DEF Counted
 <2>3. PackageCoins \in Nat BY PricesAreAmounts, AmountsPositive
 <2>4. PackageCoins * Cardinality(T) <= PackageCoins * Cardinality(S)
       /\ PackageCoins * Cardinality(T) \in Nat /\ PackageCoins * Cardinality(S) \in Nat
  <3>1. T \subseteq S \cup {a} BY <2>2
  <3> QED BY <2>2, <2>3, <3>1, OneMore
 <2>5. lifetime[a] \in Nat /\ lifetime[a] >= PackageCoins * Cardinality(S) /\ tiers[a] = Tiers(lifetime[a])
   BY <2>1 DEF Lifetimes
 <2>6. lifetime[a] >= PackageCoins * Cardinality(T) BY <2>4, <2>5
 <2> QED BY <2>1, <2>5, <2>6
<1> QED BY <1>1 DEF Lifetimes

\* Everybody else's step leaves nothing new to count.
LEMMA LifetimesKept ==
  ASSUME Ground, Ground', Lifetimes, Apart({"recharge"}, Orders),
         UNCHANGED rechargeVars \/ \E a \in Accounts : CreateOrder(a)
  PROVE  Lifetimes'
<1>1. UNCHANGED <<lifetime, tiers>> /\ dropped \subseteq dropped' BY DEF rechargeVars, CreateOrder, Apart
<1>2. ASSUME NEW o \in Orders, orders'[o].status = "completed" PROVE orders'[o] = orders[o]
 <2>1. CASE UNCHANGED rechargeVars BY <2>1 DEF rechargeVars
 <2>2. ASSUME NEW a \in Accounts, CreateOrder(a) PROVE orders'[o] = orders[o]
  <3>1. PICK q \in Orders : orders' = [orders EXCEPT ![q] = [account |-> a, status |-> "pending"]]
    BY <2>2 DEF CreateOrder
  <3>2. DOMAIN orders = Orders BY DEF Ground, Typed, TablesTyped
  <3> QED BY <1>2, <3>1, <3>2
 <2> QED BY <2>1, <2>2
<1>3. ASSUME NEW o \in Orders, InFlight("recharge", o, {"lifetime"}), o \notin dropped'
      PROVE  InFlight("recharge", o, {"lifetime"})'
 <2>1. PICK h \in Handlers : job[h].op = "recharge" /\ job[h].key = o /\ job[h].at \in {"lifetime"}
   BY <1>3 DEF InFlight
 <2>2. job'[h] = job[h] BY <1>3, <2>1 DEF Apart
 <2> QED BY <2>1, <2>2 DEF InFlight
<1>4. ASSUME NEW a \in Accounts PROVE Counted(a)' \subseteq Counted(a) BY <1>1, <1>2, <1>3 DEF Counted
<1> QED BY <1>1, <1>4, LifetimesSame

\* An order becomes one to count only when its request adds it to the counter.
LEMMA LifetimesStep ==
  ASSUME Ground, OrderBooks, Lifetimes, NEW h \in Handlers, StartComplete(h) \/ RechargeStep(h),
         Within(h, {"recharge"}, Orders)
  PROVE  Lifetimes'
<1>1. PICK k : k = job[h].key OBVIOUS
<1>2. /\ job \in [Handlers -> Jobs] /\ \A g \in Handlers \ {h} : job'[g] = job[g]
      /\ dropped' = dropped
      /\ \A o \in Orders : /\ orders'[o].account = orders[o].account
                           /\ orders'[o].status = "completed" =>
                                orders[o].status = "completed" \/ (MarkCompleted(h) /\ o = k)
  BY <1>1, OrderChanges DEF Ground, Typed, Within
<1>3. ASSUME NEW o, InFlight("recharge", o, {"lifetime"})
      PROVE  InFlight("recharge", o, {"lifetime"})' \/ (AddLifetime(h) /\ o = k)
 <2>1. PICK g \in Handlers : job[g].op = "recharge" /\ job[g].key = o /\ job[g].at \in {"lifetime"}
   BY <1>3 DEF InFlight
 <2>2. CASE g # h BY <1>2, <2>1, <2>2 DEF InFlight
 <2>3. CASE g = h
   BY <1>1, <2>1, <2>3 DEF StartComplete, RechargeStep, VerifyOk, VerifyFails, MarkFailed, CreditOrder,
      MarkCompleted, NotifyPayment, Doing, Accept, Ready, Idle
 <2> QED BY <2>2, <2>3
<1>4. MarkCompleted(h) => InFlight("recharge", k, {"lifetime"})'
 <2> SUFFICES ASSUME MarkCompleted(h) PROVE InFlight("recharge", k, {"lifetime"})' OBVIOUS
 <2>1. job[h] \in RechargeJob /\ job' = [job EXCEPT ![h].at = "lifetime"]
   BY JobKinds DEF Ground, MarkCompleted, Doing, Goto
 <2>2. job'[h].op = "recharge" /\ job'[h].key = k /\ job'[h].at = "lifetime"
   BY <1>1, <1>2, <2>1 DEF RechargeJob
 <2> QED BY <2>2 DEF InFlight
<1>5. ASSUME NEW a \in Accounts, NEW o \in Counted(a)'
      PROVE  \/ o \in Counted(a)
             \/ AddLifetime(h) /\ o = k /\ orders[k].account = a
  BY <1>2, <1>3, <1>4, <1>5 DEF Counted
<1>6. CASE UNCHANGED <<lifetime, tiers>> /\ ~AddLifetime(h) BY <1>5, <1>6, LifetimesSame
<1>7. CASE AddLifetime(h)
 <2>1. PICK a : a = orders[k].account OBVIOUS
 <2>2. /\ lifetime' = [lifetime EXCEPT ![a] = @ + PackageCoins]
       /\ tiers' = [tiers EXCEPT ![a] = Tiers(lifetime'[a])]
   BY <1>1, <1>7, <2>1 DEF AddLifetime
 <2>3. a \in Accounts BY <1>1, <1>7, <2>1 DEF AddLifetime, Doing, OrderBooks, KnownOrders, OrderRow
 <2>4. PackageCoins \in Nat BY PricesAreAmounts, AmountsPositive
 <2>5. lifetime' \in [Accounts -> Nat] /\ DOMAIN tiers' = Accounts BY <2>2, <2>3, <2>4 DEF Lifetimes
 <2>6. ASSUME NEW b \in Accounts
       PROVE  /\ lifetime'[b] >= PackageCoins * Cardinality(Counted(b)')
              /\ tiers'[b] = Tiers(lifetime'[b])
  <3>1. PICK S, T : S = Counted(b) /\ T = Counted(b)' OBVIOUS
  <3>2. IsFiniteSet(S) /\ T \subseteq S \cup {k} /\ (b # a => T \subseteq S)
    BY <1>5, <2>1, <3>1, PaymentsFinite, FS_Subset DEF Counted
  <3>3. /\ PackageCoins * Cardinality(S) \in Nat /\ PackageCoins * Cardinality(T) \in Nat
        /\ PackageCoins * Cardinality(T) <= PackageCoins * Cardinality(S) + PackageCoins
        /\ T \subseteq S => PackageCoins * Cardinality(T) <= PackageCoins * Cardinality(S)
    BY <2>4, <3>2, OneMore
  <3>4. /\ lifetime[b] \in Nat /\ lifetime[b] >= PackageCoins * Cardinality(S)
        /\ tiers[b] = Tiers(lifetime[b])
    BY <3>1 DEF Lifetimes
  <3>5. CASE b = a
   <4>1. lifetime'[b] = lifetime[b] + PackageCoins /\ tiers'[b] = Tiers(lifetime'[b])
     BY <2>2, <2>3, <3>5 DEF Lifetimes
   <4>2. lifetime'[b] >= PackageCoins * Cardinality(T) BY <2>4, <3>3, <3>4, <4>1
   <4> QED BY <3>1, <4>1, <4>2
  <3>6. CASE b # a
   <4>1. lifetime'[b] = lifetime[b] /\ tiers'[b] = tiers[b] BY <2>2, <3>6 DEF Lifetimes
   <4>2. lifetime'[b] >= PackageCoins * Cardinality(T) BY <3>2, <3>3, <3>4, <3>6, <4>1
   <4> QED BY <3>1, <3>4, <4>1, <4>2
  <3> QED BY <3>5, <3>6
 <2> QED BY <2>5, <2>6 DEF Lifetimes
<1>8. UNCHANGED <<lifetime, tiers>> \/ AddLifetime(h)
  BY DEF StartComplete, RechargeStep, VerifyOk, VerifyFails, MarkFailed, CreditOrder, MarkCompleted,
     NotifyPayment, rechargeVars
<1> QED BY <1>6, <1>7, <1>8
-----------------------------
\* A guard purchase has an id of its own; its coins are its fan's, from the
\* debit on.
GuardFresh ==
  /\ \A h \in Handlers : job[h].op = "guard" =>
        /\ job[h].key \in issued /\ job[h].now <= time
        /\ job[h].at = "debit" => ~OnBooks(job[h].key)
        /\ job[h].at \in {"renew", "insert"} =>
             \A f : f \in Payers(job[h].key) <=> f = job[h].pair[1]
  /\ \A g, h \in Handlers :
        job[g].op = "guard" /\ job[h].op = "guard" /\ job[g].key = job[h].key => g = h
  /\ \A row \in CoinRows : row.key \in GuardIds => row.key \in issued

\* Debits of a fan whose request is past the guard, or was cut off.
GuardOver(fan) == {k \in GuardDebits(fan) : ~InFlight("guard", k, {"renew", "insert"})}

\* What is on record for a fan lies between the debits that were dealt with
\* and those that may have been.
Balanced(fan) ==
  /\ TierCoins * Cardinality(GuardDone(fan)) <= Recorded(fan)
  /\ Recorded(fan) <= TierCoins * Cardinality(GuardOver(fan))

\* A guard was bought n times.
BoughtTimes(g, n) ==
  /\ g.total = TierCoins * n
  /\ g # NoGuard => g.expires >= TierDays * n /\ g.expires <= time + TierDays * n

\* The books of guards.
GuardBooks ==
  /\ guards \in [Accounts \X Accounts -> {NoGuard} \cup GuardRow]
  /\ GuardFresh
  /\ \A fan \in Accounts : Balanced(fan)
  /\ \A p \in Accounts \X Accounts : \E n \in Nat : BoughtTimes(guards[p], n)

\* The price of a tier is an amount.
LEMMA Prices == TierCoins \in Nat \ {0} /\ TierDays \in Nat
  BY PricesAreAmounts, AmountsPositive, TierDaysType

\* What is on record for a fan is a number.
LEMMA RecordedNat ==
  ASSUME guards \in [Accounts \X Accounts -> {NoGuard} \cup GuardRow], NEW fan \in Accounts
  PROVE  /\ Recorded(fan) \in Nat
         /\ \A host \in Accounts : GuardsOf(fan)[host] = guards[<<fan, host>>].total
         /\ \A host \in Accounts : GuardsOf(fan)[host] \in Nat
<1>1. \A host \in Accounts : GuardsOf(fan)[host] = guards[<<fan, host>>].total BY DEF GuardsOf
<1>2. \A host \in Accounts : GuardsOf(fan)[host] \in Nat
 <2>1. ASSUME NEW host \in Accounts PROVE GuardsOf(fan)[host] \in Nat
  <3>1. <<fan, host>> \in Accounts \X Accounts OBVIOUS
  <3>2. PICK g \in {NoGuard} \cup GuardRow : g = guards[<<fan, host>>] BY <3>1
  <3>3. g.total \in Nat BY DEF NoGuard, GuardRow
  <3> QED BY <1>1, <3>2, <3>3
 <2> QED BY <2>1, Zenon
<1>3. PICK f : f = GuardsOf(fan) OBVIOUS
<1>4. SumFunctionOnSet(f, Accounts) \in Nat BY <1>2, <1>3, PaymentsFinite, SumNat
<1> QED BY <1>1, <1>2, <1>3, <1>4 DEF Recorded

\* Sets of guard purchases are finite.
LEMMA GuardsFinite ==
  ASSUME NEW fan
  PROVE  /\ IsFiniteSet(GuardDebits(fan)) /\ IsFiniteSet(GuardDone(fan)) /\ IsFiniteSet(GuardOver(fan))
         /\ GuardOver(fan) \subseteq GuardDebits(fan) /\ GuardDone(fan) \subseteq GuardDebits(fan)
<1>1. GuardDebits(fan) \subseteq GuardIds BY DEF GuardDebits
<1>2. GuardOver(fan) \subseteq GuardDebits(fan) /\ GuardDone(fan) \subseteq GuardDebits(fan)
  BY DEF GuardOver, GuardDone
<1> QED BY <1>1, <1>2, PaymentsFinite, FS_Subset

\* The books say what the runs check.
LEMMA GuardsAgree ==
  ASSUME GuardBooks
  PROVE  GuardSound
<1>1. ASSUME NEW fan \in Accounts
      PROVE  /\ Recorded(fan) >= TierCoins * Cardinality(GuardDone(fan))
             /\ Recorded(fan) <= TierCoins * Cardinality(GuardDebits(fan))
 <2>1. PICK S, T : S = GuardDebits(fan) /\ T = GuardOver(fan) OBVIOUS
 <2>2. IsFiniteSet(S) /\ T \subseteq S BY <2>1, GuardsFinite
 <2>3. TierCoins * Cardinality(T) <= TierCoins * Cardinality(S)
       /\ TierCoins * Cardinality(T) \in Nat /\ TierCoins * Cardinality(S) \in Nat
  <3>1. T \subseteq S \cup {fan} /\ TierCoins \in Nat BY <2>2, Prices
  <3> QED BY <2>2, <3>1, OneMore
 <2>4. PICK U : U = GuardDone(fan) OBVIOUS
 <2>5. TierCoins * Cardinality(U) \in Nat
  <3>1. IsFiniteSet(U) /\ TierCoins \in Nat /\ U \subseteq U \cup {fan} BY <2>4, GuardsFinite, Prices
  <3> QED BY <3>1, OneMore
 <2>6. Recorded(fan) \in Nat /\ Balanced(fan) BY RecordedNat DEF GuardBooks
 <2> QED BY <2>1, <2>3, <2>4, <2>5, <2>6 DEF Balanced
<1>2. ASSUME NEW p \in Accounts \X Accounts, guards[p] # NoGuard
      PROVE  LET days == TierDays * (guards[p].total \div TierCoins)
             IN guards[p].expires \in days .. time + days
 <2>1. PICK n \in Nat : BoughtTimes(guards[p], n) BY DEF GuardBooks
 <2>2. PICK m : m = TierDays * n OBVIOUS
 <2>3. guards[p].total \div TierCoins = n
  <3>1. (TierCoins * n) \div TierCoins = n BY Prices
  <3> QED BY <2>1, <3>1 DEF BoughtTimes
 <2>4. /\ guards[p].expires >= m /\ guards[p].expires <= time + m /\ guards[p].expires \in Nat
   BY <1>2, <2>1, <2>2 DEF BoughtTimes, GuardBooks, GuardRow
 <2>5. m \in Nat
  <3>1. \A i, j \in Nat : i * j \in Nat OBVIOUS
  <3> QED BY <2>2, <3>1, Prices
 <2>6. guards[p].expires \in m .. time + m BY <2>4, <2>5
 <2> QED BY <2>2, <2>3, <2>6
<1>3. GuardTotals BY <1>1, Zenon DEF GuardTotals
<1>4. DaysPaidFor BY <1>2, Zenon DEF DaysPaidFor
<1> QED BY <1>3, <1>4 DEF GuardSound

\* No guard is bought at the start.
LEMMA GuardsStart ==
  ASSUME PaymentsInit
  PROVE  GuardBooks
<1>1. /\ job = [h \in Handlers |-> Idle] /\ SeededLedger /\ time = 0
      /\ guards = [p \in Accounts \X Accounts |-> NoGuard]
  BY DEF PaymentsInit, HandlersInit, GuardsInit
<1>2. \A row \in CoinRows : row.key \notin GuardIds
 <2>1. \A row \in CoinRows : row.key = SeedKey
  <3>1. ASSUME NEW a \in Accounts, NEW i \in DOMAIN SeedRows(a) PROVE SeedRows(a)[i].key = SeedKey
    BY DEF SeedRows
  <3> QED BY <1>1, <3>1, InCoins, CoinsAreCurrency DEF SeededLedger
 <2>2. SeedKey \notin GuardIds BY SeedKeyFree, GuardsAreKeys
 <2> QED BY <2>1, <2>2
<1>3. \A h \in Handlers : job[h].op # "guard" BY <1>1 DEF Idle
<1>4. GuardFresh BY <1>2, <1>3 DEF GuardFresh
<1>5. ASSUME NEW fan \in Accounts PROVE Balanced(fan)
 <2>1. GuardDebits(fan) = {} BY <1>2 DEF GuardDebits, Payers
 <2>2. GuardDone(fan) = {} /\ GuardOver(fan) = {} BY <2>1 DEF GuardDone, GuardOver
 <2>3. TierCoins * Cardinality(GuardDone(fan)) = 0 /\ TierCoins * Cardinality(GuardOver(fan)) = 0
   BY <2>2, FS_EmptySet, Prices
 <2>4. Recorded(fan) = 0
  <3>1. PICK f : f = GuardsOf(fan) OBVIOUS
  <3>2. ASSUME NEW host \in Accounts PROVE f[host] = 0
   <4>1. <<fan, host>> \in Accounts \X Accounts OBVIOUS
   <4>2. guards[<<fan, host>>] = NoGuard BY <1>1, <4>1
   <4>3. f[host] = guards[<<fan, host>>].total BY <3>1 DEF GuardsOf
   <4> QED BY <4>2, <4>3 DEF NoGuard
  <3>3. SumFunctionOnSet(f, Accounts) = 0 BY <3>2, PaymentsFinite, SumNat
  <3> QED BY <3>1, <3>3 DEF Recorded
 <2> QED BY <2>3, <2>4 DEF Balanced
<1>6. ASSUME NEW p \in Accounts \X Accounts PROVE BoughtTimes(guards[p], 0)
  BY <1>1, Prices DEF BoughtTimes, NoGuard
<1> QED BY <1>1, <1>4, <1>5, <1>6 DEF GuardBooks

\* With the table as it was, so is what is on record.
LEMMA RecordedSame ==
  ASSUME UNCHANGED guards, NEW fan
  PROVE  Recorded(fan)' = Recorded(fan)
<1>1. GuardsOf(fan)' = GuardsOf(fan) BY DEF GuardsOf
<1> QED BY <1>1 DEF Recorded

\* Debits that are dealt with later than they were before are no trouble.
LEMMA BalanceStands ==
  ASSUME NEW fan \in Accounts, guards \in [Accounts \X Accounts -> {NoGuard} \cup GuardRow],
         Balanced(fan), Recorded(fan)' = Recorded(fan),
         GuardDone(fan)' \subseteq GuardDone(fan), GuardOver(fan) \subseteq GuardOver(fan)'
  PROVE  Balanced(fan)'
<1>2. PICK S, T, U, V : /\ S = GuardDone(fan) /\ T = GuardDone(fan)'
                        /\ U = GuardOver(fan) /\ V = GuardOver(fan)'
  OBVIOUS
<1>3. IsFiniteSet(S) /\ IsFiniteSet(V) /\ T \subseteq S /\ U \subseteq V
 <2>1. GuardOver(fan)' \subseteq GuardIds BY DEF GuardOver, GuardDebits
 <2> QED BY <1>2, <2>1, GuardsFinite, PaymentsFinite, FS_Subset
<1>4. /\ TierCoins * Cardinality(T) <= TierCoins * Cardinality(S)
      /\ TierCoins * Cardinality(T) \in Nat /\ TierCoins * Cardinality(S) \in Nat
 <2>1. T \subseteq S \cup {fan} /\ TierCoins \in Nat BY <1>3, Prices
 <2> QED BY <1>3, <2>1, OneMore
<1>5. /\ TierCoins * Cardinality(U) <= TierCoins * Cardinality(V)
      /\ TierCoins * Cardinality(U) \in Nat /\ TierCoins * Cardinality(V) \in Nat
 <2>1. U \subseteq V \cup {fan} /\ TierCoins \in Nat BY <1>3, Prices
 <2> QED BY <1>3, <2>1, OneMore
<1>6. Recorded(fan) \in Nat BY RecordedNat
<1>7. /\ TierCoins * Cardinality(S) <= Recorded(fan) /\ Recorded(fan) <= TierCoins * Cardinality(U)
  BY <1>2 DEF Balanced
<1>8. /\ TierCoins * Cardinality(T) <= Recorded(fan) /\ Recorded(fan) <= TierCoins * Cardinality(V)
  BY <1>4, <1>5, <1>6, <1>7
<1> QED BY <1>2, <1>8 DEF Balanced

\* One more debit is dealt with, and one more tier is on record.
LEMMA BalanceMoves ==
  ASSUME NEW fan \in Accounts, guards \in [Accounts \X Accounts -> {NoGuard} \cup GuardRow],
         Balanced(fan), Recorded(fan)' = Recorded(fan) + TierCoins, NEW k \in GuardIds,
         GuardDone(fan)' \subseteq GuardDone(fan) \cup {k},
         GuardOver(fan) \cup {k} \subseteq GuardOver(fan)', k \notin GuardOver(fan)
  PROVE  Balanced(fan)'
<1>1. PICK S, T, U, V : /\ S = GuardDone(fan) /\ T = GuardDone(fan)'
                        /\ U = GuardOver(fan) /\ V = GuardOver(fan)'
  OBVIOUS
<1>2. PICK W : W = U \cup {k} OBVIOUS
<1>3. /\ IsFiniteSet(S) /\ IsFiniteSet(U) /\ IsFiniteSet(V) /\ IsFiniteSet(W)
      /\ T \subseteq S \cup {k} /\ W \subseteq V /\ k \notin U
 <2>1. GuardOver(fan)' \subseteq GuardIds BY DEF GuardOver, GuardDebits
 <2>2. IsFiniteSet(U) /\ IsFiniteSet(V) BY <1>1, <2>1, GuardsFinite, PaymentsFinite, FS_Subset
 <2>3. IsFiniteSet(W) BY <1>2, <2>2, FS_AddElement
 <2> QED BY <1>1, <1>2, <2>2, <2>3, GuardsFinite
<1>4. TierCoins \in Nat BY Prices
<1>5. /\ TierCoins * Cardinality(T) <= TierCoins * Cardinality(S) + TierCoins
      /\ TierCoins * Cardinality(T) \in Nat /\ TierCoins * Cardinality(S) \in Nat
  BY <1>3, <1>4, OneMore
<1>6. /\ TierCoins * Cardinality(W) = TierCoins * Cardinality(U) + TierCoins
      /\ TierCoins * Cardinality(U) \in Nat /\ TierCoins * Cardinality(W) \in Nat
  BY <1>2, <1>3, <1>4, OneMore
<1>7. /\ TierCoins * Cardinality(W) <= TierCoins * Cardinality(V)
      /\ TierCoins * Cardinality(V) \in Nat
 <2>1. W \subseteq V \cup {fan} BY <1>3
 <2> QED BY <1>3, <1>4, <2>1, OneMore
<1>8. Recorded(fan) \in Nat BY RecordedNat
<1>9. /\ TierCoins * Cardinality(S) <= Recorded(fan) /\ Recorded(fan) <= TierCoins * Cardinality(U)
  BY <1>1 DEF Balanced
<1>10. /\ TierCoins * Cardinality(T) <= Recorded(fan) + TierCoins
       /\ Recorded(fan) + TierCoins <= TierCoins * Cardinality(V)
  BY <1>4, <1>5, <1>6, <1>7, <1>8, <1>9
<1> QED BY <1>1, <1>10 DEF Balanced

\* A purchase that puts a tier on record puts it on its fan's.
LEMMA RecordedMoves ==
  ASSUME guards \in [Accounts \X Accounts -> {NoGuard} \cup GuardRow],
         NEW f \in Accounts, NEW t \in Accounts, NEW g \in GuardRow,
         g.total = guards[<<f, t>>].total + TierCoins,
         guards' = [guards EXCEPT ![<<f, t>>] = g]
  PROVE  /\ guards' \in [Accounts \X Accounts -> {NoGuard} \cup GuardRow]
         /\ \A fan \in Accounts :
              Recorded(fan)' = IF fan = f THEN Recorded(fan) + TierCoins ELSE Recorded(fan)
<1>1. guards' \in [Accounts \X Accounts -> {NoGuard} \cup GuardRow] OBVIOUS
<1>2. ASSUME NEW fan \in Accounts, NEW host \in Accounts
      PROVE  /\ GuardsOf(fan)[host] = guards[<<fan, host>>].total
             /\ (GuardsOf(fan)')[host] = guards'[<<fan, host>>].total
             /\ GuardsOf(fan)[host] \in Nat
             /\ fan # f \/ host # t => guards'[<<fan, host>>] = guards[<<fan, host>>]
 <2>1. <<fan, host>> \in Accounts \X Accounts /\ <<f, t>> \in Accounts \X Accounts OBVIOUS
 <2>2. fan # f \/ host # t => <<fan, host>> # <<f, t>> OBVIOUS
 <2>3. fan # f \/ host # t => guards'[<<fan, host>>] = guards[<<fan, host>>] BY <2>1, <2>2
 <2>4. (GuardsOf(fan)')[host] = guards'[<<fan, host>>].total BY DEF GuardsOf
 <2> QED BY <2>3, <2>4, RecordedNat
<1>3. ASSUME NEW fan \in Accounts, fan # f PROVE Recorded(fan)' = Recorded(fan)
 <2>1. GuardsOf(fan)' = GuardsOf(fan)
  <3>1. \A host \in Accounts : guards'[<<fan, host>>].total = guards[<<fan, host>>].total BY <1>2, <1>3
  <3> QED BY <3>1 DEF GuardsOf
 <2> QED BY <2>1 DEF Recorded
<1>4. Recorded(f)' = Recorded(f) + TierCoins
 <2>1. PICK a, b : a = GuardsOf(f) /\ b = GuardsOf(f)' OBVIOUS
 <2>2. guards'[<<f, t>>] = g
  <3>1. <<f, t>> \in Accounts \X Accounts OBVIOUS
  <3> QED BY <3>1
 <2>3. /\ \A y \in Accounts : a[y] \in Int
       /\ \A y \in Accounts \ {t} : b[y] = a[y]
       /\ b[t] = a[t] + TierCoins /\ a[t] \in Nat /\ TierCoins \in Nat
  <3>1. ASSUME NEW y \in Accounts
        PROVE  /\ a[y] = guards[<<f, y>>].total /\ a[y] \in Nat /\ b[y] = guards'[<<f, y>>].total
               /\ y # t => b[y] = a[y]
    BY <1>2, <2>1
  <3>2. \A y \in Accounts : a[y] \in Nat /\ (y # t => b[y] = a[y]) BY <3>1, Zenon
  <3>3. b[t] = a[t] + TierCoins BY <2>2, <3>1
  <3> QED BY <3>2, <3>3, Prices
 <2>4. \A y \in Accounts : a[y] \in Int /\ b[y] \in Int
  <3>1. ASSUME NEW y \in Accounts PROVE a[y] \in Int /\ b[y] \in Int
   <4>1. CASE y = t BY <2>3, <4>1
   <4>2. CASE y # t BY <2>3, <4>2
   <4> QED BY <4>1, <4>2
  <3> QED BY <3>1, Zenon
 <2>5. SumFunctionOnSet(b, Accounts) = SumFunctionOnSet(a, Accounts) - a[t] + b[t]
   BY <2>3, <2>4, PaymentsFinite, SumExcept
 <2>6. SumFunctionOnSet(a, Accounts) \in Int BY <2>4, PaymentsFinite, SumInt
 <2>7. SumFunctionOnSet(b, Accounts) = SumFunctionOnSet(a, Accounts) + TierCoins
  <3>1. PICK x, y, m, n : /\ x = SumFunctionOnSet(a, Accounts) /\ y = SumFunctionOnSet(b, Accounts)
                          /\ m = a[t] /\ n = b[t]
    OBVIOUS
  <3> QED BY <2>3, <2>5, <2>6, <3>1
 <2> QED BY <2>1, <2>7 DEF Recorded
<1> QED BY <1>1, <1>3, <1>4

\* Everybody else's step: debits and records stay, and a purchase may be cut off.
LEMMA GuardsKept ==
  ASSUME Ground, Ground', GuardBooks, Apart({"guard"}, GuardIds), UNCHANGED guards
  PROVE  GuardBooks'
<1>1. /\ CoinRows \subseteq CoinRows'
      /\ \A row \in CoinRows' : row.key \in GuardIds => row \in CoinRows
      /\ issued \subseteq issued' /\ dropped \subseteq dropped' /\ time' >= time
      /\ \A h \in Handlers : job'[h].op = "guard" => job'[h] = job[h]
  BY DEF Apart
<1>2. ASSUME NEW k \in GuardIds PROVE Payers(k)' = Payers(k) /\ (OnBooks(k)' <=> OnBooks(k))
  BY <1>1 DEF Payers, OnBooks
<1>3. time \in Nat /\ time' \in Nat BY DEF Ground, Typed, TablesTyped
<1>4. GuardFresh'
 <2>1. ASSUME NEW h \in Handlers, job'[h].op = "guard"
       PROVE  (/\ job[h].key \in issued /\ job[h].now <= time
               /\ job[h].at = "debit" => ~OnBooks(job[h].key)
               /\ job[h].at \in {"renew", "insert"} =>
                    \A f : f \in Payers(job[h].key) <=> f = job[h].pair[1])'
  <3>1. job'[h] = job[h] /\ job[h] \in GuardJob BY <1>1, <2>1, JobKinds DEF Ground
  <3>2. PICK k \in GuardIds : k = job[h].key /\ k = job'[h].key BY <3>1 DEF GuardJob
  <3>3. /\ k \in issued /\ job[h].now <= time /\ job[h].now \in Nat
        /\ job[h].at = "debit" => ~OnBooks(k)
        /\ job[h].at \in {"renew", "insert"} => \A f : f \in Payers(k) <=> f = job[h].pair[1]
    BY <2>1, <3>1, <3>2 DEF GuardBooks, GuardFresh, GuardJob
  <3>4. job'[h].now <= time' BY <1>1, <1>3, <3>1, <3>3
  <3>5. Payers(k)' = Payers(k) /\ (OnBooks(k)' <=> OnBooks(k)) BY <1>2
  <3>6. (job[h].key \in issued /\ job[h].now <= time)' BY <1>1, <3>1, <3>2, <3>3, <3>4
  <3>7. (job[h].at = "debit" => ~OnBooks(job[h].key))' BY <3>1, <3>2, <3>3, <3>5 DEF OnBooks
  <3>8. (job[h].at \in {"renew", "insert"} => \A f : f \in Payers(job[h].key) <=> f = job[h].pair[1])'
   <4>1. job'[h].at \in {"renew", "insert"} => \A f : f \in Payers(k)' <=> f = job'[h].pair[1]
     BY <3>1, <3>3, <3>5
   <4> QED BY <3>2, <4>1 DEF Payers
  <3> QED BY <3>6, <3>7, <3>8
 <2>2. \A g, h \in Handlers :
         job'[g].op = "guard" /\ job'[h].op = "guard" /\ job'[g].key = job'[h].key => g = h
   BY <1>1 DEF GuardBooks, GuardFresh
 <2>3. \A row \in CoinRows' : row.key \in GuardIds => row.key \in issued' BY <1>1 DEF GuardBooks, GuardFresh
 <2>4. (\A h \in Handlers : job[h].op = "guard" =>
          /\ job[h].key \in issued /\ job[h].now <= time
          /\ job[h].at = "debit" => ~OnBooks(job[h].key)
          /\ job[h].at \in {"renew", "insert"} =>
               \A f : f \in Payers(job[h].key) <=> f = job[h].pair[1])'
   BY <2>1, Zenon
 <2> QED BY <2>2, <2>3, <2>4 DEF GuardFresh
<1>5. ASSUME NEW k \in GuardIds
      PROVE  /\ InFlight("guard", k, {"renew", "insert"})' => InFlight("guard", k, {"renew", "insert"})
             /\ InFlight("guard", k, {"renew", "insert"}) =>
                  InFlight("guard", k, {"renew", "insert"})' \/ k \in dropped'
  BY <1>1 DEF InFlight, Apart
<1>6. ASSUME NEW fan \in Accounts PROVE Balanced(fan)'
 <2>1. GuardDebits(fan)' = GuardDebits(fan) BY <1>2 DEF GuardDebits
 <2>2. GuardDone(fan)' \subseteq GuardDone(fan) BY <1>1, <1>5, <2>1 DEF GuardDone, GuardDebits
 <2>3. GuardOver(fan) \subseteq GuardOver(fan)' BY <1>5, <2>1 DEF GuardOver, GuardDebits
 <2> QED BY <2>2, <2>3, BalanceStands, RecordedSame DEF GuardBooks
<1>7. ASSUME NEW p \in Accounts \X Accounts PROVE \E n \in Nat : BoughtTimes(guards[p], n)'
 <2>1. PICK n \in Nat : BoughtTimes(guards[p], n) BY DEF GuardBooks
 <2>2. PICK m : m = TierDays * n OBVIOUS
 <2>3. m \in Nat
  <3>1. \A i, j \in Nat : i * j \in Nat OBVIOUS
  <3> QED BY <2>2, <3>1, Prices
 <2>4. guards[p] # NoGuard => guards[p].expires \in Nat BY DEF GuardBooks, GuardRow
 <2>5. guards[p] # NoGuard => guards[p].expires <= time' + m
   BY <1>1, <1>3, <2>1, <2>2, <2>3, <2>4 DEF BoughtTimes
 <2> QED BY <2>1, <2>2, <2>5 DEF BoughtTimes
<1> QED BY <1>4, <1>6, <1>7 DEF GuardBooks
-----------------------------
\* The debit of a guard purchase went through.
Charged(h) == DebitGuard(h) /\ job' = [job EXCEPT ![h].at = "renew", ![h].now = time]

\* The table is written to.
Recording(h) == RenewGuard(h) \/ InsertGuard(h)

\* What a step leaves of the request, and of ids and clock.
LEMMA GuardTurns ==
  ASSUME Ground, NEW h \in Handlers, GuardStep(h)
  PROVE  /\ job[h] \in GuardJob /\ time' = time /\ issued' = issued
         /\ \/ job'[h] = Idle
            \/ job'[h] \in GuardJob /\ job'[h].key = job[h].key /\ job'[h].pair = job[h].pair
         /\ DebitGuard(h) => /\ job[h].at = "debit" /\ dropped' = dropped
                             /\ job'[h] = Idle \/ Charged(h)
         /\ Charged(h) => job'[h].op = "guard" /\ job'[h].at = "renew" /\ job'[h].now = time
         /\ ~DebitGuard(h) => job[h].at # "debit" /\ (job'[h] # Idle => job'[h].now = job[h].now)
         /\ Recording(h) => /\ job[h].at \in {"renew", "insert"} /\ job'[h].at = "notify"
                            /\ dropped' = dropped
         /\ SeeNoGuard(h) => /\ job[h].at = "renew" /\ job'[h].op = "guard"
                             /\ job'[h].at = "insert" /\ dropped' = dropped
         /\ InsertLoses(h) => /\ job[h].at = "insert" /\ job'[h] = Idle
                              /\ dropped' = dropped \cup {job[h].key}
         /\ NotifyGuard(h) => job[h].at = "notify" /\ job'[h] = Idle /\ dropped' = dropped
<1>1. job[h].op = "guard"
  BY DEF GuardStep, DebitGuard, RenewGuard, SeeNoGuard, InsertGuard, InsertLoses, NotifyGuard, Doing
<1>2. job[h] \in GuardJob /\ job \in [Handlers -> Jobs] /\ time \in Nat
  BY <1>1, JobKinds DEF Ground, Typed, TablesTyped
<1>3. Idle.op = "none" /\ Idle.at = "none" BY DEF Idle
<1>4. ASSUME DebitGuard(h)
      PROVE  /\ job[h].at = "debit" /\ dropped' = dropped /\ time' = time /\ issued' = issued
             /\ \/ job'[h] = Idle
                \/ /\ Charged(h) /\ job'[h] \in GuardJob /\ job'[h].at = "renew" /\ job'[h].now = time
                   /\ job'[h].op = "guard" /\ job'[h].key = job[h].key /\ job'[h].pair = job[h].pair
             /\ Charged(h) => job'[h].op = "guard" /\ job'[h].at = "renew" /\ job'[h].now = time
 <2>1. job[h].at = "debit" /\ UNCHANGED <<dropped, time, issued>> BY <1>4 DEF DebitGuard, Doing, Finish
 <2>2. job' = [job EXCEPT ![h] = Idle] \/ Charged(h) BY <1>4 DEF DebitGuard, Charged, Finish
 <2>3. ASSUME Charged(h)
       PROVE  /\ job'[h] \in GuardJob /\ job'[h].at = "renew" /\ job'[h].now = time
              /\ job'[h].op = "guard" /\ job'[h].key = job[h].key /\ job'[h].pair = job[h].pair
  <3>1. job'[h] = [job[h] EXCEPT !.at = "renew", !.now = time] BY <1>2, <2>3 DEF Charged
  <3> QED BY <1>2, <3>1 DEF GuardJob
 <2> QED BY <1>2, <2>1, <2>2, <2>3
<1>5. ASSUME NEW s \in {"insert", "notify"}, Goto(h, s)
      PROVE  /\ job'[h] \in GuardJob /\ job'[h].key = job[h].key /\ job'[h].pair = job[h].pair
             /\ job'[h].at = s /\ job'[h].op = "guard" /\ job'[h].now = job[h].now
             /\ UNCHANGED <<dropped, time, issued>>
 <2>1. job'[h] = [job[h] EXCEPT !.at = s] BY <1>2, <1>5 DEF Goto
 <2> QED BY <1>2, <1>5, <2>1 DEF GuardJob, Goto
<1>6. ASSUME Recording(h)
      PROVE  job[h].at \in {"renew", "insert"} /\ Goto(h, "notify")
  BY <1>6 DEF Recording, RenewGuard, InsertGuard, Doing
<1>7. ASSUME SeeNoGuard(h)
      PROVE  job[h].at = "renew" /\ Goto(h, "insert")
  BY <1>7 DEF SeeNoGuard, Doing
<1>8. ASSUME InsertLoses(h)
      PROVE  /\ job[h].at = "insert" /\ job'[h] = Idle /\ UNCHANGED <<time, issued>>
             /\ dropped' = dropped \cup {job[h].key}
  BY <1>2, <1>8 DEF InsertLoses, Doing, Break
<1>9. ASSUME NotifyGuard(h)
      PROVE  job[h].at = "notify" /\ job'[h] = Idle /\ UNCHANGED <<dropped, time, issued>>
  BY <1>2, <1>9 DEF NotifyGuard, Doing, Notify
<1>10. DebitGuard(h) \/ Recording(h) \/ SeeNoGuard(h) \/ InsertLoses(h) \/ NotifyGuard(h)
  BY DEF GuardStep, Recording
<1>11. Charged(h) => DebitGuard(h) BY DEF Charged
<1>12. CASE DebitGuard(h) BY <1>2, <1>4, <1>6, <1>7, <1>8, <1>9, <1>12
<1>13. CASE Recording(h) BY <1>2, <1>4, <1>5, <1>6, <1>7, <1>8, <1>9, <1>11, <1>13
<1>14. CASE SeeNoGuard(h) BY <1>2, <1>4, <1>5, <1>6, <1>7, <1>8, <1>9, <1>11, <1>14
<1>15. CASE InsertLoses(h) BY <1>2, <1>3, <1>4, <1>5, <1>6, <1>7, <1>8, <1>9, <1>11, <1>15
<1>16. CASE NotifyGuard(h) BY <1>2, <1>4, <1>6, <1>7, <1>8, <1>9, <1>11, <1>16
<1> QED BY <1>10, <1>12, <1>13, <1>14, <1>15, <1>16

\* Only a debit that goes through enters a row: the fan's, under the id of the purchase.
LEMMA GuardRowsEntered ==
  ASSUME Ground, NEW h \in Handlers, GuardStep(h), NEW k, k = job[h].key, NEW f, f = job[h].pair[1]
  PROVE  /\ CoinRows \subseteq CoinRows'
         /\ ~Charged(h) => CoinRows' = CoinRows
         /\ \A row \in CoinRows' \ CoinRows : row.key = k /\ row.account = f
         /\ Charged(h) => f \in Payers(k)'
<1>1. job[h] \in GuardJob BY GuardTurns
<1>2. CASE DebitGuard(h)
 <2>1. PICK r : r = GuardDebit(f, k) OBVIOUS
 <2>2. Settle(r) /\ (Charged(h) <=> Succeeds(r))
  <3>1. Settle(r) /\ (Succeeds(r) => Charged(h)) BY <1>2, <2>1 DEF DebitGuard, Charged
  <3>2. ~Succeeds(r) => Finish(h) BY <1>2, <2>1 DEF DebitGuard
  <3>3. Charged(h) => job'[h] # Idle BY GuardTurns DEF Idle
  <3>4. Finish(h) => job'[h] = Idle BY DEF Finish, Ground, Typed
  <3> QED BY <3>1, <3>2, <3>3, <3>4
 <2>3. CoinMove(r) /\ r.key = k /\ r.account = f /\ r.direction = "debit"
   BY <1>1, <2>1, CallsTyped DEF GuardJob, GuardDebit
 <2>4. /\ Entered(r) /\ (Succeeds(r) => Moved(r)') /\ (~Succeeds(r) => CoinRows' = CoinRows)
   BY <2>2, <2>3, Settled DEF Ground
 <2>5. Charged(h) => f \in Payers(k)' BY <2>2, <2>3, <2>4 DEF Moved, Payers, RowOf
 <2> QED BY <2>2, <2>3, <2>4, <2>5 DEF Entered, RowOf
<1>3. CASE ~DebitGuard(h)
 <2>1. UNCHANGED ledgerVars
   BY <1>3 DEF GuardStep, RenewGuard, SeeNoGuard, InsertGuard, InsertLoses, NotifyGuard
 <2>2. CoinRows' = CoinRows BY <2>1 DEF ledgerVars, CoinRows
 <2> QED BY <1>3, <2>2 DEF Charged
<1> QED BY <1>2, <1>3

\* A purchase writes to the table once its coins are its fan's, and is then done.
LEMMA InFlightMoves ==
  ASSUME GuardFresh, NEW h \in Handlers, \A g \in Handlers \ {h} : job'[g] = job[g],
         NEW k, job[h].op = "guard" => job[h].key = k, job'[h].op = "guard" => job'[h].key = k,
         job[h].op = "guard" \/ k \notin issued
  PROVE  /\ \A x : x # k => (InFlight("guard", x, {"renew", "insert"})' <=>
                               InFlight("guard", x, {"renew", "insert"}))
         /\ InFlight("guard", k, {"renew", "insert"}) <=>
              job[h].op = "guard" /\ job[h].at \in {"renew", "insert"}
         /\ InFlight("guard", k, {"renew", "insert"})' <=>
              job'[h].op = "guard" /\ job'[h].at \in {"renew", "insert"}
<1>1. ASSUME NEW g \in Handlers \ {h} PROVE ~(job[g].op = "guard" /\ job[g].key = k) BY DEF GuardFresh
<1>2. ASSUME NEW x, x # k
      PROVE  InFlight("guard", x, {"renew", "insert"})' <=> InFlight("guard", x, {"renew", "insert"})
  BY <1>2 DEF InFlight
<1>3. InFlight("guard", k, {"renew", "insert"}) <=>
        job[h].op = "guard" /\ job[h].at \in {"renew", "insert"}
  BY <1>1 DEF InFlight
<1>4. InFlight("guard", k, {"renew", "insert"})' <=>
        job'[h].op = "guard" /\ job'[h].at \in {"renew", "insert"}
  BY <1>1 DEF InFlight
<1> QED BY <1>2, <1>3, <1>4

\* A purchase begins: nothing was debited under its id.
LEMMA GuardsTaken ==
  ASSUME Ground, Ground', GuardBooks, NEW h \in Handlers, NEW fan \in Accounts, NEW host \in Accounts,
         StartGuard(h, fan, host)
  PROVE  GuardBooks'
<1>1. PICK k \in GuardIds \ issued :
        /\ Accept(h, [op |-> "guard", at |-> "debit", key |-> k, pair |-> <<fan, host>>, now |-> time])
        /\ issued' = issued \cup {k} /\ UNCHANGED <<ledgerVars, guards>>
  BY DEF StartGuard
<1>2. PICK j : j = [op |-> "guard", at |-> "debit", key |-> k, pair |-> <<fan, host>>, now |-> time] OBVIOUS
<1>3. /\ j.op = "guard" /\ j.at = "debit" /\ j.key = k /\ j.now = time BY <1>2
<1>4. /\ job[h].op = "none" /\ job'[h] = j /\ \A g \in Handlers \ {h} : job'[g] = job[g]
      /\ dropped' = dropped /\ time' = time /\ time \in Nat /\ guards' = guards
  BY <1>1, <1>2 DEF Accept, Ready, Idle, Ground, Typed, TablesTyped
<1>5. CoinRows' = CoinRows /\ ~OnBooks(k) BY <1>1 DEF ledgerVars, CoinRows, OnBooks, GuardBooks, GuardFresh
<1>6. \A x : Payers(x)' = Payers(x) /\ (OnBooks(x)' <=> OnBooks(x)) BY <1>5 DEF Payers, OnBooks
<1>7. GuardFresh'
 <2>1. ASSUME NEW g \in Handlers, job'[g].op = "guard", g # h
       PROVE  /\ job'[g] = job[g] /\ job'[g].key \in issued /\ job'[g].now <= time'
              /\ job'[g].at = "debit" => (~OnBooks(job[g].key))'
              /\ job'[g].at \in {"renew", "insert"} =>
                   (\A f : f \in Payers(job[g].key) <=> f = job[g].pair[1])'
  <3>1. job'[g] = job[g] BY <1>4, <2>1
  <3>2. PICK x : x = job[g].key OBVIOUS
  <3>3. /\ x \in issued /\ job[g].now <= time /\ (job[g].at = "debit" => ~OnBooks(x))
        /\ job[g].at \in {"renew", "insert"} => \A f : f \in Payers(x) <=> f = job[g].pair[1]
    BY <2>1, <3>1, <3>2 DEF GuardBooks, GuardFresh
  <3>4. job'[g].at = "debit" => (~OnBooks(job[g].key))' BY <1>5, <3>1, <3>2, <3>3 DEF OnBooks
  <3>5. job'[g].at \in {"renew", "insert"} =>
          (\A f : f \in Payers(job[g].key) <=> f = job[g].pair[1])'
    BY <1>5, <3>1, <3>2, <3>3 DEF Payers
  <3> QED BY <1>4, <3>1, <3>2, <3>3, <3>4, <3>5
 <2>2. (/\ job[h].key \in issued /\ job[h].now <= time /\ job[h].at = "debit" /\ ~OnBooks(job[h].key))'
  <3>1. (~OnBooks(job[h].key))' BY <1>3, <1>4, <1>5 DEF OnBooks
  <3> QED BY <1>1, <1>3, <1>4, <3>1
 <2>3. (\A g \in Handlers : job[g].op = "guard" =>
          /\ job[g].key \in issued /\ job[g].now <= time
          /\ job[g].at = "debit" => ~OnBooks(job[g].key)
          /\ job[g].at \in {"renew", "insert"} =>
               \A f : f \in Payers(job[g].key) <=> f = job[g].pair[1])'
  <3>1. ASSUME NEW g \in Handlers, job'[g].op = "guard"
        PROVE  (/\ job[g].key \in issued /\ job[g].now <= time
                /\ job[g].at = "debit" => ~OnBooks(job[g].key)
                /\ job[g].at \in {"renew", "insert"} =>
                     \A f : f \in Payers(job[g].key) <=> f = job[g].pair[1])'
   <4>1. CASE g = h BY <2>2, <4>1
   <4>2. CASE g # h BY <1>1, <2>1, <3>1, <4>2
   <4> QED BY <4>1, <4>2
  <3> QED BY <3>1, Zenon
 <2>4. \A g \in Handlers \ {h} : job'[g].op = "guard" => job'[g].key # k BY <1>1, <2>1
 <2>5. \A x, y \in Handlers :
         job'[x].op = "guard" /\ job'[y].op = "guard" /\ job'[x].key = job'[y].key => x = y
   BY <1>3, <1>4, <2>4 DEF GuardBooks, GuardFresh
 <2>6. \A row \in CoinRows' : row.key \in GuardIds => row.key \in issued'
   BY <1>1, <1>5 DEF GuardBooks, GuardFresh
 <2> QED BY <2>3, <2>5, <2>6 DEF GuardFresh
<1>8. \A x : InFlight("guard", x, {"renew", "insert"})' <=> InFlight("guard", x, {"renew", "insert"})
  BY <1>1, <1>3, <1>4, InFlightMoves DEF GuardBooks
<1>9. ASSUME NEW f \in Accounts PROVE Balanced(f)'
 <2>1. GuardDebits(f)' = GuardDebits(f) BY <1>6 DEF GuardDebits
 <2>2. GuardDone(f)' = GuardDone(f) /\ GuardOver(f)' = GuardOver(f)
   BY <1>4, <1>8, <2>1 DEF GuardDone, GuardOver
 <2> QED BY <1>4, <2>2, BalanceStands, RecordedSame DEF GuardBooks
<1>10. \A p \in Accounts \X Accounts : \E n \in Nat : BoughtTimes(guards[p], n)'
  BY <1>4 DEF GuardBooks, BoughtTimes
<1> QED BY <1>4, <1>7, <1>9, <1>10 DEF GuardBooks

\* What a step of a purchase leaves of the ids and of the coins behind them.
LEMMA GuardFreshGoes ==
  ASSUME Ground, Ground', GuardFresh, NEW h \in Handlers, GuardStep(h),
         Within(h, {"guard"}, GuardIds)
  PROVE  GuardFresh'
<1>1. PICK k, f : k = job[h].key /\ f = job[h].pair[1] OBVIOUS
<1>2. /\ job[h] \in GuardJob /\ k \in GuardIds /\ job[h].op = "guard" /\ time' = time /\ issued' = issued
      /\ time \in Nat /\ \A g \in Handlers \ {h} : job'[g] = job[g]
      /\ k \in issued /\ job[h].now <= time
  BY <1>1, GuardTurns DEF GuardJob, Within, Ground, Typed, TablesTyped, GuardFresh
<1>3. /\ CoinRows \subseteq CoinRows' /\ (~Charged(h) => CoinRows' = CoinRows)
      /\ \A row \in CoinRows' \ CoinRows : row.key = k /\ row.account = f
      /\ Charged(h) => f \in Payers(k)'
  BY <1>1, GuardRowsEntered
<1>4. \A x : x # k => Payers(x)' = Payers(x) /\ (OnBooks(x)' <=> OnBooks(x)) BY <1>3 DEF Payers, OnBooks
<1>5. ASSUME NEW g \in Handlers, job'[g].op = "guard", g # h
      PROVE  (/\ job[g].key \in issued /\ job[g].now <= time
              /\ job[g].at = "debit" => ~OnBooks(job[g].key)
              /\ job[g].at \in {"renew", "insert"} =>
                   \A x : x \in Payers(job[g].key) <=> x = job[g].pair[1])'
 <2>1. job'[g] = job[g] BY <1>2, <1>5
 <2>2. PICK m : m = job[g].key OBVIOUS
 <2>3. /\ m \in issued /\ job[g].now <= time /\ (job[g].at = "debit" => ~OnBooks(m))
       /\ job[g].at \in {"renew", "insert"} => \A x : x \in Payers(m) <=> x = job[g].pair[1]
   BY <1>5, <2>1, <2>2 DEF GuardFresh
 <2>4. m # k BY <1>1, <1>2, <1>5, <2>1, <2>2 DEF GuardFresh
 <2>5. Payers(m)' = Payers(m) /\ (OnBooks(m)' <=> OnBooks(m)) BY <1>4, <2>4
 <2>6. (job[g].at = "debit" => ~OnBooks(job[g].key))' BY <2>1, <2>2, <2>3, <2>5 DEF OnBooks
 <2>7. (job[g].at \in {"renew", "insert"} => \A x : x \in Payers(job[g].key) <=> x = job[g].pair[1])'
   BY <2>1, <2>2, <2>3, <2>5 DEF Payers
 <2>8. (job[g].key \in issued /\ job[g].now <= time)' BY <1>2, <2>1, <2>2, <2>3
 <2> QED BY <2>6, <2>7, <2>8
<1>6. ASSUME job'[h].op = "guard"
      PROVE  (/\ job[h].key \in issued /\ job[h].now <= time
              /\ job[h].at = "debit" => ~OnBooks(job[h].key)
              /\ job[h].at \in {"renew", "insert"} =>
                   \A x : x \in Payers(job[h].key) <=> x = job[h].pair[1])'
 <2>1. job'[h] # Idle BY <1>6 DEF Idle
 <2>2. job'[h].key = k /\ job'[h].pair[1] = f BY <1>1, <2>1, GuardTurns
 <2>3. job'[h].now <= time'
  <3>1. CASE DebitGuard(h) BY <1>2, <2>1, <3>1, GuardTurns
  <3>2. CASE ~DebitGuard(h) BY <1>2, <2>1, <3>2, GuardTurns
  <3> QED BY <3>1, <3>2
 <2>4. job'[h].at # "debit" BY <2>1, GuardTurns DEF GuardStep, Recording, Idle
 <2>5. ASSUME job'[h].at \in {"renew", "insert"} PROVE \A x : x \in Payers(k)' <=> x = f
  <3>1. CASE Charged(h)
   <4>1. ~OnBooks(k)
    <5>1. job[h].at = "debit" BY <3>1, GuardTurns DEF Charged
    <5> QED BY <1>1, <1>2, <5>1 DEF GuardFresh
   <4>2. f \in Payers(k)' BY <1>3, <3>1
   <4>3. ASSUME NEW x, x \in Payers(k)' PROVE x = f BY <1>3, <4>1, <4>3 DEF Payers, OnBooks
   <4> QED BY <4>2, <4>3
  <3>2. CASE ~Charged(h)
   <4>1. job[h].at \in {"renew", "insert"}
    <5>1. ~DebitGuard(h) BY <2>1, <3>2, GuardTurns
    <5>2. SeeNoGuard(h) BY <2>1, <2>5, <5>1, GuardTurns DEF GuardStep, Recording
    <5> QED BY <5>2, GuardTurns
   <4>2. \A x : x \in Payers(k) <=> x = f BY <1>1, <1>2, <4>1 DEF GuardFresh
   <4>3. Payers(k)' = Payers(k) BY <1>3, <3>2 DEF Payers
   <4> QED BY <4>2, <4>3
  <3> QED BY <3>1, <3>2
 <2>6. (job[h].at \in {"renew", "insert"} => \A x : x \in Payers(job[h].key) <=> x = job[h].pair[1])'
   BY <2>2, <2>5 DEF Payers
 <2> QED BY <1>2, <2>2, <2>3, <2>4, <2>6
<1>7. (\A g \in Handlers : job[g].op = "guard" =>
         /\ job[g].key \in issued /\ job[g].now <= time
         /\ job[g].at = "debit" => ~OnBooks(job[g].key)
         /\ job[g].at \in {"renew", "insert"} =>
              \A x : x \in Payers(job[g].key) <=> x = job[g].pair[1])'
 <2>1. ASSUME NEW g \in Handlers, job'[g].op = "guard"
       PROVE  (/\ job[g].key \in issued /\ job[g].now <= time
               /\ job[g].at = "debit" => ~OnBooks(job[g].key)
               /\ job[g].at \in {"renew", "insert"} =>
                    \A x : x \in Payers(job[g].key) <=> x = job[g].pair[1])'
  <3>1. CASE g = h BY <1>6, <2>1, <3>1
  <3>2. CASE g # h BY <1>5, <2>1, <3>2
  <3> QED BY <3>1, <3>2
 <2> QED BY <2>1, Zenon
<1>8. \A x, y \in Handlers :
        job'[x].op = "guard" /\ job'[y].op = "guard" /\ job'[x].key = job'[y].key => x = y
 <2>1. ASSUME NEW g \in Handlers, job'[g].op = "guard"
       PROVE  job[g].op = "guard" /\ job[g].key = job'[g].key
  <3>1. CASE g = h BY <1>2, <2>1, <3>1, GuardTurns DEF Idle
  <3>2. CASE g # h BY <1>2, <2>1, <3>2
  <3> QED BY <3>1, <3>2
 <2> QED BY <2>1 DEF GuardFresh
<1>9. \A row \in CoinRows' : row.key \in GuardIds => row.key \in issued' BY <1>2, <1>3 DEF GuardFresh
<1> QED BY <1>7, <1>8, <1>9 DEF GuardFresh

\* A renewal or a first row adds a tier to what is on record for the fan, and its
\* days: to those that are left, or to the clock the purchase read.
LEMMA GuardRecords ==
  ASSUME Ground, GuardBooks, NEW h \in Handlers, GuardStep(h), Recording(h)
  PROVE  /\ guards' \in [Accounts \X Accounts -> {NoGuard} \cup GuardRow]
         /\ \A fan \in Accounts :
              Recorded(fan)' = IF fan = job[h].pair[1] THEN Recorded(fan) + TierCoins ELSE Recorded(fan)
         /\ \A p \in Accounts \X Accounts : \E n \in Nat : BoughtTimes(guards[p], n)'
<1>1. /\ job[h] \in GuardJob /\ time' = time /\ time \in Nat
      /\ job[h].now \in Nat /\ job[h].now <= time /\ job[h].pair \in Accounts \X Accounts
 <2>1. job[h] \in GuardJob /\ time' = time BY GuardTurns
 <2> QED BY <2>1 DEF GuardJob, GuardBooks, GuardFresh, Ground, Typed, TablesTyped
<1>2. PICK p \in Accounts \X Accounts, now \in Nat : p = job[h].pair /\ now = job[h].now BY <1>1
<1>3. PICK f \in Accounts, t \in Accounts : p = <<f, t>> BY <1>2
<1>4. PICK old \in {NoGuard} \cup GuardRow : old = guards[p] BY DEF GuardBooks
<1>5. PICK new : new = Renewed(old, now) OBVIOUS
<1>6. guards' = [guards EXCEPT ![p] = new]
 <2>1. CASE RenewGuard(h) BY <1>2, <1>4, <1>5, <2>1 DEF RenewGuard, GuardBooks
 <2>2. CASE InsertGuard(h) BY <1>2, <1>4, <1>5, <2>2 DEF InsertGuard
 <2> QED BY <2>1, <2>2 DEF Recording
<1>7. /\ old.total \in Nat /\ old.expires \in Int /\ old.expires >= -1
      /\ TierCoins \in Nat /\ TierDays \in Nat
  BY Prices DEF NoGuard, GuardRow
<1>8. /\ new.total = old.total + TierCoins
      /\ new.expires = (IF old.expires > now THEN old.expires ELSE now) + TierDays
  BY <1>5 DEF Renewed
<1>9. new \in GuardRow
 <2>1. new.total \in Nat /\ new.expires \in Nat BY <1>7, <1>8
 <2>2. new = [total |-> new.total, expires |-> new.expires] BY <1>5 DEF Renewed
 <2> QED BY <2>1, <2>2 DEF GuardRow
<1>10. /\ guards' \in [Accounts \X Accounts -> {NoGuard} \cup GuardRow]
       /\ \A fan \in Accounts :
            Recorded(fan)' = IF fan = f THEN Recorded(fan) + TierCoins ELSE Recorded(fan)
  BY <1>3, <1>4, <1>6, <1>8, <1>9, RecordedMoves DEF GuardBooks
<1>11. ASSUME NEW q \in Accounts \X Accounts PROVE \E n \in Nat : BoughtTimes(guards[q], n)'
 <2>1. CASE q # p
  <3>1. guards'[q] = guards[q] BY <1>6, <2>1
  <3>2. PICK n \in Nat : BoughtTimes(guards[q], n) BY DEF GuardBooks
  <3> QED BY <1>1, <3>1, <3>2 DEF BoughtTimes
 <2>2. CASE q = p
  <3>1. guards'[q] = new BY <1>6, <2>2 DEF GuardBooks
  <3>2. PICK n \in Nat : BoughtTimes(old, n) BY <1>4 DEF GuardBooks
  <3>3. PICK m, c : m = TierDays * n /\ c = TierCoins * n OBVIOUS
  <3>4. m \in Nat /\ c \in Nat
   <4>1. \A i, j \in Nat : i * j \in Nat OBVIOUS
   <4> QED BY <1>7, <3>3, <4>1
  <3>5. TierDays * (n + 1) = m + TierDays /\ TierCoins * (n + 1) = c + TierCoins
   <4>1. \A i, j \in Nat : i * (j + 1) = i * j + i OBVIOUS
   <4> QED BY <1>7, <3>3, <4>1
  <3>6. /\ old.total = c
        /\ old # NoGuard => old.expires >= m /\ old.expires <= time + m
    BY <3>2, <3>3 DEF BoughtTimes
  <3>7. old = NoGuard => n = 0 /\ old.expires = -1
   <4>1. ASSUME old = NoGuard PROVE n = 0
    <5>1. c = 0 BY <3>6, <4>1 DEF NoGuard
    <5>2. \A i \in Nat \ {0}, j \in Nat : i * j = 0 => j = 0 OBVIOUS
    <5> QED BY <3>3, <5>1, <5>2, Prices
   <4> QED BY <4>1 DEF NoGuard
  <3>8. old = NoGuard => m = 0 BY <1>7, <3>3, <3>7
  <3>9. new.expires >= m + TierDays /\ new.expires <= time + (m + TierDays)
    BY <1>1, <1>2, <1>7, <1>8, <3>4, <3>6, <3>7, <3>8
  <3>10. BoughtTimes(guards[q], n + 1)' BY <1>1, <1>8, <3>1, <3>5, <3>6, <3>9 DEF BoughtTimes
  <3> QED BY <3>10
 <2> QED BY <2>1, <2>2
<1> QED BY <1>2, <1>3, <1>10, <1>11

\* Every step of a purchase keeps the books of guards.
LEMMA GuardsGo ==
  ASSUME Ground, Ground', GuardBooks, NEW h \in Handlers, GuardStep(h),
         Within(h, {"guard"}, GuardIds)
  PROVE  GuardBooks'
<1>1. PICK k, f : k = job[h].key /\ f = job[h].pair[1] OBVIOUS
<1>2. /\ job[h] \in GuardJob /\ k \in GuardIds /\ f \in Accounts /\ job[h].op = "guard" /\ time' = time
      /\ \A g \in Handlers \ {h} : job'[g] = job[g]
      /\ job'[h].op = "guard" => job'[h].key = k
      /\ dropped \subseteq dropped'
 <2>1. Idle.op = "none" BY DEF Idle
 <2> QED BY <1>1, <2>1, GuardTurns DEF GuardJob, Within, Grown
<1>3. GuardFresh' BY GuardFreshGoes DEF GuardBooks
<1>4. /\ \A x : x # k => (InFlight("guard", x, {"renew", "insert"})' <=>
                            InFlight("guard", x, {"renew", "insert"}))
      /\ InFlight("guard", k, {"renew", "insert"}) <=> job[h].at \in {"renew", "insert"}
      /\ InFlight("guard", k, {"renew", "insert"})' <=>
           job'[h].op = "guard" /\ job'[h].at \in {"renew", "insert"}
  BY <1>1, <1>2, InFlightMoves DEF GuardBooks
<1>5. /\ CoinRows \subseteq CoinRows' /\ (~Charged(h) => CoinRows' = CoinRows)
      /\ \A row \in CoinRows' \ CoinRows : row.key = k
  BY <1>1, GuardRowsEntered
<1>6. \A x : x # k => Payers(x)' = Payers(x) BY <1>5 DEF Payers
<1>7. job[h].at = "debit" => Payers(k) = {} BY <1>1, <1>2 DEF GuardBooks, GuardFresh, Payers, OnBooks
<1>8. job[h].at \in {"renew", "insert"} => \A x : x \in Payers(k) <=> x = f
  BY <1>1, <1>2 DEF GuardBooks, GuardFresh
<1>9. ~Charged(h) => Payers(k)' = Payers(k) BY <1>5 DEF Payers
<1>10. CASE Recording(h)
 <2>1. /\ guards' \in [Accounts \X Accounts -> {NoGuard} \cup GuardRow]
       /\ \A fan \in Accounts :
            Recorded(fan)' = IF fan = f THEN Recorded(fan) + TierCoins ELSE Recorded(fan)
       /\ \A p \in Accounts \X Accounts : \E n \in Nat : BoughtTimes(guards[p], n)'
   BY <1>1, <1>10, GuardRecords
 <2>2. /\ job[h].at \in {"renew", "insert"} /\ job'[h].at = "notify" /\ dropped' = dropped
       /\ ~Charged(h)
   BY <1>10, GuardTurns DEF Charged
 <2>3. InFlight("guard", k, {"renew", "insert"}) /\ ~InFlight("guard", k, {"renew", "insert"})'
   BY <1>4, <2>2
 <2>4. \A x : Payers(x)' = Payers(x) BY <1>6, <1>9, <2>2
 <2>5. \A fan : GuardDebits(fan)' = GuardDebits(fan) BY <2>4 DEF GuardDebits
 <2>6. ASSUME NEW fan \in Accounts, fan # f PROVE Balanced(fan)'
  <3>1. k \notin GuardDebits(fan) BY <1>8, <2>2, <2>6 DEF GuardDebits
  <3>2. GuardDone(fan)' = GuardDone(fan) /\ GuardOver(fan)' = GuardOver(fan)
    BY <1>4, <2>2, <2>5, <3>1 DEF GuardDone, GuardOver
  <3> QED BY <2>1, <2>6, <3>2, BalanceStands DEF GuardBooks
 <2>7. Balanced(f)'
  <3>1. k \in GuardDebits(f) BY <1>2, <1>8, <2>2 DEF GuardDebits
  <3>2. /\ GuardDone(f)' \subseteq GuardDone(f) \cup {k}
        /\ GuardOver(f) \cup {k} \subseteq GuardOver(f)' /\ k \notin GuardOver(f)
    BY <1>4, <2>2, <2>3, <2>5, <3>1 DEF GuardDone, GuardOver
  <3> QED BY <1>2, <2>1, <3>2, BalanceMoves DEF GuardBooks
 <2>8. \A fan \in Accounts : Balanced(fan)'
  <3>1. ASSUME NEW fan \in Accounts PROVE Balanced(fan)' BY <2>6, <2>7, <3>1
  <3> QED BY <3>1, Zenon
 <2> QED BY <1>3, <2>1, <2>8 DEF GuardBooks
<1>11. CASE ~Recording(h)
 <2>1. UNCHANGED guards BY <1>11 DEF GuardStep, Recording, DebitGuard, SeeNoGuard, InsertLoses, NotifyGuard
 <2>2. ASSUME NEW fan \in Accounts PROVE Balanced(fan)'
  <3>1. \A x : x # k => (x \in GuardDebits(fan)' <=> x \in GuardDebits(fan)) BY <1>6 DEF GuardDebits
  <3>2. k \in GuardOver(fan) => k \in GuardOver(fan)'
   <4> SUFFICES ASSUME k \in GuardOver(fan) PROVE k \in GuardOver(fan)' OBVIOUS
   <4>1. fan \in Payers(k) /\ job[h].at \notin {"renew", "insert", "debit"}
     BY <1>4, <1>7 DEF GuardOver, GuardDebits
   <4>2. NotifyGuard(h) /\ ~Charged(h) BY <1>11, <4>1, GuardTurns DEF GuardStep, Recording, Charged
   <4>3. ~InFlight("guard", k, {"renew", "insert"})' BY <1>4, <4>2, GuardTurns DEF Idle
   <4>4. k \in GuardDebits(fan)' BY <1>2, <1>9, <4>1, <4>2 DEF GuardDebits
   <4> QED BY <4>3, <4>4 DEF GuardOver
  <3>3. k \in GuardDone(fan)' => k \in GuardDone(fan)
   <4> SUFFICES ASSUME k \in GuardDone(fan)' PROVE k \in GuardDone(fan) OBVIOUS
   <4>1. /\ fan \in Payers(k)' /\ k \notin dropped' /\ ~InFlight("guard", k, {"renew", "insert"})'
     BY DEF GuardDone, GuardDebits
   <4>2. ~Charged(h) BY <1>4, <4>1, GuardTurns
   <4>3. fan \in Payers(k) BY <1>9, <4>1, <4>2
   <4>4. ~DebitGuard(h) /\ ~SeeNoGuard(h) /\ ~InsertLoses(h) BY <1>1, <1>4, <1>7, <4>1, <4>3, GuardTurns
   <4>5. ~InFlight("guard", k, {"renew", "insert"})
     BY <1>4, <1>11, <4>4, GuardTurns DEF GuardStep, Recording
   <4> QED BY <1>2, <4>1, <4>3, <4>5 DEF GuardDone, GuardDebits
  <3>4. GuardOver(fan) \subseteq GuardOver(fan)'
   <4>1. ASSUME NEW x \in GuardOver(fan), x # k PROVE x \in GuardOver(fan)'
     BY <1>4, <3>1, <4>1 DEF GuardOver
   <4> QED BY <3>2, <4>1
  <3>5. GuardDone(fan)' \subseteq GuardDone(fan)
   <4>1. ASSUME NEW x \in GuardDone(fan)', x # k PROVE x \in GuardDone(fan)
     BY <1>2, <1>4, <3>1, <4>1 DEF GuardDone
   <4> QED BY <3>3, <4>1
  <3> QED BY <2>1, <3>4, <3>5, BalanceStands, RecordedSame DEF GuardBooks
 <2>3. \A p \in Accounts \X Accounts : \E n \in Nat : BoughtTimes(guards[p], n)'
   BY <1>2, <2>1 DEF GuardBooks, BoughtTimes
 <2> QED BY <1>3, <2>1, <2>2, <2>3 DEF GuardBooks
<1> QED BY <1>10, <1>11
-----------------------------
\* What the counters stand on, besides the books of the flows.
CountersInv == Stocked /\ Lifetimes /\ GuardBooks

\* The counters start at zero.
LEMMA CountersStart == PaymentsInit => CountersInv
<1> SUFFICES ASSUME PaymentsInit PROVE CountersInv OBVIOUS
<1>1. Stocked BY DEF PaymentsInit, HandlersInit, StoreInit, ReferralInit, Stocked
<1>2. Lifetimes
 <2>1. /\ orders = [o \in Orders |-> NoOrder] /\ lifetime = [a \in Accounts |-> 0]
       /\ tiers = [a \in Accounts |-> Tiers(0)]
   BY DEF PaymentsInit, RechargeInit
 <2>2. ASSUME NEW a \in Accounts PROVE PackageCoins * Cardinality(Counted(a)) = 0
  <3>1. Counted(a) = {} BY <2>1 DEF Counted, NoOrder
  <3>2. Cardinality(Counted(a)) = 0 /\ PackageCoins \in Nat
    BY <3>1, FS_EmptySet, PricesAreAmounts, AmountsPositive
  <3> QED BY <3>2
 <2>3. ASSUME NEW a \in Accounts
       PROVE  lifetime[a] >= PackageCoins * Cardinality(Counted(a)) /\ tiers[a] = Tiers(lifetime[a])
   BY <2>1, <2>2
 <2> QED BY <2>1, <2>3 DEF Lifetimes
<1> QED BY <1>1, <1>2, GuardsStart DEF CountersInv

\* Every step keeps them, in states that keep the books of the flows.
LEMMA CountersStep ==
  PaymentsInv /\ PaymentsInv' /\ CountersInv /\ [PaymentsNext]_paymentVars => CountersInv'
<1> SUFFICES ASSUME PaymentsInv, PaymentsInv', CountersInv, [PaymentsNext]_paymentVars
             PROVE  CountersInv'
  OBVIOUS
<1>1. Ground /\ Ground' /\ OrderBooks /\ Stocked /\ Lifetimes /\ GuardBooks BY DEF PaymentsInv, CountersInv
<1>2. Stocked' BY <1>1, StockedKept
<1>3. ASSUME NEW h \in Handlers, StartComplete(h) \/ RechargeStep(h), Within(h, {"recharge"}, Orders),
             Apart({"guard"}, GuardIds), UNCHANGED guards
      PROVE  Lifetimes' /\ GuardBooks'
  BY <1>1, <1>3, LifetimesStep, GuardsKept
<1>4. ASSUME NEW h \in Handlers, GuardMoves(h), Within(h, {"guard"}, GuardIds),
             Apart({"recharge"}, Orders), UNCHANGED rechargeVars
      PROVE  Lifetimes' /\ GuardBooks'
 <2>1. GuardBooks' BY <1>1, <1>4, GuardsGo, GuardsTaken DEF GuardMoves
 <2> QED BY <1>1, <1>4, <2>1, LifetimesKept
<1>5. ASSUME Apart({"recharge"}, Orders), Apart({"guard"}, GuardIds), UNCHANGED guards,
             UNCHANGED rechargeVars \/ \E a \in Accounts : CreateOrder(a)
      PROVE  Lifetimes' /\ GuardBooks'
  BY <1>1, <1>5, LifetimesKept, GuardsKept
<1>6. Lifetimes' /\ GuardBooks' BY <1>3, <1>4, <1>5, WhoseStep DEF Whose
<1> QED BY <1>2, <1>6 DEF CountersInv

\* So they hold in every reachable state, too.
LEMMA CountersInvariant == PaymentsSpec => [](PaymentsInv /\ CountersInv)
<1> QED BY PaymentsStart, PaymentsStep, CountersStart, CountersStep, PTL DEF PaymentsSpec

\* Tables hold rows of their kind, an order's status agrees with its coins, and
\* the counter and the tiers miss no completed order, short of requests under
\* way or cut off (recharge.service.js:47-82).
THEOREM RechargesSound == PaymentsSpec => []RechargeSound
<1>1. ASSUME PaymentsInv, CountersInv PROVE RechargeSound
 <2>1. Ground /\ OrderBooks /\ RedeemBooks /\ Stocked /\ Lifetimes /\ GuardBooks
   BY <1>1 DEF PaymentsInv, CountersInv
 <2>2. OrderSettled /\ LifetimeCovers BY <2>1, OrdersSettle, LifetimesCover
 <2>3. /\ balance \in [Accounts -> [Currencies -> Nat]]
       /\ \A a \in Accounts : \A cur \in Currencies :
            \A i \in DOMAIN ledger[a][cur] : ledger[a][cur][i] \in Row
  <3>1. balance \in [Accounts -> [Currencies -> Nat]] /\ ledger \in [Accounts -> [Currencies -> Seq(Row)]]
    BY <2>1 DEF Ground, Books
  <3>2. ASSUME NEW a \in Accounts, NEW cur \in Currencies, NEW i \in DOMAIN ledger[a][cur]
        PROVE  ledger[a][cur][i] \in Row
   <4>1. ledger[a][cur] \in Seq(Row) BY <3>1
   <4> QED BY <3>2, <4>1
  <3> QED BY <3>1, <3>2
 <2>4. \A h \in Handlers : job[h] = Idle \/ job[h].key \in Ids BY <2>1, JobIds DEF Ground
 <2>5. /\ orders \in [Orders -> {NoOrder} \cup OrderRow]
       /\ progress \in [Accounts -> ProgressRow] /\ shares \in [Accounts -> Nat]
       /\ notices \in [Ids -> Nat]
   BY <2>1 DEF Ground, Typed, TablesTyped
 <2>6. \A d \in redemptions : d.id \in RedemptionIds /\ d.status \in {"pending", "completed"}
   BY <2>1 DEF RedeemBooks, RedeemIds, Stocked
 <2>7. PaymentsTypeOK BY <2>1, <2>3, <2>4, <2>5, <2>6 DEF PaymentsTypeOK, Stocked, Lifetimes, GuardBooks
 <2> QED BY <2>2, <2>7 DEF RechargeSound
<1> QED BY <1>1, CountersInvariant, PTL

\* What is on record for a fan is what the fan was debited, short of purchases
\* under way, cut off or beaten to the first row, and a guard lasts the days
\* that were paid for, however renewals interleave (guard.repository.js:129-171).
THEOREM GuardsSound == PaymentsSpec => []GuardSound
<1>1. ASSUME CountersInv PROVE GuardSound BY <1>1, GuardsAgree DEF CountersInv
<1> QED BY <1>1, CountersInvariant, PTL
=============================
