-------- MODULE WalletPg --------
(***************************************************************************)
(* PostgresWalletRepository: credit and debit as a transaction of several  *)
(* statements on a pooled connection.  Each statement is a step of its     *)
(* own, so calls on different connections interleave between any two of    *)
(* them, and a connection may break between any two of them.               *)
(*                                                                         *)
(* A balance row is locked by the UPDATE that moves it, until COMMIT or    *)
(* ROLLBACK.  committed is what other transactions see, tip what the       *)
(* holder of the lock has made of it.  An absent row counts as a row of    *)
(* zeros: the INSERT ... ON CONFLICT DO NOTHING that creates it changes    *)
(* no amount.                                                              *)
(*                                                                         *)
(* _apply issues ROLLBACK only on the paths it foresees.  An exception on  *)
(* any other path returns the connection to the pool with its transaction  *)
(* still open (the conversion of a balance above Number.MAX_SAFE_INTEGER   *)
(* throws) or aborted (a failed statement), and the next user of that      *)
(* connection inherits it.                                                 *)
(***************************************************************************)
EXTENDS WalletModel

CONSTANTS Strangers,   \* account ids with no row in accounts
          Calls,       \* the calls callers make
          Conns,       \* connections of the pool
          NoConn, NoRow, NoCall,
          MaxSafe,     \* Number.MAX_SAFE_INTEGER
          MaxBigint    \* the largest BIGINT

ASSUME NotAConnection == NoConn \notin Conns
ASSUME NotARow == NoRow \notin Row
ASSUME CallsAreRequests == Calls \subseteq Request(Accounts \cup Strangers)
ASSUME NotACall == NoCall \notin Calls
ASSUME StrangersUnknown == Strangers \cap Accounts = {}
ASSUME Widths == MaxSafe \in Nat /\ MaxBigint \in Nat /\ MaxSafe < MaxBigint

VARIABLES committed,   \* balances other transactions see
          entries,      \* committed rows of wallet_transactions
          tip,         \* balances with the lock holder's change
          lock,        \* account -> connection that holds its row
          session,     \* connection -> none, open or aborted transaction
          pc,          \* connection -> statement its call is about to run
          req,         \* connection -> its call
          pend,        \* connection -> row inserted but not committed
          acked,       \* rows callers have been answered with
          overflowed   \* accounts that were credited past MaxSafe

tables == <<committed, entries>>
vars == <<committed, entries, tip, lock, session, pc, req, pend, acked, overflowed>>

Zero == [a \in Accounts |-> [cur \in Currencies |-> 0]]

Init ==
  /\ committed = Zero
  /\ entries = [a \in Accounts |-> [cur \in Currencies |-> <<>>]]
  /\ tip = Zero
  /\ lock = [a \in Accounts |-> NoConn]
  /\ session = [c \in Conns |-> "none"]
  /\ pc = [c \in Conns |-> "idle"]
  /\ req = [c \in Conns |-> NoCall]
  /\ pend = [c \in Conns |-> NoRow]
  /\ acked = {}
  /\ overflowed = {}
-----------------------------
KeyTaken(a, k) ==
  \E cur \in Currencies : \E i \in DOMAIN entries[a][cur] :
     entries[a][cur][i].key = k

\* The rows of a, and the ones the unique index holds for a call's key.
RowsOf(a) == UNION {{entries[a][cur][i] : i \in DOMAIN entries[a][cur]} : cur \in Currencies}
Existing(r) == {row \in RowsOf(r.account) : row.key = r.key}

\* The end of c's transaction without effect: what it changed is forgotten.
Undo(c) ==
  /\ tip' = [a \in Accounts |-> IF lock[a] = c THEN committed[a] ELSE tip[a]]
  /\ lock' = [a \in Accounts |-> IF lock[a] = c THEN NoConn ELSE lock[a]]
  /\ pend' = [pend EXCEPT ![c] = NoRow]
  /\ UNCHANGED tables

\* The end of c's transaction with effect, whatever the transaction holds.
Publish(c) ==
  /\ committed' = [a \in Accounts |-> IF lock[a] = c THEN tip[a] ELSE committed[a]]
  /\ entries' =
       IF pend[c] = NoRow THEN entries
       ELSE [entries EXCEPT ![pend[c].account][pend[c].currency] = Append(@, pend[c])]
  /\ lock' = [a \in Accounts |-> IF lock[a] = c THEN NoConn ELSE lock[a]]
  /\ pend' = [pend EXCEPT ![c] = NoRow]
  /\ UNCHANGED tip

\* The call of c ends and its connection goes back to the pool; what is left
\* of its transaction is s.
Release(c, s) ==
  /\ pc' = [pc EXCEPT ![c] = "idle"]
  /\ req' = [req EXCEPT ![c] = NoCall]
  /\ session' = [session EXCEPT ![c] = s]
-----------------------------
\* A call takes a connection and runs BEGIN.  On a connection with an open
\* transaction BEGIN is a warning and the call joins it; on an aborted one
\* BEGIN fails and the call ends where it began.
Begin(c) ==
  /\ pc[c] = "idle"
  /\ session[c] # "aborted"
  /\ \E r \in Calls : req' = [req EXCEPT ![c] = r]
  /\ pc' = [pc EXCEPT ![c] = "row"]
  /\ session' = [session EXCEPT ![c] = "open"]
  /\ UNCHANGED <<committed, entries, tip, lock, pend, acked, overflowed>>

\* INSERT INTO wallet_balances ... ON CONFLICT DO NOTHING.
EnsureRow(c) ==
  /\ pc[c] = "row"
  /\ req[c].account \in Accounts
  /\ pc' = [pc EXCEPT ![c] = "move"]
  /\ UNCHANGED <<committed, entries, tip, lock, session, req, pend, acked, overflowed>>

\* The foreign key refuses an unknown account.  No ROLLBACK follows.
RejectStranger(c) ==
  /\ pc[c] = "row"
  /\ req[c].account \in Strangers
  /\ Undo(c)
  /\ Release(c, "aborted")
  /\ UNCHANGED <<acked, overflowed>>

\* The UPDATE waits for the row's lock, then reads the latest balance.
MovedTo(c) == tip[req[c].account][req[c].currency] + Delta(req[c])

CanMove(c) ==
  /\ pc[c] = "move"
  /\ lock[req[c].account] \in {NoConn, c}

TakeRow(c) ==
  /\ tip' = [tip EXCEPT ![req[c].account][req[c].currency] = MovedTo(c)]
  /\ lock' = [lock EXCEPT ![req[c].account] = c]

\* Mutant: an UPDATE without "AND balance + delta >= 0".
MoveUnchecked(c) ==
  /\ CanMove(c)
  /\ MovedTo(c) <= MaxSafe
  /\ TakeRow(c)
  /\ pc' = [pc EXCEPT ![c] = "insert"]
  /\ UNCHANGED <<committed, entries, session, req, pend, acked, overflowed>>

Move(c) ==
  /\ CanMove(c)
  /\ MovedTo(c) \in 0 .. MaxSafe
  /\ TakeRow(c)
  /\ pc' = [pc EXCEPT ![c] = "insert"]
  /\ UNCHANGED <<committed, entries, session, req, pend, acked, overflowed>>

\* No row meets balance + delta >= 0: ROLLBACK, 409 insufficient balance.
Refuse(c) ==
  /\ CanMove(c)
  /\ MovedTo(c) < 0
  /\ Undo(c)
  /\ Release(c, "none")
  /\ UNCHANGED <<acked, overflowed>>

\* The UPDATE succeeds and bigintToSafeNumber throws on what it returned:
\* the connection is released with the change in its open transaction.
Overflow(c) ==
  /\ CanMove(c)
  /\ MovedTo(c) \in MaxSafe + 1 .. MaxBigint
  /\ TakeRow(c)
  /\ Release(c, "open")
  /\ overflowed' = overflowed \cup {req[c].account}
  /\ UNCHANGED <<committed, entries, pend, acked>>

\* BIGINT out of range: the UPDATE itself fails.  No ROLLBACK follows.
OutOfRange(c) ==
  /\ CanMove(c)
  /\ MovedTo(c) > MaxBigint
  /\ Undo(c)
  /\ Release(c, "aborted")
  /\ UNCHANGED <<acked, overflowed>>

\* Mutants: no unique key; balance_after read from outside the transaction;
\* the caller answered before COMMIT.
InsertTwice(c) ==
  /\ pc[c] = "insert"
  /\ pend' = [pend EXCEPT ![c] =
                 RowOf(req[c], tip[req[c].account][req[c].currency])]
  /\ pc' = [pc EXCEPT ![c] = "commit"]
  /\ UNCHANGED <<committed, entries, tip, lock, session, req, acked, overflowed>>

InsertStale(c) ==
  /\ pc[c] = "insert"
  /\ ~KeyTaken(req[c].account, req[c].key)
  /\ pend' = [pend EXCEPT ![c] =
                 RowOf(req[c], committed[req[c].account][req[c].currency])]
  /\ pc' = [pc EXCEPT ![c] = "commit"]
  /\ UNCHANGED <<committed, entries, tip, lock, session, req, acked, overflowed>>

InsertAnswers(c) ==
  LET row == RowOf(req[c], tip[req[c].account][req[c].currency]) IN
  /\ pc[c] = "insert"
  /\ ~KeyTaken(req[c].account, req[c].key)
  /\ pend' = [pend EXCEPT ![c] = row]
  /\ acked' = acked \cup {row}
  /\ pc' = [pc EXCEPT ![c] = "commit"]
  /\ UNCHANGED <<committed, entries, tip, lock, session, req, overflowed>>

\* INSERT INTO wallet_transactions ... ON CONFLICT DO NOTHING.
Insert(c) ==
  /\ pc[c] = "insert"
  /\ ~KeyTaken(req[c].account, req[c].key)
  /\ pend' = [pend EXCEPT ![c] =
                 RowOf(req[c], tip[req[c].account][req[c].currency])]
  /\ pc' = [pc EXCEPT ![c] = "commit"]
  /\ UNCHANGED <<committed, entries, tip, lock, session, req, acked, overflowed>>

\* Mutant: the original row is looked up without a ROLLBACK before it.
ConflictStaysOpen(c) ==
  /\ pc[c] = "insert"
  /\ KeyTaken(req[c].account, req[c].key)
  /\ pc' = [pc EXCEPT ![c] = "replay"]
  /\ UNCHANGED <<committed, entries, tip, lock, session, req, pend, acked, overflowed>>

\* The key is taken: ROLLBACK, then look for the original row.
Conflict(c) ==
  /\ pc[c] = "insert"
  /\ KeyTaken(req[c].account, req[c].key)
  /\ Undo(c)
  /\ pc' = [pc EXCEPT ![c] = "replay"]
  /\ session' = [session EXCEPT ![c] = "none"]
  /\ UNCHANGED <<req, acked, overflowed>>

\* COMMIT.  The caller may not hear of it when the connection breaks then.
Commit(c) ==
  /\ pc[c] = "commit"
  /\ Publish(c)
  /\ Release(c, "none")
  /\ \E heard \in SUBSET {pend[c]} : acked' = acked \cup heard
  /\ UNCHANGED overflowed

\* The SELECT of the original row runs on another connection of the pool
\* while this call still holds its own.
Replay(c) ==
  /\ pc[c] = "replay"
  /\ \E other \in Conns \ {c} :
       /\ pc[other] = "idle"
       /\ \E row \in Existing(req[c]) :
            acked' = IF session[other] # "aborted" /\ SameOperation(row, req[c])
                     THEN acked \cup {row} ELSE acked
  /\ Release(c, "none")
  /\ UNCHANGED <<committed, entries, tip, lock, pend, overflowed>>
-----------------------------
\* Another repository's transaction on a connection that was returned dirty:
\* its COMMIT publishes what was left there, its ROLLBACK discards it.
ForeignCommit(c) ==
  /\ pc[c] = "idle"
  /\ session[c] = "open"
  /\ Publish(c)
  /\ session' = [session EXCEPT ![c] = "none"]
  /\ UNCHANGED <<pc, req, acked, overflowed>>

ForeignRollback(c) ==
  /\ pc[c] = "idle"
  /\ session[c] # "none"
  /\ Undo(c)
  /\ session' = [session EXCEPT ![c] = "none"]
  /\ UNCHANGED <<pc, req, acked, overflowed>>

\* The connection breaks (a crash of the server breaks all of them): the
\* database rolls back, the pool opens a fresh one.
ConnectionLost(c) ==
  /\ pc[c] # "idle" \/ session[c] # "none"
  /\ Undo(c)
  /\ Release(c, "none")
  /\ UNCHANGED <<acked, overflowed>>

Statement(c) ==
  \/ EnsureRow(c) \/ RejectStranger(c)
  \/ Move(c) \/ Refuse(c) \/ Overflow(c) \/ OutOfRange(c)
  \/ Insert(c) \/ Conflict(c) \/ Commit(c) \/ Replay(c)

Next ==
  \E c \in Conns :
     \/ Begin(c) \/ Statement(c)
     \/ ForeignCommit(c) \/ ForeignRollback(c) \/ ConnectionLost(c)

\* A statement sent to the database is answered, and waiters for a row lock
\* are served in turn.
Fairness ==
  \A c \in Conns : /\ WF_vars(Statement(c))
                   /\ SF_vars(CanMove(c) /\ Statement(c))

Spec == Init /\ [][Next]_vars
FairSpec == Spec /\ Fairness
-----------------------------
TypeOK ==
  /\ committed \in [Accounts -> [Currencies -> Nat]]
  /\ entries \in [Accounts -> [Currencies -> Seq(Row)]]
  /\ tip \in [Accounts -> [Currencies -> Nat]]
  /\ lock \in [Accounts -> Conns \cup {NoConn}]
  /\ session \in [Conns -> {"none", "open", "aborted"}]
  /\ pc \in [Conns -> {"idle", "row", "move", "insert", "commit", "replay"}]
  /\ req \in [Conns -> Calls \cup {NoCall}]
  /\ pend \in [Conns -> Row \cup {NoRow}]
  /\ acked \in SUBSET Row
  /\ overflowed \in SUBSET Accounts

\* A balance is what its committed history adds up to: each row starts where
\* the one before it ended and the balance is the last row's balance_after.
\* It covers every account that has not been credited past MaxSafe.
LedgerBalances ==
  \A a \in Accounts \ overflowed : \A cur \in Currencies :
     /\ Chained(entries[a][cur])
     /\ committed[a][cur] = LastBalance(entries[a][cur])

\* An idempotency key stands in at most one row of its account, whatever the
\* currency (header of wallet.repository.js, guarantee 1).
KeyAppliedOnce ==
  \A a \in Accounts : \A cur1, cur2 \in Currencies :
     \A i \in DOMAIN entries[a][cur1], j \in DOMAIN entries[a][cur2] :
        entries[a][cur1][i].key = entries[a][cur2][j].key => cur1 = cur2 /\ i = j

\* A transaction a caller was answered with is in the ledger and stays there,
\* through rollbacks, replays and broken connections.
AckedDurable ==
  \A row \in acked : row \in RowsOf(row.account)

\* A connection that is back in the pool locks no balance, unless the
\* overflow exception put it there.
PooledHoldsNothing ==
  \A a \in Accounts \ overflowed : \A c \in Conns :
     lock[a] = c => pc[c] \in {"insert", "commit"}

\* The transaction implements the atomic wallet as long as no balance is
\* pushed past MaxSafe.
Ledger == INSTANCE WalletLedger WITH balance <- committed, ledger <- entries

ImplementsLedger ==
  Ledger!LedgerInit /\ [][overflowed' # {} \/ Ledger!LedgerNext]_tables

\* A call that waits for a balance row gets it: no connection in use keeps a
\* row for ever, and only an overflow leaves one locked.
WaitersServed ==
  \A c \in Conns :
     (pc[c] = "move") ~> (pc[c] # "move" \/ overflowed # {})

\* "Calling again with the same idempotencyKey returns the SAME result"
\* (wallet.repository.js:13): a debit that was applied is never answered
\* with insufficient balance.
ReplayNeverRefused ==
  [][\A c \in Conns :
       Refuse(c) => ~ \E row \in acked : /\ row.account = req[c].account
                                         /\ row.key = req[c].key
                                         /\ SameOperation(row, req[c])]_vars
=============================
