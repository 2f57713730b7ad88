-------- MODULE LedgerProofs --------
(***************************************************************************)
(* Lemmas the proofs about the services share: the level that is reached   *)
(* by a number of points, and what a call of the wallet does to the rows   *)
(* of the ledger.                                                          *)
(***************************************************************************)
EXTENDS WalletSeed, SumProofs

\* More levels ask for more points.
LEMMA PointsRise ==
  ASSUME NEW factor \in Nat \ {0}, NEW m \in Nat, NEW n \in Nat, m <= n
  PROVE  /\ PointsRequired(factor, m) \in Nat
         /\ PointsRequired(factor, m) <= PointsRequired(factor, n)
         /\ n <= PointsRequired(factor, n)
<1>1. \A i, j \in Nat : i * j \in Nat OBVIOUS
<1>2. \A i, j, k \in Nat : i <= j => i * k <= j * k /\ k * i <= k * j OBVIOUS
<1>3. factor * m \in Nat /\ factor * n \in Nat /\ factor * m <= factor * n BY <1>1, <1>2
<1>4. (factor * m) * m <= (factor * n) * m /\ (factor * n) * m <= (factor * n) * n BY <1>2, <1>3
<1>5. (factor * m) * m \in Nat /\ (factor * n) * n \in Nat /\ (factor * n) * m \in Nat BY <1>1, <1>3
<1>6. n <= (factor * n) * n
 <2>1. CASE n = 0 BY <2>1, <1>5
 <2>2. CASE n # 0
  <3>1. 1 <= factor * n
   <4>1. 1 <= factor /\ 1 <= n /\ factor \in Nat BY <2>2
   <4>2. factor * 1 <= factor * n BY <4>1, <1>2
   <4> QED BY <4>1, <4>2, <1>3
  <3>2. 1 * n <= (factor * n) * n BY <3>1, <1>2, <1>3
  <3> QED BY <3>2, <1>5
 <2> QED BY <2>1, <2>2
<1> QED BY <1>4, <1>5, <1>6 DEF PointsRequired

\* Every number of points reaches a last level.
LEMMA LastLevel ==
  ASSUME NEW factor \in Nat \ {0}, NEW points \in Nat
  PROVE  \E n \in 0..points : LevelReached(n, factor, points)
<1> DEFINE Past(n) == points < PointsRequired(factor, n + 1)
           Ups == {0..n : n \in {k \in 0..points : Past(k)}}
<1>1. Past(points)
 <2>1. points + 1 <= PointsRequired(factor, points + 1) /\ PointsRequired(factor, points + 1) \in Nat
   BY PointsRise
 <2> QED BY <2>1
<1>2. Ups \subseteq SUBSET (0..points) /\ Ups # {}
 <2>1. points \in 0..points OBVIOUS
 <2>2. \A k \in 0..points : 0..k \subseteq 0..points OBVIOUS
 <2> HIDE DEF Past
 <2> QED BY <1>1, <2>1, <2>2
<1>3. PICK T \in Ups : \A U \in Ups : U \subseteq T => U = T
 <2> DEFINE S == 0..points
 <2>1. IsFiniteSet(S) /\ Ups \subseteq SUBSET S /\ Ups # {} BY <1>2, FS_Interval
 <2> HIDE DEF Ups, S
 <2> QED BY <2>1, MinimalSet
<1>4. PICK n \in 0..points : Past(n) /\ T = 0..n BY <1>3
<1>5. PointsRequired(factor, n) <= points
 <2>1. CASE n = 0 BY <2>1 DEF PointsRequired
 <2>2. CASE n # 0
  <3>1. n - 1 \in 0..points /\ 0..(n - 1) \subseteq 0..n /\ 0..(n - 1) # 0..n
   <4>1. n \in 0..n /\ n \notin 0..(n - 1) OBVIOUS
   <4> QED BY <2>2, <4>1
  <3>2. ~Past(n - 1) BY <1>3, <1>4, <3>1
  <3>3. PointsRequired(factor, n) \in Nat /\ (n - 1) + 1 = n
   <4>1. n \in Nat /\ n <= n /\ (n - 1) + 1 = n OBVIOUS
   <4>2. PointsRequired(factor, n) \in Nat BY <4>1, PointsRise
   <4> QED BY <4>1, <4>2
  <3> QED BY <3>2, <3>3
 <2> QED BY <2>1, <2>2
<1> QED BY <1>4, <1>5 DEF LevelReached

\* Levels are walked up and down to the last one that is reached.
LEMMA LevelIsReached ==
  ASSUME NEW factor \in Nat \ {0}, NEW points \in Nat, NEW estimate \in 0..points
  PROVE  /\ LevelFrom(estimate, factor, points) \in Nat
         /\ LevelReached(LevelFrom(estimate, factor, points), factor, points)
<1>1. PICK top \in 0..points : LevelReached(top, factor, points) BY LastLevel
<1>2. ASSUME NEW n \in 0..points
      PROVE  /\ PointsRequired(factor, n + 1) <= points <=> n < top
             /\ PointsRequired(factor, n) > points <=> n > top
 <2>1. /\ PointsRequired(factor, top) <= points /\ points < PointsRequired(factor, top + 1)
       /\ PointsRequired(factor, top) \in Nat /\ PointsRequired(factor, top + 1) \in Nat
       /\ PointsRequired(factor, n) \in Nat /\ PointsRequired(factor, n + 1) \in Nat
  <3>1. top \in Nat /\ top + 1 \in Nat /\ n \in Nat /\ n + 1 \in Nat OBVIOUS
  <3>2. \A k \in Nat : PointsRequired(factor, k) \in Nat
   <4> TAKE k \in Nat
   <4>1. k <= k OBVIOUS
   <4> QED BY <4>1, PointsRise
  <3> QED BY <1>1, <3>1, <3>2 DEF LevelReached
 <2>2. n < top => PointsRequired(factor, n + 1) <= PointsRequired(factor, top) BY PointsRise
 <2>3. n >= top => PointsRequired(factor, top + 1) <= PointsRequired(factor, n + 1) BY PointsRise
 <2>4. n > top => PointsRequired(factor, top + 1) <= PointsRequired(factor, n) BY PointsRise
 <2>5. n <= top => PointsRequired(factor, n) <= PointsRequired(factor, top) BY PointsRise
 <2> QED BY <2>1, <2>2, <2>3, <2>4, <2>5
<1> DEFINE IsClimb(f) == f = [n \in 0..points |->
             IF PointsRequired(factor, n + 1) <= points THEN f[n + 1] ELSE n]
           IsDescent(f) == f = [n \in 0..points |->
             IF n > 0 /\ PointsRequired(factor, n) > points THEN f[n - 1] ELSE n]
           climb == CHOOSE f : IsClimb(f)
           descend == CHOOSE f : IsDescent(f)
<1>3. LevelFrom(estimate, factor, points) = descend[climb[estimate]] BY DEF LevelFrom
<1>4. IsClimb(climb)
 <2> DEFINE f == [n \in 0..points |-> IF n < top THEN top ELSE n]
 <2>1. ASSUME NEW n \in 0..points
       PROVE  f[n] = IF PointsRequired(factor, n + 1) <= points THEN f[n + 1] ELSE n
   BY <1>2
 <2>2. f = [n \in 0..points |-> f[n]] OBVIOUS
 <2> HIDE DEF f
 <2>3. IsClimb(f) BY <2>1, <2>2
 <2> HIDE DEF IsClimb
 <2> QED BY <2>3
<1>5. IsDescent(descend)
 <2> DEFINE f == [n \in 0..points |-> IF n > top THEN top ELSE n]
 <2>1. ASSUME NEW n \in 0..points
       PROVE  f[n] = IF n > 0 /\ PointsRequired(factor, n) > points THEN f[n - 1] ELSE n
   BY <1>2
 <2>2. f = [n \in 0..points |-> f[n]] OBVIOUS
 <2> HIDE DEF f
 <2>3. IsDescent(f) BY <2>1, <2>2
 <2> HIDE DEF IsDescent
 <2> QED BY <2>3
<1>6. \A n \in 0..points : climb[n] = IF n < top THEN climb[n + 1] ELSE n
 <2> HIDE DEF climb
 <2> QED BY <1>2, <1>4
<1>7. \A n \in 0..points : descend[n] = IF n > top THEN descend[n - 1] ELSE n
 <2> HIDE DEF descend
 <2> QED BY <1>2, <1>5
<1> HIDE DEF climb, descend
<1>8. \A n \in 0..points : climb[n] = IF n < top THEN top ELSE n
 <2> SUFFICES ASSUME NEW n \in 0..points, climb[n] # IF n < top THEN top ELSE n PROVE FALSE OBVIOUS
 <2> DEFINE S == 0..points
            Bad == {k..points : k \in {i \in S : climb[i] # IF i < top THEN top ELSE i}}
 <2>1. PICK T \in Bad : \A U \in Bad : U \subseteq T => U = T
  <3>1. IsFiniteSet(S) /\ Bad \subseteq SUBSET S /\ Bad # {} BY FS_Interval
  <3> HIDE DEF S, Bad
  <3> QED BY <3>1, MinimalSet
 <2>2. PICK k \in S : climb[k] # (IF k < top THEN top ELSE k) /\ T = k..points BY <2>1
 <2>3. k < top /\ k + 1 \in S /\ climb[k] = climb[k + 1] BY <1>6, <2>2
 <2>4. (k + 1)..points \subseteq T /\ (k + 1)..points # T
  <3>1. k \in k..points /\ k \notin (k + 1)..points BY <2>3
  <3> QED BY <2>2, <3>1
 <2>5. climb[k + 1] = IF k + 1 < top THEN top ELSE k + 1 BY <2>1, <2>3, <2>4
 <2> QED BY <2>2, <2>3, <2>5
<1>9. \A n \in 0..points : descend[n] = IF n > top THEN top ELSE n
 <2> SUFFICES ASSUME NEW n \in 0..points, descend[n] # IF n > top THEN top ELSE n PROVE FALSE OBVIOUS
 <2> DEFINE S == 0..points
            Bad == {0..k : k \in {i \in S : descend[i] # IF i > top THEN top ELSE i}}
 <2>1. PICK T \in Bad : \A U \in Bad : U \subseteq T => U = T
  <3>1. IsFiniteSet(S) /\ Bad \subseteq SUBSET S /\ Bad # {}
   <4>1. \A k \in S : 0..k \subseteq S OBVIOUS
   <4>2. 0..n \in Bad OBVIOUS
   <4>3. Bad \subseteq SUBSET S BY <4>1
   <4>4. IsFiniteSet(S) BY FS_Interval
   <4> QED BY <4>2, <4>3, <4>4
  <3> HIDE DEF S, Bad
  <3> QED BY <3>1, MinimalSet
 <2>2. PICK k \in S : descend[k] # (IF k > top THEN top ELSE k) /\ T = 0..k BY <2>1
 <2>3. k > top /\ k - 1 \in S /\ descend[k] = descend[k - 1] BY <1>7, <2>2
 <2>4. 0..(k - 1) \subseteq T /\ 0..(k - 1) # T
  <3>1. k \in 0..k /\ k \notin 0..(k - 1) BY <2>3
  <3> QED BY <2>2, <3>1
 <2>5. descend[k - 1] = IF k - 1 > top THEN top ELSE k - 1 BY <2>1, <2>3, <2>4
 <2> QED BY <2>2, <2>3, <2>5
<1>10. descend[climb[estimate]] = top BY <1>8, <1>9
<1> QED BY <1>1, <1>3, <1>10
-----------------------------
\* The ledger: rows stand under their own account, an account has one row for
\* a key, and what is not in coins was there from the start.
Books ==
  /\ balance \in [Accounts -> [Currencies -> Nat]]
  /\ ledger \in [Accounts -> [Currencies -> Seq(Row)]]
  /\ \A a \in Accounts, cur \in Currencies : \A i \in DOMAIN ledger[a][cur] :
        /\ ledger[a][cur][i].account = a
        /\ cur # "coins" => ledger[a][cur][i].key = SeedKey
  /\ \A x, y \in CoinRows : x.account = y.account /\ x.key = y.key => x = y

\* A row of coins is one of its account's.
LEMMA InCoins ==
  ASSUME NEW row
  PROVE  row \in CoinRows <=>
           \E a \in Accounts : \E i \in DOMAIN ledger[a]["coins"] : row = ledger[a]["coins"][i]
  BY DEF CoinRows

\* Rows of coins are rows of the ledger.
LEMMA CoinRowsTyped ==
  ASSUME Books, NEW row \in CoinRows
  PROVE  row \in Row /\ row.account \in Accounts
<1>1. PICK a \in Accounts : \E i \in DOMAIN ledger[a]["coins"] : row = ledger[a]["coins"][i] BY InCoins
<1>2. PICK i \in DOMAIN ledger[a]["coins"] : row = ledger[a]["coins"][i] BY <1>1
<1>3. ledger[a]["coins"] \in Seq(Row) BY CoinsAreCurrency DEF Books
<1>4. row \in Row BY <1>2, <1>3
<1> QED BY <1>4 DEF Row

\* Wallets are seeded with one row each.
LEMMA BooksInit == SeededLedger => Books
<1> SUFFICES ASSUME SeededLedger PROVE Books OBVIOUS
<1>1. ASSUME NEW a \in Accounts
      PROVE  /\ Seed[a] \in Nat /\ SeedRows(a) \in Seq(Row)
             /\ \A i \in DOMAIN SeedRows(a) :
                  i = 1 /\ SeedRows(a)[i].account = a /\ SeedRows(a)[i].key = SeedKey
 <2>1. CASE Seed[a] = 0 BY <2>1 DEF SeedRows
 <2>2. CASE Seed[a] # 0
  <3>1. Seed[a] \in Amounts /\ Seed[a] \in Nat BY <2>2, SeedKnown, AmountsPositive
  <3> DEFINE row == [account |-> a, currency |-> "coins", direction |-> "credit",
                     amount |-> Seed[a], key |-> SeedKey, balanceAfter |-> Seed[a]]
  <3>2. row \in Row BY <3>1, SeedKnown, CoinsAreCurrency DEF Row, Directions
  <3>3. SeedRows(a) = <<row>> BY <2>2 DEF SeedRows
  <3> QED BY <3>1, <3>2, <3>3
 <2> QED BY <2>1, <2>2
<1>2. /\ balance \in [Accounts -> [Currencies -> Nat]]
      /\ ledger \in [Accounts -> [Currencies -> Seq(Row)]]
  BY <1>1 DEF SeededLedger
<1>3. \A a \in Accounts, cur \in Currencies : ledger[a][cur] = SeedRows(a) BY DEF SeededLedger
<1>4. \A x, y \in CoinRows : x.account = y.account => x = y BY <1>1, <1>3, InCoins, CoinsAreCurrency
<1> QED BY <1>1, <1>2, <1>3, <1>4 DEF Books
-----------------------------
\* An account was charged, or was given, something under key k.
Booked(a, k) == \E row \in CoinRows : row.account = a /\ row.key = k

CoinMove(r) == r \in Request(Accounts) /\ r.currency = "coins" /\ r.key # SeedKey

\* What a call of the wallet does to the rows.
Entered(r) ==
  /\ CoinRows \subseteq CoinRows'
  /\ \A row \in CoinRows' \ CoinRows : row = RowOf(r, row.balanceAfter) /\ ~Booked(r.account, r.key)

\* A key that was used for coins is on a row of coins.
LEMMA UsedIsBooked ==
  ASSUME Books, NEW r, CoinMove(r), KeyUsed(r.account, r.key)
  PROVE  Booked(r.account, r.key)
  BY InCoins DEF Books, CoinMove, KeyUsed, Booked, Request

\* A movement that is applied adds one row, under the account and key it asked for.
LEMMA Applied ==
  ASSUME Books, NEW r, CoinMove(r), Apply(r)
  PROVE  Books' /\ Entered(r) /\ Moved(r)'
<1> DEFINE next == balance[r.account][r.currency] + Delta(r)
           row == RowOf(r, next)
           old == ledger[r.account]["coins"]
<1>1. r.account \in Accounts /\ r.amount \in Nat /\ r.direction \in Directions /\ next \in Nat
 <2>1. r.account \in Accounts /\ r.amount \in Nat /\ r.direction \in Directions
   BY AmountsPositive DEF CoinMove, Request
 <2> QED BY <2>1, CoinsAreCurrency DEF Apply, Affordable, Delta, Books, Directions, CoinMove
<1>2. row \in Row BY <1>1 DEF RowOf, Row, CoinMove, Request
<1>3. old \in Seq(Row) BY <1>1, CoinsAreCurrency DEF Books
<1>4. /\ balance' \in [Accounts -> [Currencies -> Nat]]
      /\ ledger' \in [Accounts -> [Currencies -> Seq(Row)]]
 <2>1. balance' = [balance EXCEPT ![r.account]["coins"] = next] BY DEF Apply, CoinMove
 <2>2. ledger' = [ledger EXCEPT ![r.account]["coins"] = Append(@, row)] BY DEF Apply, CoinMove
 <2>3. Append(old, row) \in Seq(Row) BY <1>2, <1>3
 <2> QED BY <1>1, <2>1, <2>2, <2>3, CoinsAreCurrency DEF Books
<1>5. ledger'[r.account]["coins"] = Append(old, row) BY <1>1, CoinsAreCurrency DEF Apply, Books, CoinMove
<1>6. \A a \in Accounts, cur \in Currencies : a # r.account \/ cur # "coins" =>
        ledger'[a][cur] = ledger[a][cur]
  BY <1>1 DEF Apply, Books, CoinMove
<1>7. /\ \A i \in DOMAIN old : i \in DOMAIN ledger'[r.account]["coins"]
                                /\ ledger'[r.account]["coins"][i] = old[i]
      /\ \A i \in DOMAIN ledger'[r.account]["coins"] :
           \/ i \in DOMAIN old /\ ledger'[r.account]["coins"][i] = old[i]
           \/ ledger'[r.account]["coins"][i] = row
      /\ \E i \in DOMAIN ledger'[r.account]["coins"] : ledger'[r.account]["coins"][i] = row
 <2>1. DOMAIN old = 1..Len(old) /\ DOMAIN Append(old, row) = 1..(Len(old) + 1) BY <1>3
 <2>2. Append(old, row)[Len(old) + 1] = row /\ Len(old) \in Nat BY <1>3
 <2>3. \A i \in 1..Len(old) : Append(old, row)[i] = old[i] BY <1>3, SMTT(30)
 <2>4. \A i \in DOMAIN old : i \in DOMAIN Append(old, row) /\ Append(old, row)[i] = old[i]
   BY <2>1, <2>2, <2>3
 <2>5. \A i \in DOMAIN Append(old, row) : i \in DOMAIN old \/ i = Len(old) + 1 BY <2>1, <2>2
 <2>6. Len(old) + 1 \in DOMAIN Append(old, row) BY <2>1, <2>2
 <2> HIDE DEF old, row
 <2> QED BY <1>5, <2>2, <2>4, <2>5, <2>6
<1>8. CoinRows' = CoinRows \cup {row}
 <2>1. \A x : x \in CoinRows' <=>
          \E a \in Accounts : \E i \in DOMAIN ledger'[a]["coins"] : x = ledger'[a]["coins"][i]
   BY DEF CoinRows
 <2>2. \A x \in CoinRows' : x \in CoinRows \/ x = row BY <1>1, <1>6, <1>7, <2>1, InCoins, CoinsAreCurrency
 <2>3. \A x \in CoinRows : x \in CoinRows' BY <1>1, <1>6, <1>7, <2>1, InCoins, CoinsAreCurrency
 <2>4. row \in CoinRows' BY <1>1, <1>7, <2>1
 <2> QED BY <2>2, <2>3, <2>4
<1>9. row.account = r.account /\ row.key = r.key /\ row.balanceAfter = next BY DEF RowOf
<1>10. ~Booked(r.account, r.key)
  BY InCoins, CoinsAreCurrency, CoinRowsTyped DEF Apply, KeyUsed, Booked, Books
<1>11. \A a \in Accounts, cur \in Currencies : \A i \in DOMAIN ledger'[a][cur] :
         /\ ledger'[a][cur][i].account = a
         /\ cur # "coins" => ledger'[a][cur][i].key = SeedKey
 <2>1. ASSUME NEW a \in Accounts, NEW cur \in Currencies, NEW i \in DOMAIN ledger'[a][cur],
              a # r.account \/ cur # "coins"
       PROVE  /\ ledger'[a][cur][i].account = a
              /\ cur # "coins" => ledger'[a][cur][i].key = SeedKey
   BY <1>6, <2>1 DEF Books
 <2>2. ASSUME NEW i \in DOMAIN ledger'[r.account]["coins"]
       PROVE  ledger'[r.account]["coins"][i].account = r.account
  <3>1. CASE i \in DOMAIN old /\ ledger'[r.account]["coins"][i] = old[i]
    BY <1>1, <3>1, CoinsAreCurrency DEF Books
  <3>2. CASE ledger'[r.account]["coins"][i] = row BY <1>9, <3>2
  <3> QED BY <1>7, <3>1, <3>2
 <2> QED BY <2>1, <2>2
<1>12. \A x, y \in CoinRows' : x.account = y.account /\ x.key = y.key => x = y
  BY <1>8, <1>9, <1>10 DEF Booked, Books
<1>13. Books' BY <1>4, <1>11, <1>12 DEF Books
<1>14. Entered(r) /\ Moved(r)' BY <1>8, <1>9, <1>10 DEF Entered, Moved
<1> QED BY <1>13, <1>14

\* A call of the wallet enters one row or none; a success is on the books, and
\* so is a credit whatever its answer.
LEMMA Settled ==
  ASSUME Books, NEW r, CoinMove(r), Settle(r)
  PROVE  /\ Books' /\ Entered(r)
         /\ Succeeds(r) => Moved(r)'
         /\ ~Succeeds(r) => CoinRows' = CoinRows
         /\ r.direction = "credit" => Booked(r.account, r.key)'
<1>1. CASE Outcome(r) = "applied"
 <2>1. Books' /\ Entered(r) /\ Moved(r)' BY <1>1, Applied DEF Settle
 <2>2. Moved(r)' => Booked(r.account, r.key)' BY DEF Moved, Booked, RowOf
 <2> QED BY <1>1, <2>1, <2>2 DEF Succeeds
<1>2. CASE Outcome(r) # "applied"
 <2>1. UNCHANGED <<balance, ledger>> BY <1>2 DEF Settle, ledgerVars
 <2>2. CoinRows' = CoinRows /\ Books' /\ Entered(r)
  <3>1. CoinRows' = CoinRows BY <2>1 DEF CoinRows
  <3> QED BY <2>1, <3>1 DEF Books, Entered
 <2>3. r.direction = "credit" => Booked(r.account, r.key)'
  <3>1. ASSUME r.direction = "credit" PROVE Affordable(r)
   <4>1. r.account \in Accounts /\ r.amount \in Nat BY AmountsPositive DEF CoinMove, Request
   <4>2. balance[r.account]["coins"] \in Nat BY <4>1, CoinsAreCurrency DEF Books
   <4> QED BY <3>1, <4>1, <4>2 DEF Affordable, Delta, CoinMove
  <3>2. Affordable(r) => KeyUsed(r.account, r.key) BY <1>2 DEF Outcome
  <3> QED BY <2>1, <2>2, <3>1, <3>2, UsedIsBooked DEF Booked
 <2>4. ASSUME Succeeds(r)
       PROVE  Moved(r)'
  <3>1. PICK cur \in Currencies : \E i \in DOMAIN ledger[r.account][cur] :
          /\ ledger[r.account][cur][i].key = r.key
          /\ SameOperation(ledger[r.account][cur][i], r)
    BY <1>2, <2>4 DEF Succeeds, Outcome
  <3>2. PICK i \in DOMAIN ledger[r.account][cur] :
          /\ ledger[r.account][cur][i].key = r.key
          /\ SameOperation(ledger[r.account][cur][i], r)
    BY <3>1
  <3> DEFINE row == ledger[r.account][cur][i]
  <3>3. r.account \in Accounts /\ row \in Row /\ row.account = r.account /\ cur = "coins"
    BY <3>2 DEF Books, CoinMove, Request
  <3>4. row \in CoinRows BY <3>2, <3>3, InCoins
  <3>5. row = RowOf(r, row.balanceAfter) BY <3>2, <3>3 DEF Row, RowOf, SameOperation
  <3> QED BY <2>2, <3>4, <3>5 DEF Moved
 <2> QED BY <2>2, <2>3, <2>4
<1> QED BY <1>1, <1>2
=============================
