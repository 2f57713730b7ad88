-------- MODULE FeatureStore --------
(***************************************************************************)
(* FeatureStore over PostgresFeatureRecordRepository: the table            *)
(* feature_records, in which feature-platform.js keeps its relations,      *)
(* rooms, memberships, tracks, tickets.  Records are added and patched,    *)
(* never deleted.  Nothing in the table is unique but the id, and an       *)
(* update is a SELECT of the row, a merge in the server, and an UPDATE of  *)
(* the whole row.                                                          *)
(***************************************************************************)
EXTENDS AccountIds, RequestHandlers, Sequences, FiniteSets

VARIABLES records,  \* the rows, in the order of created_at; a row's id is its place
          writes,   \* history: statements that have written
          trace     \* history: for every row, which requests wrote it, when they
                    \* began and when they wrote, in numbers of writes

storeVars == <<handlerVars, records, writes, trace>>

StoreInit(seed) ==
  /\ records = seed
  /\ writes = 0
  /\ trace = [i \in 1..Len(seed) |-> {}]

\* { ...r, ...p }.
Merge(r, p) ==
  [f \in DOMAIN r \cup DOMAIN p |-> IF f \in DOMAIN p THEN p[f] ELSE r[f]]

Where(P(_)) == {i \in 1..Len(records) : P(records[i])}

\* store.find: the oldest record P holds of, or 0.
Find(P(_)) ==
  LET found == Where(P)
  IN IF found = {} THEN 0 ELSE CHOOSE i \in found : \A j \in found : i <= j

\* A request of kind op by account a about key; todo and read are the updates
\* it has still to read and those it has read and has still to write.
Request(op, a, key, at) ==
  [op |-> op, at |-> at, key |-> key, who |-> a, began |-> writes,
   todo |-> {}, read |-> {}, then |-> "end"]

\* The request continues with step at, or ends.
Onward(h, j, at) ==
  job' = [job EXCEPT ![h] = IF at = "end" THEN Idle ELSE [j EXCEPT !.at = at]]

\* j, about to add record r or to run updates, and then step at.
Adding(j, r, at) == Merge(j, [at |-> "add", then |-> at, new |-> r])
Updating(j, todo, at) ==
  [j EXCEPT !.at = IF todo = {} THEN at ELSE "update", !.todo = todo, !.then = at]
Update(i, patch) == [id |-> i, patch |-> patch]

\* h begins with request j, or goes on as j.
Begin(h, j) == Accept(h, j) /\ UNCHANGED <<issued, records, writes, trace>>
Become(h, j) ==
  /\ job' = [job EXCEPT ![h] = IF j.at = "end" THEN Idle ELSE j]
  /\ UNCHANGED <<accepted, issued, dropped, time, notices, records, writes, trace>>

\* A request writes to a table of its own, and goes on as j.
Wrote(h, j) ==
  /\ job' = [job EXCEPT ![h] = IF j.at = "end" THEN Idle ELSE j]
  /\ writes' = writes + 1
  /\ UNCHANGED <<accepted, issued, dropped, time, notices, records, trace>>

\* A request that is one statement.
Once(h) ==
  /\ Ready(h)
  /\ accepted' = accepted + 1
  /\ UNCHANGED <<job, issued, dropped, time, notices, records, trace>>

Span(h) == [op |-> job[h].op, began |-> job[h].began, wrote |-> writes + 1]

\* INSERT INTO feature_records; the request knows the id of what it made.
AddRow(h) ==
  /\ job[h].at = "add"
  /\ records' = Append(records, job[h].new)
  /\ trace' = Append(trace, {Span(h)})
  /\ writes' = writes + 1
  /\ Onward(h, Merge(job[h], [made |-> Len(records) + 1]), job[h].then)
  /\ UNCHANGED <<accepted, issued, dropped, time, notices>>

\* The SELECT of an update; updates awaited together run in any order.
ReadRow(h) ==
  /\ job[h].at = "update"
  /\ \E u \in job[h].todo :
        job' = [job EXCEPT ![h].todo = @ \ {u},
                           ![h].read = @ \cup {[u |-> u, copy |-> records[u.id]]}]
  /\ UNCHANGED <<accepted, issued, dropped, time, notices, records, writes, trace>>

\* The UPDATE: the patch, merged into the copy that was read.
WriteRow(h) ==
  /\ job[h].at = "update"
  /\ \E r \in job[h].read :
        /\ records' = [records EXCEPT ![r.u.id] = Merge(r.copy, r.u.patch)]
        /\ trace' = [trace EXCEPT ![r.u.id] = @ \cup {Span(h)}]
        /\ Onward(h, [job[h] EXCEPT !.read = @ \ {r}],
                  IF job[h].todo = {} /\ job[h].read = {r} THEN job[h].then ELSE "update")
  /\ writes' = writes + 1
  /\ UNCHANGED <<accepted, issued, dropped, time, notices>>

\* The request ends half-way; dropped keeps its kind with its key.
CutOff(h) ==
  /\ job[h] # Idle
  /\ dropped' = dropped \cup {<<job[h].op, job[h].key>>}
  /\ job' = [job EXCEPT ![h] = Idle]
  /\ UNCHANGED <<accepted, issued, time, notices, records, writes, trace>>

WasCutOff(op, key) == <<op, key>> \in dropped

StoreStep(h) == AddRow(h) \/ ReadRow(h) \/ WriteRow(h)
-----------------------------
\* A request that wrote in span s began before one wrote in span t, and wrote after.
Overtook(s, t) == s.began < t.wrote /\ t.wrote < s.wrote

\* Requests that wrote i and j were at work at the same time.
Overlap(i, j) ==
  \E s \in trace[i], t \in trace[j] : Overtook(s, t) \/ Overtook(t, s)

\* Two requests that wrote record i were.
Disordered(i) == Overlap(i, i)

\* The last write of record i.
LastWrite(i) ==
  LET ends == {s.wrote : s \in trace[i]}
  IN IF ends = {} THEN 0 ELSE CHOOSE n \in ends : \A m \in ends : m <= n

\* A request that wrote i began after n writes.
BegunSince(i, n) == \E s \in trace[i] : s.began >= n
=============================
