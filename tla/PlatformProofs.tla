-------- MODULE PlatformProofs --------
(***************************************************************************)
(* Theorems about Platform, from the lemmas of PlatformRows.               *)
(***************************************************************************)
EXTENDS PlatformRows
-----------------------------
\* Everything that is kept right about logging in and staying in.
LoginInv == SessionsTyped /\ ServedSound /\ CodesInv /\ CodesApart /\ BoundInv

\* It is right before anybody has logged in.
LEMMA InitLogins ==
  ASSUME PlatformInit
  PROVE  LoginInv
<1>1. /\ existing = {} /\ deletedAt = [a \in Accounts |-> 0] /\ identities = [p \in Phones |-> NoAccount]
      /\ challenges = [p \in Phones |-> NoCode] /\ sessions = <<>> /\ attempts = {} /\ bound = {} /\ served = {}
      /\ job = [h \in Handlers |-> Idle] /\ writes = 0
  BY DEF PlatformInit, SessionsInit, HandlersInit, StoreInit
<1>2. SessionsData
 <2>1. Sequence(sessions) /\ Len(sessions) = 0 BY <1>1, EmptySequence
 <2> QED BY <1>1, <2>1 DEF SessionsData
<1>3. SessionsTyped BY <1>1, <1>2 DEF SessionsTyped, SessionJob, Idle
<1>4. ServedSound BY <1>1 DEF ServedSound, ServedOnlyLive
<1>5. CodesInv
 <2>1. NoCode \in [code : 0..writes, tries : 0..MaxTries] BY <1>1, TriesAssumption DEF NoCode
 <2>2. challenges \in [Phones -> [code : 0..writes, tries : 0..MaxTries]] BY <1>1, <2>1
 <2>3. IsFiniteSet(attempts) BY <1>1, FS_EmptySet
 <2>4. \A h \in Handlers : ~AtCode(job[h]) BY <1>1 DEF AtCode, Idle
 <2>5. \A p \in Phones : PhoneCode(p) BY <1>1 DEF PhoneCode
 <2> QED BY <1>1, <2>2, <2>3, <2>4, <2>5 DEF CodesInv
<1>6. CodesApart BY <1>1 DEF CodesApart, AtCode, Idle, NoCode
<1>7. BoundInv BY <1>1 DEF BoundInv
<1> QED BY <1>3, <1>4, <1>5, <1>6, <1>7 DEF LoginInv

\* It stays right.
LEMMA LoginsKeep ==
  ASSUME Inv1, LoginInv, [PlatformNext]_platformVars
  PROVE  LoginInv'
  BY SessionsKeep, CodesKeep, BoundKeep DEF LoginInv

\* And it says what was to be shown.
LEMMA LoginsFollow ==
  ASSUME LoginInv
  PROVE  LoginsSound
<1>1. ServedOnlyLive BY DEF LoginInv, ServedSound
<1>2. ASSUME NEW c \in {x.code : x \in attempts}
      PROVE  LET mine == {x \in attempts : x.code = c} IN
             \/ \E x, y \in mine : x.by # y.by /\ Together(x, y)
             \/ /\ Cardinality({x \in mine : x.opened}) <= 1
                /\ Cardinality({x \in mine : ~x.opened}) <= MaxTries
 <2>1. CodeBound(c) BY DEF LoginInv, CodesInv
 <2> QED BY <2>1 DEF CodeBound, Clash, Opened, Failed, Mine
<1>3. CodesSound BY <1>2 DEF CodesSound, LoginInv, BoundInv
<1> QED BY <1>1, <1>3 DEF LoginsSound
-----------------------------
\* What the table of notifications keeps.
NoticeEntry(e) ==
  /\ {"to", "from", "category", "status", "op", "began"} \subseteq DOMAIN e
  /\ e.status \in {"read", "unread"} /\ e.to \in Accounts
\* The table is one of them.
NoticeTyped == Sequence(inbox) /\ \A n \in 1..Len(inbox) : NoticeEntry(inbox[n])

\* Only a step of the notifications writes to their tables.
LEMMA NoticeCases ==
  ASSUME [PlatformNext]_platformVars
  PROVE  UNCHANGED noticeVars \/ Notices
  BY DEF PlatformNext, platformVars, Viewing, Hiding, Administering, Happening, Staying, Records,
     Socializing, Chatting, KeepingAway, Rooming, BreakingOut, PlayingMusic, Supporting, LoggingIn

\* What happens to the table of notifications.
InboxKept == \A n \in 1..Len(inbox) : n \in 1..Len(inbox')
  /\ \A f \in {"to", "from", "category", "op", "began"} : inbox'[n][f] = inbox[n][f]

\* A notification is stored.
LEMMA NoticeAdded ==
  ASSUME NoticeTyped, NEW e, NoticeEntry(e), inbox' = Append(inbox, e)
  PROVE  NoticeTyped' /\ InboxKept /\ Len(inbox') = Len(inbox) + 1 /\ inbox'[Len(inbox) + 1] = e
<1>1. Sequence(inbox) BY DEF NoticeTyped
<1>2. /\ Sequence(inbox') /\ Len(inbox') = Len(inbox) + 1 /\ Len(inbox) \in Nat
      /\ \A n \in 1..Len(inbox) : inbox'[n] = inbox[n]
      /\ inbox'[Len(inbox) + 1] = e
  BY <1>1, SequenceAppend, SequencePlaces
<1>3. \A n \in 1..Len(inbox') : n \in 1..Len(inbox) \/ n = Len(inbox) + 1 BY <1>2
<1> QED BY <1>2, <1>3 DEF NoticeTyped, InboxKept

\* Notifications are marked as read.
LEMMA NoticesRead ==
  ASSUME NoticeTyped, Sequence(inbox'), Len(inbox') = Len(inbox),
         \A n \in 1..Len(inbox) : inbox'[n] \in {inbox[n], [inbox[n] EXCEPT !.status = "read"]}
  PROVE  NoticeTyped' /\ InboxKept
<1>1. ASSUME NEW n \in 1..Len(inbox)
      PROVE  NoticeEntry(inbox'[n])
               /\ \A f \in {"to", "from", "category", "op", "began"} : inbox'[n][f] = inbox[n][f]
  BY DEF NoticeTyped, NoticeEntry
<1> QED BY <1>1 DEF NoticeTyped, InboxKept

\* What a step does to the table of notifications.
LEMMA NoticesKeep ==
  ASSUME Inv1, NoticeTyped, [PlatformNext]_platformVars
  PROVE  NoticeTyped' /\ InboxKept
<1>1. CASE UNCHANGED inbox BY <1>1 DEF NoticeTyped, InboxKept
<1>2. CASE \E h \in Handlers : CreateNotification(h)
 <2>1. PICK h \in Handlers : CreateNotification(h) BY <1>2
 <2> DEFINE j == job[h]
            e == [to |-> j.to, from |-> j.who, category |-> j.category, status |-> "unread", op |-> j.op,
              began |-> j.began]
 <2>2. inbox' = Append(inbox, e) /\ j.at = "notify" BY <2>1 DEF CreateNotification
 <2>3. Typed(j) BY <2>2 DEF Inv1, JobsTyped, Idle
 <2>4. j.to \in Accounts BY <2>2, <2>3 DEF Typed, Fits, Telling1, Told, Carries, Tells
 <2>5. NoticeEntry(e) BY <2>4 DEF NoticeEntry
 <2> HIDE DEF e
 <2> QED BY <2>2, <2>5, NoticeAdded
<1>3. CASE \E h \in Handlers : MarkRead(h)
 <2>1. PICK h \in Handlers : inbox' = [inbox EXCEPT ![job[h].key].status = "read"] BY <1>3 DEF MarkRead
 <2> DEFINE k == job[h].key
            x == [inbox[k] EXCEPT !.status = "read"]
 <2>2. inbox' = [inbox EXCEPT ![k] = x] BY <2>1
 <2>3. Sequence(inbox) BY DEF NoticeTyped
 <2>4. \A n \in 1..Len(inbox) : inbox'[n] \in {inbox[n], [inbox[n] EXCEPT !.status = "read"]}
  <3>1. DOMAIN inbox = 1..Len(inbox) BY <2>3, SequencePlaces
  <3>2. \A n \in 1..Len(inbox) : inbox'[n] = IF n = k THEN x ELSE inbox[n] BY <2>2, <3>1
  <3> QED BY <3>2, Zenon
 <2> HIDE DEF k, x
 <2>5. Sequence(inbox') /\ Len(inbox') = Len(inbox)
  <3>1. Sequence([inbox EXCEPT ![k] = x]) /\ Len([inbox EXCEPT ![k] = x]) = Len(inbox)
    BY <2>3, SequenceExcept
  <3> QED BY <2>2, <3>1
 <2> QED BY <2>4, <2>5, NoticesRead
<1>4. CASE \E h \in Handlers : \E a \in Accounts : MarkAllRead(h, a)
 <2>1. PICK a \in Accounts :
         inbox' = [n \in 1..Len(inbox) |-> IF inbox[n].to = a THEN [inbox[n] EXCEPT !.status = "read"] ELSE inbox[n]]
   BY <1>4 DEF MarkAllRead
 <2>2. Len(inbox) \in Nat BY SequencePlaces DEF NoticeTyped
 <2>3. Sequence(inbox') /\ Len(inbox') = Len(inbox)
  <3>1. DOMAIN inbox' = 1..Len(inbox) /\ inbox' = [n \in 1..Len(inbox) |-> inbox'[n]] BY <2>1
  <3> QED BY <2>2, <3>1, SequenceOf
 <2>4. \A n \in 1..Len(inbox) : inbox'[n] \in {inbox[n], [inbox[n] EXCEPT !.status = "read"]} BY <2>1
 <2> QED BY <2>3, <2>4, NoticesRead
<1>5. Notices => \/ UNCHANGED inbox
                 \/ \E h \in Handlers : CreateNotification(h)
                 \/ \E h \in Handlers : MarkRead(h)
                 \/ \E h \in Handlers : \E a \in Accounts : MarkAllRead(h, a)
  BY Zenon DEF Notices, NotifyStep, NoticeRequest, ReadPreferences, ListDevices, Push, Prune, StartRead,
     Redeliver, SetPreferences, RegisterDevice, RemoveDevice, noticeVars
<1> QED BY <1>1, <1>2, <1>3, <1>4, <1>5, NoticeCases DEF noticeVars
-----------------------------
\* What everything else rests on.
PlatformInv == Inv1 /\ NoticeTyped /\ LoginInv

\* It is so to begin with.
LEMMA InitPlatform ==
  ASSUME PlatformInit
  PROVE  PlatformInv
<1>1. NoticeTyped
 <2>1. inbox = <<>> BY DEF PlatformInit, NotificationsInit
 <2> QED BY <2>1, EmptySequence DEF NoticeTyped
<1> QED BY <1>1, InitInv1, InitLogins DEF PlatformInv

\* It stays so.
LEMMA PlatformKeeps ==
  ASSUME PlatformInv, [PlatformNext]_platformVars
  PROVE  PlatformInv'
  BY Inv1Keeps, NoticesKeep, LoginsKeep DEF PlatformInv

\* It says what the types were to be.
LEMMA TypesFollow ==
  ASSUME PlatformInv
  PROVE  PlatformTypeOK
<1>1. Inv1 /\ NoticeTyped /\ LoginInv BY DEF PlatformInv
<1>2. StoreTyped /\ ChatTyped /\ SessionsData BY <1>1 DEF Inv1, LoginInv, SessionsTyped
<1>3. /\ Len(trace) = Len(records)
      /\ \A i \in 1..Len(records) : \A s \in trace[i] : s.began < s.wrote /\ s.wrote <= writes
  BY <1>2 DEF StoreTyped, Rows
<1>4. \A i \in Kind("track") : records[i].position \in Nat
  BY <1>2 DEF StoreTyped, Rows, WellFormed, Kind, Where
<1>5. \A n \in 1..Len(inbox) : inbox[n].status \in {"read", "unread"} /\ inbox[n].to \in Accounts
  BY <1>1 DEF NoticeTyped, NoticeEntry
<1>6. \A c \in Pairs : IsOpen(c) => conversations[c].opener \in c BY <1>2 DEF ChatTyped
<1>7. \A n \in 1..Len(sessions) : sessions[n].account \in existing BY <1>2 DEF SessionsData
<1> QED BY <1>3, <1>4, <1>5, <1>6, <1>7 DEF PlatformTypeOK

\* The services' records, tables and histories are what they should be, in
\* every state (feature-platform.js and the stores beside it).
THEOREM PlatformTypeCorrect == PlatformSpec => []PlatformTypeOK
<1>1. PlatformInit => PlatformInv BY InitPlatform
<1>2. PlatformInv /\ [PlatformNext]_platformVars => PlatformInv' BY PlatformKeeps
<1>3. PlatformInv => PlatformTypeOK BY TypesFollow
<1> QED BY <1>1, <1>2, <1>3, PTL DEF PlatformSpec

\* Nobody is let in without a session that lives, a code opens one login, and
\* a phone gets one account, whatever overlaps whatever.
THEOREM LoginsAreSound == PlatformSpec => []LoginsSound
<1>1. PlatformInit => PlatformInv BY InitPlatform
<1>2. PlatformInv /\ [PlatformNext]_platformVars => PlatformInv' BY PlatformKeeps
<1>3. PlatformInv => LoginsSound BY LoginsFollow DEF PlatformInv
<1> QED BY <1>1, <1>2, <1>3, PTL DEF PlatformSpec
-----------------------------
(* The audit log.  What suspended an account is the log, replayed, but for
   one deed that is on its way to the log: it has been applied to what the
   log says, or the log has an entry that was made since it began. *)
\* What staff do to accounts.
Deeds == {"suspend", "unsuspend"}
\* Deeds that the log has.
Entered == {audit[n].deed : n \in 1..Len(audit)}

\* Deeds to account a that the log has not.
Missing(a) == {d \in deeds : d.target = a /\ d \notin Entered}

\* Two entries about a are of requests that overlapped.
Crossed(a) ==
  \E n, m \in 1..Len(audit) :
     /\ n # m /\ audit[n].deed.target = a /\ audit[m].deed.target = a
     /\ Together([began |-> audit[n].deed.began, wrote |-> audit[n].wrote],
                 [began |-> audit[m].deed.began, wrote |-> audit[m].wrote])

\* Something about a was logged after deed d began.
LoggedSince(a, d) == \E n \in 1..Len(audit) : audit[n].deed.target = a /\ d.began < audit[n].wrote

\* Who has suspended the account after deed d, if who had before it.
Applied(who, d) == IF d.action = "unsuspend" THEN Nobody ELSE IF who = Nobody THEN d.by ELSE who

\* Who suspended a is what the log says, or will say.
Accounted(a) ==
  \/ Crossed(a)
  \/ Missing(a) = {} /\ suspendedBy[a] = Replay(a)
  \/ \E d, e \in Missing(a) : d # e
  \/ \E d \in Missing(a) : LoggedSince(a, d) \/ suspendedBy[a] = Applied(Replay(a), d)

\* What the tables of suspensions and of the log keep.
AdminData ==
  /\ DOMAIN suspendedBy = Accounts
  /\ Sequence(audit)
  /\ \A n \in 1..Len(audit) :
       /\ audit[n].deed.began \in 0..writes /\ audit[n].wrote \in 1..writes
       /\ audit[n].deed.action \in Deeds => audit[n].deed \in deeds
  /\ \A d \in deeds : d.began \in 0..writes /\ d.nth \in Nat /\ d.nth < accepted /\ d.action \in Deeds
       /\ d.by \in Admins

\* What a request carries that suspends or ends a suspension: its deed is new,
\* and then not yet logged.
StaffJob(j) ==
  j.op \in Deeds =>
    /\ j.key \in Accounts /\ j.who \in Admins /\ j.at \in {"set", "audit"} /\ j.nth \in Nat /\ j.nth < accepted
    /\ j.at = "set" => \A d \in deeds : d.nth # j.nth
    /\ j.at = "audit" => Deed(j) \in deeds \ Entered

\* Requests of staff have numbers of their own.
StaffApartInv ==
  /\ \A h \in Handlers : StaffJob(job[h])
  /\ \A g, h \in Handlers : g # h /\ job[g].op \in Deeds /\ job[h].op \in Deeds => job[g].nth # job[h].nth

\* A deed is logged, failed to be, was cut off before or is about to be.
DeedKept(d) ==
  \/ d \in Entered \cup unlogged \/ WasCutOff(d.action, d.target)
  \/ \E h \in Handlers : job[h].op \in Deeds /\ job[h].at = "audit" /\ Deed(job[h]) = d

\* A request that closes the room writes once.
CloseJob(j) ==
  j.op = "closeRoom" =>
    /\ j.key = 1
    /\ \/ j.at = "audit"
       \/ j.at = "update" /\ j.then = "audit" /\ j.todo = {} /\ \E r \in j.read : j.read = {r} /\ r.u.id = 1
       \/ j.at = "update" /\ j.then = "audit" /\ j.read = {} /\ \E u \in j.todo : j.todo = {u} /\ u.id = 1

\* So is the closing of a room.
ClosingKept(r, s) ==
  \/ \E d \in Entered \cup unlogged : d.action = "closeRoom" /\ d.began = s.began
  \/ WasCutOff("closeRoom", r)
  \/ \E h \in Handlers : job[h].op = "closeRoom" /\ job[h].key = r /\ job[h].at = "audit" /\ job[h].began = s.began

\* What is kept right of suspensions, and of the closing of rooms.
DeedsInv == AdminData /\ StaffApartInv /\ (\A d \in deeds : DeedKept(d)) /\ \A a \in Accounts : Accounted(a)
\* What is kept right of closings.
ClosingsInv ==
  /\ \A h \in Handlers : CloseJob(job[h])
  /\ \A r \in Rows : \A s \in trace[r] : s.op = "closeRoom" => ClosingKept(r, s)
-----------------------------
\* Who first suspended, since the last suspension ended.
Since(a) == {n \in Entries("suspend", a) : \A m \in Entries("unsuspend", a) : m < n}

\* An entry more in the log.
LEMMA EntryAdded ==
  ASSUME AdminData, NEW e, audit' = Append(audit, e)
  PROVE  /\ Len(audit) \in Nat /\ Len(audit') = Len(audit) + 1 /\ Sequence(audit')
         /\ \A n \in 1..Len(audit) : audit'[n] = audit[n]
         /\ audit'[Len(audit) + 1] = e
         /\ \A n : n \in 1..Len(audit') <=> n \in 1..Len(audit) \/ n = Len(audit) + 1
         /\ Entered' = Entered \cup {e.deed}
<1>1. Sequence(audit) BY DEF AdminData
<1>2. /\ Len(audit) \in Nat /\ Len(audit') = Len(audit) + 1 /\ Sequence(audit')
      /\ \A n \in 1..Len(audit) : audit'[n] = audit[n]
      /\ audit'[Len(audit) + 1] = e
  BY <1>1, SequenceAppend, SequencePlaces
<1>3. \A n : n \in 1..Len(audit') <=> n \in 1..Len(audit) \/ n = Len(audit) + 1 BY <1>2
<1>4. Entered' = {audit'[n].deed : n \in 1..Len(audit')} BY DEF Entered
<1>5. Entered' = Entered \cup {e.deed} BY <1>2, <1>3, <1>4, Zenon DEF Entered
<1> QED BY <1>2, <1>3, <1>5

\* What the log says after an entry more: what it said, with the deed applied.
LEMMA ReplayGoesOn ==
  ASSUME AdminData, NEW e, audit' = Append(audit, e), e.deed.action \in Deeds, e.deed.by # Nobody, NEW a,
         e.deed.target = a
  PROVE  Replay(a)' = Applied(Replay(a), e.deed)
<1> DEFINE l == Len(audit) + 1
           S == Since(a)
           T == Since(a)'
           U == Entries("unsuspend", a)
<1>1. /\ Len(audit) \in Nat
      /\ \A n \in 1..Len(audit) : audit'[n] = audit[n]
      /\ audit'[l] = e
      /\ \A n : n \in 1..Len(audit') <=> n \in 1..Len(audit) \/ n = l
  BY EntryAdded
<1>2. \A x : \A n : n \in Entries(x, a)' <=> n \in Entries(x, a) \/ (n = l /\ e.deed.action = x)
 <2>1. \A x : \A n : n \in Entries(x, a)' <=> n \in 1..Len(audit') /\ audit'[n].deed.action = x
         /\ audit'[n].deed.target = a
   BY DEF Entries
 <2> QED BY <1>1, <2>1 DEF Entries
<1>3. \A x : \A n \in Entries(x, a) : n \in Nat /\ n < l BY <1>1 DEF Entries
<1>4. Replay(a) = IF S = {} THEN Nobody ELSE audit[CHOOSE n \in S : \A m \in S : n <= m].deed.by
  BY DEF Replay, Since
<1>5. Replay(a)' = IF T = {} THEN Nobody ELSE audit'[CHOOSE n \in T : \A m \in T : n <= m].deed.by
  BY DEF Replay, Since
<1>6. \A n : n \in S <=> n \in Entries("suspend", a) /\ \A m \in Entries("unsuspend", a) : m < n
  BY DEF Since
<1>7. \A n : n \in T <=> n \in Entries("suspend", a)' /\ \A m \in Entries("unsuspend", a)' : m < n
  BY DEF Since
<1> HIDE DEF S, T
<1>8. CASE e.deed.action = "unsuspend"
 <2>1. l \in Entries("unsuspend", a)' BY <1>2, <1>8
 <2>2. \A n \in Entries("suspend", a)' : n \in Nat /\ n < l BY <1>2, <1>3, <1>8
 <2>3. \A n \in T : FALSE
  <3> SUFFICES ASSUME NEW n \in T PROVE FALSE OBVIOUS
  <3>1. l < n /\ n < l /\ n \in Nat BY <1>7, <2>1, <2>2
  <3> QED BY <1>1, <3>1
 <2> QED BY <1>5, <1>8, <2>3 DEF Applied
<1>9. CASE e.deed.action = "suspend"
 <2>1. \A n : n \in T <=> n \in S \/ n = l
  <3>1. \A n : n \in Entries("unsuspend", a)' <=> n \in Entries("unsuspend", a) BY <1>2, <1>9
  <3>2. \A n : n \in Entries("suspend", a)' <=> n \in Entries("suspend", a) \/ n = l BY <1>2, <1>9
  <3>3. \A m \in Entries("unsuspend", a) : m < l BY <1>3
  <3> QED BY <1>6, <1>7, <3>1, <3>2, <3>3, Zenon
 <2>2. \A n \in S : n \in Nat /\ n < l /\ n \in 1..Len(audit) BY <1>3, <1>6 DEF Entries
 <2>3. CASE S = {}
  <3>1. T = {l} BY <2>1, <2>3
  <3>2. (CHOOSE n \in {l} : \A m \in {l} : n <= m) = l BY <1>1
  <3> QED BY <1>1, <1>4, <1>5, <1>9, <2>3, <3>1, <3>2 DEF Applied
 <2>4. CASE S # {}
  <3> DEFINE P(n) == n \in S /\ \A m \in S : n <= m
  <3>1. PICK n : P(n)
   <4>1. S \subseteq 0..Len(audit) BY <1>1, <2>2
   <4>2. \E n : n \in S /\ \A m \in S : n <= m BY <1>1, <2>4, <4>1, LeastNumber
   <4> QED BY <4>2
  <3>2. \A k : (k \in S /\ \A m \in S : k <= m) => k = n BY <2>2, <3>1
  <3>3. \A k : (k \in T /\ \A m \in T : k <= m) => k = n BY <1>1, <2>1, <2>2, <3>1
  <3>4. n \in T /\ \A m \in T : n <= m BY <1>1, <2>1, <2>2, <3>1
  <3>5. (CHOOSE k \in S : \A m \in S : k <= m) = n BY <3>1, <3>2, Zenon
  <3>6. (CHOOSE k \in T : \A m \in T : k <= m) = n BY <3>3, <3>4, Zenon
  <3>7. T # {} /\ n \in 1..Len(audit) BY <2>2, <3>1, <3>4
  <3>8. Replay(a)' = audit[n].deed.by /\ Replay(a) = audit[n].deed.by
    BY <1>1, <1>4, <1>5, <2>4, <3>5, <3>6, <3>7
  <3>9. audit[n].deed.by # Nobody
   <4>1. audit[n].deed \in deeds
    <5>1. n \in Entries("suspend", a) BY <1>6, <3>1
    <5> QED BY <5>1 DEF Entries, AdminData, Deeds
   <4> QED BY <4>1, NamesAssumption DEF AdminData
  <3> QED BY <1>9, <3>8, <3>9 DEF Applied
 <2> QED BY <2>3, <2>4
<1> QED BY <1>8, <1>9 DEF Deeds

\* About another account it says what it said.
LEMMA ReplayStays ==
  ASSUME AdminData, NEW e, audit' = Append(audit, e), NEW a, e.deed.target # a \/ e.deed.action \notin Deeds
  PROVE  Replay(a)' = Replay(a)
<1>1. /\ \A n \in 1..Len(audit) : audit'[n] = audit[n]
      /\ audit'[Len(audit) + 1] = e
      /\ \A n : n \in 1..Len(audit') <=> n \in 1..Len(audit) \/ n = Len(audit) + 1
  BY EntryAdded
<1>2. \A x \in Deeds : Entries(x, a)' = Entries(x, a)
 <2> SUFFICES ASSUME NEW x \in Deeds PROVE Entries(x, a)' = Entries(x, a) BY Zenon
 <2>1. \A n : n \in Entries(x, a)' <=> n \in 1..Len(audit') /\ audit'[n].deed.action = x
         /\ audit'[n].deed.target = a
   BY DEF Entries
 <2>2. \A n : n \in Entries(x, a)' <=> n \in Entries(x, a) BY <1>1, <2>1 DEF Entries
 <2> QED BY <2>2
<1>3. Since(a)' = Since(a) BY <1>2 DEF Since, Deeds
<1>4. \A n \in Since(a) : n \in 1..Len(audit) BY DEF Since, Entries
<1>5. Replay(a) = IF Since(a) = {} THEN Nobody ELSE audit[CHOOSE n \in Since(a) : \A m \in Since(a) : n <= m].deed.by
  BY DEF Replay, Since
<1>6. Replay(a)' = IF Since(a)' = {} THEN Nobody ELSE audit'[CHOOSE n \in Since(a)' : \A m \in Since(a)' : n <= m].deed.by
  BY DEF Replay, Since
<1>7. CASE Since(a) # {}
 <2> DEFINE c == CHOOSE n \in Since(a) : \A m \in Since(a) : n <= m
 <2>1. c \in Since(a)
  <3>1. Len(audit) \in Nat BY EntryAdded
  <3>2. Since(a) \subseteq 0..Len(audit) BY <1>4, <3>1
  <3> QED BY <1>7, <3>1, <3>2, LeastNumber
 <2>2. audit'[c] = audit[c] BY <1>1, <1>4, <2>1
 <2> QED BY <1>3, <1>5, <1>6, <1>7, <2>2
<1> QED BY <1>3, <1>5, <1>6, <1>7
-----------------------------
\* g goes on with what it does, or was cut off.
Stands(g) == job'[g] = job[g] \/ (job'[g] = Idle /\ <<job[g].op, job[g].key>> \in dropped')

\* What others than staff do are steps of theirs, or of the store.
LEMMA OtherSteps ==
  ASSUME Inv1, [PlatformNext]_platformVars, ~Administering
  PROVE  \/ \E h \in Handlers : Acts(h, PlainOps \cup SessionOps)
         \/ \E h \in Handlers : StoreStep(h) \/ CutOff(h)
         \/ UNCHANGED storeVars
<1>1. CASE \/ Notices \/ Socializing \/ Chatting \/ KeepingAway \/ Rooming \/ BreakingOut
           \/ PlayingMusic \/ Supporting \/ Viewing \/ Hiding \/ Happening \/ Staying
 <2>1. (\E h \in Handlers : Acts(h, PlainOps)) \/ UNCHANGED storeVars BY <1>1, PlainSteps
 <2>2. PlainOps \subseteq PlainOps \cup SessionOps OBVIOUS
 <2> QED BY <2>1, <2>2, MoreActs
<1>2. CASE LoggingIn
 <2>1. SessionOps \subseteq PlainOps \cup SessionOps OBVIOUS
 <2> QED BY <1>2, <2>1, SessionSteps, MoreActs
<1>3. CASE Records BY <1>3 DEF Records
<1>4. CASE UNCHANGED platformVars BY <1>4 DEF platformVars
<1> QED BY <1>1, <1>2, <1>3, <1>4 DEF PlatformNext

\* They leave staff's requests alone, but for cutting them off.
LEMMA StaffStands ==
  ASSUME Inv1, [PlatformNext]_platformVars, ~Administering
  PROVE  /\ UNCHANGED adminVars /\ dropped \subseteq dropped'
         /\ \A g \in Handlers : /\ job[g].op \in Deeds => Stands(g)
                                /\ job'[g].op \in Deeds => job'[g] = job[g]
<1>1. UNCHANGED adminVars /\ \A g \in Handlers : job'[g].op \in Deeds => job'[g] = job[g]
  BY StaffApart DEF Apart, Deeds, Idle
<1>2. CASE \E h \in Handlers : Acts(h, PlainOps \cup SessionOps)
 <2>1. PICK h \in Handlers : Acts(h, PlainOps \cup SessionOps) BY <1>2
 <2>2. job[h].op \notin Deeds
  <3>1. PlainOps \cap Deeds = {} /\ SessionOps \cap Deeds = {} BY KindsApart DEF Deeds, AdminOps
  <3> QED BY <2>1, <3>1 DEF Acts, Works, Idle, Deeds
 <2> QED BY <1>1, <2>1, <2>2 DEF Acts, Turned, Stands
<1>3. CASE \E h \in Handlers : StoreStep(h)
 <2>1. PICK h \in Handlers : StoreStep(h) BY <1>3
 <2>2. job[h].at \in {"add", "update"} /\ dropped' = dropped /\ \A g \in Handlers : g # h => job'[g] = job[g]
  <3>1. DOMAIN job = Handlers BY DEF Inv1, StoreTyped
  <3>2. CASE AddRow(h) BY <3>1, <3>2 DEF AddRow, Onward
  <3>3. CASE ReadRow(h) BY <3>1, <3>3 DEF ReadRow
  <3>4. CASE WriteRow(h) BY <3>1, <3>4 DEF WriteRow, Onward
  <3> QED BY <2>1, <3>2, <3>3, <3>4 DEF StoreStep
 <2>3. job[h].op \notin Deeds BY <2>2, RecordsApart DEF Inv1, JobsTyped, Idle, Deeds
 <2> QED BY <1>1, <2>2, <2>3 DEF Stands
<1>4. CASE \E h \in Handlers : CutOff(h)
 <2>1. PICK h \in Handlers : CutOff(h) BY <1>4
 <2>2. DOMAIN job = Handlers BY DEF Inv1, StoreTyped
 <2> QED BY <1>1, <2>1, <2>2 DEF CutOff, Stands
<1>5. CASE UNCHANGED storeVars BY <1>1, <1>5 DEF storeVars, handlerVars, Stands
<1> QED BY <1>2, <1>3, <1>4, <1>5, OtherSteps

\* What is kept about an account depends on three tables.
LEMMA AccountsStay ==
  ASSUME UNCHANGED <<suspendedBy, audit, deeds>>, NEW a
  PROVE  /\ Entered' = Entered /\ Missing(a)' = Missing(a) /\ Crossed(a)' = Crossed(a) /\ Replay(a)' = Replay(a)
         /\ \A d : LoggedSince(a, d)' = LoggedSince(a, d)
         /\ Accounted(a)' = Accounted(a)
<1>1. Entered' = Entered BY DEF Entered
<1>2. Missing(a)' = Missing(a) BY <1>1 DEF Missing
<1>3. Crossed(a)' = Crossed(a) BY DEF Crossed
<1>4. Replay(a)' = Replay(a) BY DEF Replay, Entries
<1>5. \A d : LoggedSince(a, d)' = LoggedSince(a, d) BY DEF LoggedSince
<1>6. Accounted(a)' = Accounted(a) BY <1>2, <1>3, <1>4, <1>5 DEF Accounted
<1> QED BY <1>1, <1>2, <1>3, <1>4, <1>5, <1>6

\* So do the tables, as time passes.
LEMMA TablesStay ==
  ASSUME AdminData, writes \in Nat, accepted \in Nat, UNCHANGED <<suspendedBy, audit, deeds>>,
         writes' \in {writes, writes + 1}, accepted' \in {accepted, accepted + 1}
  PROVE  AdminData'
<1>1. 0..writes \subseteq 0..writes' /\ 1..writes \subseteq 1..writes'
        /\ \A n \in Nat : n < accepted => n < accepted'
  OBVIOUS
<1>2. DOMAIN suspendedBy' = Accounts /\ Sequence(audit') BY DEF AdminData
<1>3. \A n \in 1..Len(audit') :
        /\ audit'[n].deed.began \in 0..writes' /\ audit'[n].wrote \in 1..writes'
        /\ audit'[n].deed.action \in Deeds => audit'[n].deed \in deeds'
  BY <1>1 DEF AdminData
<1>4. \A d \in deeds' :
        d.began \in 0..writes' /\ d.nth \in Nat /\ d.nth < accepted' /\ d.action \in Deeds /\ d.by \in Admins
  BY <1>1 DEF AdminData
<1> QED BY <1>2, <1>3, <1>4 DEF AdminData

\* What is right of suspensions stays so while staff's requests stand.
LEMMA DeedsStand ==
  ASSUME Inv1, DeedsInv, UNCHANGED adminVars, dropped \subseteq dropped',
         writes' \in {writes, writes + 1}, accepted' \in {accepted, accepted + 1},
         \A g \in Handlers : /\ job[g].op \in Deeds => Stands(g)
                             /\ job'[g].op \in Deeds => job'[g] = job[g]
  PROVE  DeedsInv'
<1>1. UNCHANGED <<suspendedBy, audit, deeds, unlogged>> BY DEF adminVars
<1>2. writes \in Nat /\ accepted \in Nat BY DEF Inv1, StoreTyped
<1>3. Entered' = Entered BY <1>1 DEF Entered
<1>4. AdminData' BY <1>1, <1>2, TablesStay DEF DeedsInv
<1>5. StaffApartInv'
 <2>1. \A h \in Handlers : StaffJob(job[h])' BY <1>1, <1>2, <1>3 DEF DeedsInv, StaffApartInv, StaffJob, Deed
 <2> QED BY <2>1 DEF DeedsInv, StaffApartInv
<1>6. \A d \in deeds' : DeedKept(d)'
 <2> SUFFICES ASSUME NEW d \in deeds PROVE DeedKept(d)' BY <1>1
 <2>1. DeedKept(d) BY DEF DeedsInv
 <2>2. CASE \E h \in Handlers : job[h].op \in Deeds /\ job[h].at = "audit" /\ Deed(job[h]) = d
  <3>1. PICK h \in Handlers : job[h].op \in Deeds /\ job[h].at = "audit" /\ Deed(job[h]) = d BY <2>2
  <3>2. CASE job'[h] = job[h] BY <3>1, <3>2 DEF DeedKept
  <3>3. CASE <<job[h].op, job[h].key>> \in dropped'
   <4>1. d.action = job[h].op /\ d.target = job[h].key BY <3>1 DEF Deed
   <4> QED BY <3>3, <4>1 DEF DeedKept, WasCutOff
  <3> QED BY <3>1, <3>2, <3>3 DEF Stands
 <2> QED BY <1>1, <1>3, <2>1, <2>2 DEF DeedKept, WasCutOff
<1>7. \A a \in Accounts : Accounted(a)' BY <1>1, AccountsStay DEF DeedsInv
<1> QED BY <1>4, <1>5, <1>6, <1>7 DEF DeedsInv

\* A suspension, or the end of one, begins.
LEMMA SuspendBegins ==
  ASSUME Inv1, DeedsInv, NEW h \in Handlers, SuspendRequest(h)
  PROVE  DeedsInv'
<1>1. PICK by \in Admins, a \in Accounts, op \in DOMAIN Needed : StartSuspend(h, op, by, a)
  BY DEF SuspendRequest
<1> DEFINE k == Numbered(Request(op, by, a, "set"))
<1>2. k.op = op /\ k.at = "set" /\ k.key = a /\ k.who = by /\ k.nth = accepted
  BY DEF Numbered, Request, Merge
<1>3. op \in Deeds BY DEF Needed, Deeds
<1>4. UNCHANGED adminVars /\ Begin(h, k) BY <1>1 DEF StartSuspend
<1> HIDE DEF k
<1>5. /\ UNCHANGED <<suspendedBy, audit, deeds, unlogged, dropped, writes>> /\ accepted' = accepted + 1
      /\ job[h] = Idle /\ job'[h] = k /\ \A g \in Handlers : g # h => job'[g] = job[g]
 <2>1. DOMAIN job = Handlers BY DEF Inv1, StoreTyped
 <2> QED BY <1>4, <2>1 DEF adminVars, Begin, Accept, Ready
<1>6. writes \in Nat /\ accepted \in Nat BY DEF Inv1, StoreTyped
<1>7. Entered' = Entered BY <1>5 DEF Entered
<1>8. AdminData' BY <1>5, <1>6, TablesStay DEF DeedsInv
<1>9. StaffApartInv'
 <2>1. \A g \in Handlers : g # h => StaffJob(job[g])'
   BY <1>5, <1>6, <1>7 DEF DeedsInv, StaffApartInv, StaffJob, Deed
 <2>2. StaffJob(job[h])'
  <3>1. \A d \in deeds' : d.nth # accepted BY <1>5, <1>6 DEF DeedsInv, AdminData
  <3> QED BY <1>2, <1>5, <1>6, <3>1 DEF StaffJob
 <2>3. \A g \in Handlers : job[g].op \in Deeds => job[g].nth # accepted
   BY <1>6 DEF DeedsInv, StaffApartInv, StaffJob
 <2> QED BY <1>2, <1>5, <2>1, <2>2, <2>3 DEF DeedsInv, StaffApartInv
<1>10. \A d \in deeds' : DeedKept(d)'
 <2> SUFFICES ASSUME NEW d \in deeds PROVE DeedKept(d)' BY <1>5
 <2>1. DeedKept(d) BY DEF DeedsInv
 <2>2. job[h].op \notin Deeds BY <1>5 DEF Idle, Deeds
 <2> QED BY <1>5, <1>7, <2>1, <2>2 DEF DeedKept, WasCutOff
<1>11. \A a_1 \in Accounts : Accounted(a_1)' BY <1>5, AccountsStay DEF DeedsInv
<1> QED BY <1>8, <1>9, <1>10, <1>11 DEF DeedsInv
-----------------------------
\* Staff close the room: suspensions are not touched.
LEMMA CloseBegins ==
  ASSUME Inv1, DeedsInv, NEW h \in Handlers, NEW by, CloseRoom(h, by)
  PROVE  DeedsInv'
<1> DEFINE m == Updating(Request("closeRoom", by, 1, "update"), {Update(1, [status |-> "closed"])}, "audit")
           k == Numbered(m)
<1>1. UNCHANGED adminVars /\ Begin(h, k) BY DEF CloseRoom
<1>2. k.op = "closeRoom"
 <2>1. m.op = "closeRoom" /\ "op" \in DOMAIN m BY DEF Updating, Request
 <2> HIDE DEF m
 <2> QED BY <2>1 DEF Numbered, Merge
<1> HIDE DEF k
<1>3. /\ dropped' = dropped /\ writes' = writes /\ accepted' = accepted + 1
      /\ job[h] = Idle /\ job'[h] = k /\ \A g \in Handlers : g # h => job'[g] = job[g]
 <2>1. DOMAIN job = Handlers BY DEF Inv1, StoreTyped
 <2> QED BY <1>1, <2>1 DEF Begin, Accept, Ready
<1>4. \A g \in Handlers : /\ job[g].op \in Deeds => Stands(g)
                          /\ job'[g].op \in Deeds => job'[g] = job[g]
  BY <1>2, <1>3 DEF Stands, Idle, Deeds
<1> QED BY <1>1, <1>3, <1>4, DeedsStand

\* The number of a deed and who did it; nothing of it is in the log.
LEMMA DeedIsNew ==
  ASSUME Inv1, DeedsInv, NEW h \in Handlers, job[h].op \in Deeds, job[h].at = "set"
  PROVE  /\ Deed(job[h]) \notin deeds \cup Entered /\ Deed(job[h]).target \in Accounts
         /\ Deed(job[h]).began \in 0..writes /\ Deed(job[h]).nth \in Nat /\ Deed(job[h]).nth < accepted
         /\ Deed(job[h]).action \in Deeds /\ Deed(job[h]).by \in Admins
<1>1. StaffJob(job[h]) BY DEF DeedsInv, StaffApartInv
<1>2. Deed(job[h]).nth = job[h].nth /\ Deed(job[h]).action = job[h].op /\ Deed(job[h]).by = job[h].who
      /\ Deed(job[h]).target = job[h].key /\ Deed(job[h]).began = job[h].began
  BY DEF Deed
<1>3. Deed(job[h]) \notin deeds BY <1>1, <1>2 DEF StaffJob
<1>4. Deed(job[h]) \notin Entered BY <1>2, <1>3 DEF Entered, DeedsInv, AdminData
<1>5. job[h].began \in 0..writes
 <2>1. Typed(job[h]) BY DEF Inv1, JobsTyped, Idle, Deeds
 <2> QED BY <2>1 DEF Typed, Inv1, StoreTyped
<1> QED BY <1>1, <1>2, <1>3, <1>4, <1>5 DEF StaffJob

\* An account is suspended, or no longer.
LEMMA SuspendSets ==
  ASSUME Inv1, DeedsInv, NEW h \in Handlers, SetSuspended(h)
  PROVE  DeedsInv'
<1> DEFINE j == job[h]
           n == Deed(j)
           x == j.key
<1>1. j.at = "set" /\ j.op \in Deeds
 <2>1. Typed(j) /\ j.at = "set" BY DEF Inv1, JobsTyped, SetSuspended, Idle
 <2> QED BY <2>1 DEF Typed, Fits, Deeds
<1>2. /\ n \notin deeds \cup Entered /\ n.target = x /\ x \in Accounts /\ n.began \in 0..writes
      /\ n.nth \in Nat /\ n.nth < accepted /\ n.action \in Deeds /\ n.by \in Admins
      /\ n.nth = j.nth /\ n.action = j.op /\ n.by = j.who
  BY <1>1, DeedIsNew DEF Deed
<1>3. /\ suspendedBy' = [suspendedBy EXCEPT ![x] =
                           IF j.op = "unsuspend" THEN Nobody ELSE IF @ = Nobody THEN j.who ELSE @]
      /\ deeds' = deeds \cup {n} /\ audit' = audit /\ unlogged' = unlogged
      /\ writes' = writes + 1 /\ accepted' = accepted /\ dropped' = dropped
  BY DEF SetSuspended, Wrote
<1>4. job'[h] = [j EXCEPT !.at = "audit"] /\ \A g \in Handlers : g # h => job'[g] = job[g]
 <2>1. DOMAIN job = Handlers BY DEF Inv1, StoreTyped
 <2> QED BY <2>1 DEF SetSuspended, Wrote
<1>5. /\ job'[h].op = j.op /\ job'[h].key = x /\ job'[h].who = j.who /\ job'[h].nth = j.nth /\ job'[h].at = "audit"
      /\ Deed(job'[h]) = n
 <2>1. Basic(j) BY <1>1 DEF Inv1, JobsTyped, Idle, Deeds, Typed
 <2> QED BY <1>4, <2>1 DEF Deed, Basic
<1>6. writes \in Nat /\ accepted \in Nat BY DEF Inv1, StoreTyped
<1>7. AdminData BY DEF DeedsInv
<1>8. suspendedBy'[x] = Applied(suspendedBy[x], n) /\ \A a \in Accounts : a # x => suspendedBy'[a] = suspendedBy[a]
  BY <1>2, <1>3, <1>7 DEF AdminData, Applied
<1> HIDE DEF j, n, x
<1>9. Entered' = Entered BY <1>3 DEF Entered
<1>10. AdminData'
 <2>1. DOMAIN suspendedBy' = Accounts /\ Sequence(audit') BY <1>3, <1>7 DEF AdminData
 <2>2. \A m \in 1..Len(audit') :
         /\ audit'[m].deed.began \in 0..writes' /\ audit'[m].wrote \in 1..writes'
         /\ audit'[m].deed.action \in Deeds => audit'[m].deed \in deeds'
  <3>1. 0..writes \subseteq 0..writes' /\ 1..writes \subseteq 1..writes' BY <1>3, <1>6
  <3> QED BY <1>3, <1>7, <3>1 DEF AdminData
 <2>3. \A d \in deeds' :
         d.began \in 0..writes' /\ d.nth \in Nat /\ d.nth < accepted' /\ d.action \in Deeds /\ d.by \in Admins
  <3>1. 0..writes \subseteq 0..writes' BY <1>3, <1>6
  <3> QED BY <1>2, <1>3, <1>7, <3>1 DEF AdminData
 <2> QED BY <2>1, <2>2, <2>3 DEF AdminData
<1>11. StaffApartInv'
 <2>1. \A g \in Handlers : g # h /\ job[g].op \in Deeds => job[g].nth # j.nth
   BY <1>1 DEF DeedsInv, StaffApartInv, j
 <2>2. ASSUME NEW g \in Handlers, g # h PROVE StaffJob(job[g])'
  <3>1. StaffJob(job[g]) /\ job'[g] = job[g] BY <1>4, <2>2 DEF DeedsInv, StaffApartInv
  <3>2. job[g].op \in Deeds => \A d \in deeds' : job[g].at = "set" => d.nth # job[g].nth
    BY <1>2, <1>3, <2>1, <2>2, <3>1 DEF StaffJob
  <3> QED BY <1>3, <1>9, <3>1, <3>2 DEF StaffJob, Deed
 <2>3. StaffJob(job[h])'
  <3>1. Deed(job'[h]) \in deeds' \ Entered' BY <1>2, <1>3, <1>5, <1>9
  <3>2. j.key \in Accounts /\ j.who \in Admins /\ j.nth \in Nat /\ j.nth < accepted
    BY <1>1 DEF DeedsInv, StaffApartInv, StaffJob, j
  <3>3. job'[h].key \in Accounts /\ job'[h].who \in Admins /\ job'[h].nth \in Nat /\ job'[h].nth < accepted'
    BY <1>2, <1>3, <1>5, <3>2
  <3> QED BY <1>5, <3>1, <3>3 DEF StaffJob
 <2>4. \A g, k \in Handlers : g # k /\ job'[g].op \in Deeds /\ job'[k].op \in Deeds => job'[g].nth # job'[k].nth
  <3> SUFFICES ASSUME NEW g \in Handlers, NEW k \in Handlers, g # k, job'[g].op \in Deeds, job'[k].op \in Deeds
               PROVE  job'[g].nth # job'[k].nth
    OBVIOUS
  <3>1. CASE g = h BY <1>4, <1>5, <2>1, <3>1
  <3>2. CASE k = h BY <1>4, <1>5, <2>1, <3>2
  <3>3. CASE g # h /\ k # h BY <1>4, <3>3 DEF DeedsInv, StaffApartInv
  <3> QED BY <3>1, <3>2, <3>3
 <2>5. \A g \in Handlers : StaffJob(job[g])' BY <2>2, <2>3
 <2> QED BY <2>4, <2>5 DEF StaffApartInv
<1>12. \A d \in deeds' : DeedKept(d)'
 <2>1. \A d : d = n => DeedKept(d)' BY <1>1, <1>5 DEF DeedKept
 <2>2. ASSUME NEW d \in deeds PROVE DeedKept(d)'
  <3>1. DeedKept(d) BY DEF DeedsInv
  <3>2. \A g \in Handlers : job[g].at = "audit" => g # h BY <1>1 DEF j
  <3> QED BY <1>3, <1>4, <1>9, <3>1, <3>2 DEF DeedKept, WasCutOff
 <2> QED BY <1>3, <2>1, <2>2
<1>13. \A a \in Accounts : Accounted(a)'
 <2> SUFFICES ASSUME NEW a \in Accounts PROVE Accounted(a)' OBVIOUS
 <2>1. Accounted(a) BY DEF DeedsInv
 <2>2. /\ Crossed(a)' = Crossed(a) /\ Replay(a)' = Replay(a)
       /\ \A d : LoggedSince(a, d)' = LoggedSince(a, d)
  <3>1. Crossed(a)' = Crossed(a) BY <1>3 DEF Crossed
  <3>2. Replay(a)' = Replay(a) BY <1>3 DEF Replay, Entries
  <3>3. \A d : LoggedSince(a, d)' = LoggedSince(a, d) BY <1>3 DEF LoggedSince
  <3> QED BY <3>1, <3>2, <3>3
 <2>3. CASE a # x
  <3>1. Missing(a)' = Missing(a) BY <1>2, <1>3, <1>9, <2>3 DEF Missing
  <3> QED BY <1>8, <2>1, <2>2, <2>3, <3>1 DEF Accounted
 <2>4. CASE a = x
  <3>1. Missing(a)' = Missing(a) \cup {n} /\ n \notin Missing(a) BY <1>2, <1>3, <1>9, <2>4 DEF Missing
  <3>2. CASE Missing(a) = {}
   <4>1. Crossed(a) \/ suspendedBy[a] = Replay(a) BY <2>1, <3>2 DEF Accounted
   <4>2. suspendedBy'[a] = Applied(suspendedBy[a], n) BY <1>8, <2>4
   <4>3. n \in Missing(a)' BY <3>1
   <4>4. Crossed(a)' \/ suspendedBy'[a] = Applied(Replay(a)', n) BY <2>2, <4>1, <4>2
   <4> QED BY <4>3, <4>4 DEF Accounted, Applied
  <3>3. CASE Missing(a) # {}
   <4>1. \E d, e \in Missing(a)' : d # e BY <3>1, <3>3
   <4> QED BY <4>1 DEF Accounted
  <3> QED BY <3>2, <3>3
 <2> QED BY <2>3, <2>4
<1> QED BY <1>10, <1>11, <1>12, <1>13 DEF DeedsInv
-----------------------------
\* What is said of a log stays said of a longer one.
LEMMA LogGrows ==
  ASSUME AdminData, NEW e, audit' = Append(audit, e), NEW a
  PROVE  /\ Crossed(a) => Crossed(a)'
         /\ \A d : LoggedSince(a, d) => LoggedSince(a, d)'
         /\ \A d : e.deed.target = a /\ d.began < e.wrote => LoggedSince(a, d)'
<1>1. /\ \A n \in 1..Len(audit) : audit'[n] = audit[n] /\ n \in 1..Len(audit')
      /\ Len(audit) + 1 \in 1..Len(audit') /\ audit'[Len(audit) + 1] = e
  BY EntryAdded
<1>2. Crossed(a) => Crossed(a)'
 <2> SUFFICES ASSUME Crossed(a) PROVE Crossed(a)' OBVIOUS
 <2>1. PICK n, m \in 1..Len(audit) :
         /\ n # m /\ audit[n].deed.target = a /\ audit[m].deed.target = a
         /\ Together([began |-> audit[n].deed.began, wrote |-> audit[n].wrote],
                     [began |-> audit[m].deed.began, wrote |-> audit[m].wrote])
   BY DEF Crossed
 <2>2. /\ n \in 1..Len(audit') /\ m \in 1..Len(audit') /\ n # m
       /\ audit'[n].deed.target = a /\ audit'[m].deed.target = a
       /\ Together([began |-> audit'[n].deed.began, wrote |-> audit'[n].wrote],
                   [began |-> audit'[m].deed.began, wrote |-> audit'[m].wrote])
   BY <1>1, <2>1
 <2> QED BY <2>2 DEF Crossed
<1>3. \A d : LoggedSince(a, d) => LoggedSince(a, d)' BY <1>1 DEF LoggedSince
<1>4. \A d : e.deed.target = a /\ d.began < e.wrote => LoggedSince(a, d)' BY <1>1 DEF LoggedSince
<1> QED BY <1>2, <1>3, <1>4

\* A request that is at its entry in the log.
LEMMA AtAudit ==
  ASSUME Inv1, DeedsInv, NEW h \in Handlers, job[h].at = "audit"
  PROVE  /\ job[h].op \in Deeds \cup {"closeRoom"} /\ job[h].began \in 0..writes
         /\ job[h].op \in Deeds => Deed(job[h]) \in deeds \ Entered
<1>1. Typed(job[h]) /\ job[h].at = "audit" BY DEF Inv1, JobsTyped, Idle
<1>2. job[h].op \in Deeds \cup {"closeRoom"} BY <1>1 DEF Typed, Fits, Deeds
<1>3. job[h].began \in 0..writes BY <1>1 DEF Typed, Inv1, StoreTyped
<1> QED BY <1>2, <1>3 DEF DeedsInv, StaffApartInv, StaffJob

\* A deed is entered in the log.
LEMMA DeedEntered ==
  ASSUME Inv1, DeedsInv, NEW h \in Handlers, RecordAudit(h)
  PROVE  DeedsInv'
<1> DEFINE j == job[h]
           n == Deed(j)
           e == [deed |-> n, wrote |-> writes + 1]
<1>1. /\ n.action = j.op /\ n.target = j.key /\ n.by = j.who /\ n.began = j.began /\ n.nth = j.nth
      /\ e.deed = n /\ e.wrote = writes + 1
  BY DEF Deed
<1>2. j.at = "audit" /\ j.op \in Deeds \cup {"closeRoom"} /\ j.began \in 0..writes
  BY AtAudit DEF RecordAudit
<1>3. j.op \in Deeds => n \in deeds \ Entered BY AtAudit DEF RecordAudit
<1>4. /\ audit' = Append(audit, e) /\ suspendedBy' = suspendedBy /\ deeds' = deeds /\ unlogged' = unlogged
      /\ writes' = writes + 1 /\ accepted' = accepted /\ dropped' = dropped
  BY DEF RecordAudit, Wrote
<1>5. job'[h] = Idle /\ \A g \in Handlers : g # h => job'[g] = job[g]
 <2>1. DOMAIN job = Handlers /\ Basic(j) BY <1>2 DEF Inv1, StoreTyped, JobsTyped, Idle, Typed
 <2> QED BY <2>1 DEF RecordAudit, Wrote, Basic
<1>6. writes \in Nat /\ accepted \in Nat BY DEF Inv1, StoreTyped
<1>7. AdminData BY DEF DeedsInv
<1>8. \A d : d = e => /\ Sequence(audit') /\ Entered' = Entered \cup {d.deed}
                      /\ Len(audit) \in Nat
                      /\ \A m \in 1..Len(audit) : audit'[m] = audit[m]
                      /\ audit'[Len(audit) + 1] = d
                      /\ \A m : m \in 1..Len(audit') <=> m \in 1..Len(audit) \/ m = Len(audit) + 1
  BY <1>4, <1>7, EntryAdded
<1> HIDE DEF j, n, e
<1>9. Entered' = Entered \cup {n} BY <1>1, <1>8
<1>10. AdminData'
 <2>1. 0..writes \subseteq 0..writes' /\ 1..writes \subseteq 1..writes' /\ writes + 1 \in 1..writes'
   BY <1>4, <1>6
 <2>2. DOMAIN suspendedBy' = Accounts /\ Sequence(audit') BY <1>4, <1>7, <1>8 DEF AdminData
 <2>3. \A m \in 1..Len(audit') :
         /\ audit'[m].deed.began \in 0..writes' /\ audit'[m].wrote \in 1..writes'
         /\ audit'[m].deed.action \in Deeds => audit'[m].deed \in deeds'
  <3> SUFFICES ASSUME NEW m \in 1..Len(audit')
               PROVE  /\ audit'[m].deed.began \in 0..writes' /\ audit'[m].wrote \in 1..writes'
                      /\ audit'[m].deed.action \in Deeds => audit'[m].deed \in deeds'
    OBVIOUS
  <3>1. CASE m \in 1..Len(audit) BY <1>4, <1>7, <1>8, <2>1, <3>1 DEF AdminData
  <3>2. CASE m = Len(audit) + 1
   <4>1. audit'[m] = e BY <1>8, <3>2
   <4> QED BY <1>1, <1>2, <1>3, <1>4, <2>1, <4>1
  <3> QED BY <1>8, <3>1, <3>2
 <2>4. \A d \in deeds' :
         d.began \in 0..writes' /\ d.nth \in Nat /\ d.nth < accepted' /\ d.action \in Deeds /\ d.by \in Admins
   BY <1>4, <1>7, <2>1 DEF AdminData
 <2> QED BY <2>2, <2>3, <2>4 DEF AdminData
<1>11. StaffApartInv'
 <2>1. ASSUME NEW g \in Handlers PROVE StaffJob(job[g])'
  <3>1. CASE g = h BY <1>5, <3>1 DEF StaffJob, Idle, Deeds
  <3>2. CASE g # h
   <4>1. StaffJob(job[g]) /\ job'[g] = job[g] BY <1>5, <3>2 DEF DeedsInv, StaffApartInv
   <4>2. job[g].op \in Deeds => Deed(job[g]) # n
    <5>1. Deed(job[g]).action = job[g].op /\ Deed(job[g]).nth = job[g].nth BY DEF Deed
    <5>2. j.op \in Deeds /\ job[g].op \in Deeds => job[g].nth # j.nth BY <3>2 DEF DeedsInv, StaffApartInv, j
    <5> QED BY <1>1, <5>1, <5>2
   <4>3. job[g].op \in Deeds /\ job[g].at = "audit" => Deed(job'[g]) \in deeds' \ Entered'
     BY <1>4, <1>9, <4>1, <4>2 DEF StaffJob
   <4> QED BY <1>4, <4>1, <4>3 DEF StaffJob
  <3> QED BY <3>1, <3>2
 <2>2. \A g, k \in Handlers : g # k /\ job'[g].op \in Deeds /\ job'[k].op \in Deeds => job'[g].nth # job'[k].nth
  <3>1. job'[h].op \notin Deeds BY <1>5 DEF Idle, Deeds
  <3> QED BY <1>5, <3>1 DEF DeedsInv, StaffApartInv
 <2> QED BY <2>1, <2>2 DEF StaffApartInv
<1>12. \A d \in deeds' : DeedKept(d)'
 <2> SUFFICES ASSUME NEW d \in deeds PROVE DeedKept(d)' BY <1>4
 <2>1. DeedKept(d) BY DEF DeedsInv
 <2>2. CASE d = n BY <1>9, <2>2 DEF DeedKept
 <2>3. CASE d # n
  <3>1. \A g \in Handlers : Deed(job[g]) = d => g # h BY <2>3 DEF n, j
  <3> QED BY <1>4, <1>5, <1>9, <2>1, <3>1 DEF DeedKept, WasCutOff
 <2> QED BY <2>2, <2>3
<1>13. \A a \in Accounts : Accounted(a)'
 <2> SUFFICES ASSUME NEW a \in Accounts PROVE Accounted(a)' OBVIOUS
 <2>1. Accounted(a) BY DEF DeedsInv
 <2>2. /\ Crossed(a) => Crossed(a)'
       /\ \A d : LoggedSince(a, d) => LoggedSince(a, d)'
       /\ \A d : n.target = a /\ d.began < writes + 1 => LoggedSince(a, d)'
   BY <1>1, <1>4, <1>7, LogGrows
 <2>3. \A d : d \in Missing(a)' <=> d \in Missing(a) /\ d # n BY <1>4, <1>9 DEF Missing
 <2>4. CASE n.target # a \/ j.op \notin Deeds
  <3>1. Replay(a)' = Replay(a) BY <1>1, <1>4, <1>7, <2>4, ReplayStays
  <3>2. n \notin Missing(a) BY <1>1, <1>7, <2>4 DEF Missing, AdminData
  <3>3. Missing(a)' = Missing(a) BY <2>3, <3>2
  <3> QED BY <1>4, <2>1, <2>2, <3>1, <3>3 DEF Accounted
 <2>5. CASE n.target = a /\ j.op \in Deeds
  <3>1. n \in Missing(a) BY <1>3, <2>5 DEF Missing
  <3>2. CASE \E d \in Missing(a) : d # n
   <4>1. PICK d \in Missing(a) : d # n BY <3>2
   <4>2. d.began < writes + 1 BY <1>6, <1>7, <4>1 DEF Missing, AdminData
   <4>3. d \in Missing(a)' /\ LoggedSince(a, d)' BY <2>2, <2>3, <2>5, <4>1, <4>2
   <4> QED BY <4>3 DEF Accounted
  <3>3. CASE Missing(a) = {n}
   <4>1. Missing(a)' = {} BY <2>3, <3>3
   <4>2. CASE LoggedSince(a, n)
    <5>1. PICK m \in 1..Len(audit) : audit[m].deed.target = a /\ n.began < audit[m].wrote
      BY <4>2 DEF LoggedSince
    <5>2. audit[m].deed.began < writes + 1 /\ m # Len(audit) + 1 BY <1>6, <1>7, <1>8 DEF AdminData
    <5> DEFINE l == Len(audit) + 1
    <5>3. l \in 1..Len(audit') /\ m \in 1..Len(audit') /\ audit'[l] = e /\ audit'[m] = audit[m] BY <1>8
    <5>4. Together([began |-> audit'[l].deed.began, wrote |-> audit'[l].wrote],
                   [began |-> audit'[m].deed.began, wrote |-> audit'[m].wrote])
      BY <1>1, <5>1, <5>2, <5>3 DEF Together
    <5>5. audit'[l].deed.target = a /\ audit'[m].deed.target = a /\ l # m BY <1>1, <2>5, <5>1, <5>2, <5>3
    <5> HIDE DEF l
    <5>6. Crossed(a)' BY <5>3, <5>4, <5>5 DEF Crossed
    <5> QED BY <5>6 DEF Accounted
   <4>3. CASE Crossed(a) BY <2>2, <4>3 DEF Accounted
   <4>4. CASE suspendedBy[a] = Applied(Replay(a), n)
    <5>1. n.by # Nobody BY <1>3, <1>7, <2>5, NamesAssumption DEF AdminData
    <5>2. Replay(a)' = Applied(Replay(a), n) BY <1>1, <1>4, <1>7, <2>5, <5>1, ReplayGoesOn
    <5>3. suspendedBy'[a] = Replay(a)' BY <1>4, <4>4, <5>2
    <5> QED BY <4>1, <5>3 DEF Accounted
   <4> QED BY <2>1, <3>3, <4>2, <4>3, <4>4 DEF Accounted
  <3> QED BY <3>1, <3>2, <3>3
 <2> QED BY <2>4, <2>5
<1> QED BY <1>10, <1>11, <1>12, <1>13 DEF DeedsInv

\* An entry that cannot be written is let go.
LEMMA DeedUnlogged ==
  ASSUME Inv1, DeedsInv, NEW h \in Handlers, AuditFails(h)
  PROVE  DeedsInv'
<1> DEFINE n == Deed(job[h])
<1>1. job[h].at = "audit" BY DEF AuditFails
<1>2. /\ audit' = audit /\ suspendedBy' = suspendedBy /\ deeds' = deeds /\ unlogged' = unlogged \cup {n}
      /\ writes' = writes /\ accepted' = accepted /\ dropped' = dropped
  BY DEF AuditFails, Become
<1>3. job'[h] = Idle /\ \A g \in Handlers : g # h => job'[g] = job[g]
 <2>1. DOMAIN job = Handlers /\ Basic(job[h]) BY <1>1 DEF Inv1, StoreTyped, JobsTyped, Idle, Typed
 <2> QED BY <2>1 DEF AuditFails, Become, Basic
<1> HIDE DEF n
<1>4. writes \in Nat /\ accepted \in Nat BY DEF Inv1, StoreTyped
<1>5. AdminData' BY <1>2, <1>4, TablesStay DEF DeedsInv
<1>6. Entered' = Entered BY <1>2 DEF Entered
<1>7. StaffApartInv'
 <2>1. ASSUME NEW g \in Handlers PROVE StaffJob(job[g])'
  <3>1. CASE g = h BY <1>3, <3>1 DEF StaffJob, Idle, Deeds
  <3>2. CASE g # h BY <1>2, <1>3, <1>6, <3>2 DEF DeedsInv, StaffApartInv, StaffJob, Deed
  <3> QED BY <3>1, <3>2
 <2>2. \A g, k \in Handlers : g # k /\ job'[g].op \in Deeds /\ job'[k].op \in Deeds => job'[g].nth # job'[k].nth
  <3>1. job'[h].op \notin Deeds BY <1>3 DEF Idle, Deeds
  <3> QED BY <1>3, <3>1 DEF DeedsInv, StaffApartInv
 <2> QED BY <2>1, <2>2 DEF StaffApartInv
<1>8. \A d \in deeds' : DeedKept(d)'
 <2> SUFFICES ASSUME NEW d \in deeds PROVE DeedKept(d)' BY <1>2
 <2>1. DeedKept(d) BY DEF DeedsInv
 <2>2. CASE d = n BY <1>2, <2>2 DEF DeedKept
 <2>3. CASE d # n
  <3>1. \A g \in Handlers : Deed(job[g]) = d => g # h BY <2>3 DEF n
  <3> QED BY <1>2, <1>3, <1>6, <2>1, <3>1 DEF DeedKept, WasCutOff
 <2> QED BY <2>2, <2>3
<1>9. \A a \in Accounts : Accounted(a)' BY <1>2, AccountsStay DEF DeedsInv
<1> QED BY <1>5, <1>7, <1>8, <1>9 DEF DeedsInv
-----------------------------
\* What keeps the closing of rooms right.
LEMMA ClosingsGo ==
  ASSUME ClosingsInv, dropped \subseteq dropped',
         \A d \in Entered \cup unlogged : d \in Entered' \cup unlogged',
         \A g \in Handlers :
            /\ CloseJob(job'[g])
            /\ job[g].op = "closeRoom" /\ job[g].at = "audit" =>
                 \/ job'[g] = job[g] \/ <<job[g].op, job[g].key>> \in dropped'
                 \/ \E d \in Entered' \cup unlogged' : d.action = "closeRoom" /\ d.began = job[g].began,
         \A r \in Rows' : \A s \in trace'[r] :
            s.op = "closeRoom" => (r \in Rows /\ s \in trace[r]) \/ ClosingKept(r, s)'
  PROVE  ClosingsInv'
<1>1. \A h \in Handlers : CloseJob(job[h])' BY DEF CloseJob
<1>2. ASSUME NEW r \in Rows', NEW s \in trace'[r], s.op = "closeRoom" PROVE ClosingKept(r, s)'
 <2>1. CASE r \in Rows /\ s \in trace[r]
  <3>1. ClosingKept(r, s) BY <1>2, <2>1 DEF ClosingsInv
  <3>2. CASE \E d \in Entered \cup unlogged : d.action = "closeRoom" /\ d.began = s.began
    BY <3>2 DEF ClosingKept
  <3>3. CASE WasCutOff("closeRoom", r) BY <3>3 DEF ClosingKept, WasCutOff
  <3>4. CASE \E h \in Handlers : job[h].op = "closeRoom" /\ job[h].key = r /\ job[h].at = "audit"
               /\ job[h].began = s.began
   <4>1. PICK h \in Handlers : job[h].op = "closeRoom" /\ job[h].key = r /\ job[h].at = "audit"
           /\ job[h].began = s.began
     BY <3>4
   <4>2. \/ job'[h] = job[h] \/ <<"closeRoom", r>> \in dropped'
         \/ \E d \in Entered' \cup unlogged' : d.action = "closeRoom" /\ d.began = s.began
     BY <4>1
   <4> QED BY <4>1, <4>2 DEF ClosingKept, WasCutOff
  <3> QED BY <3>1, <3>2, <3>3, <3>4 DEF ClosingKept
 <2> QED BY <1>2, <2>1
<1> QED BY <1>1, <1>2 DEF ClosingsInv

\* So they are while requests that close the room stand.
LEMMA ClosingsStand ==
  ASSUME ClosingsInv, dropped \subseteq dropped', trace' = trace, records' = records, UNCHANGED adminVars,
         \A g \in Handlers : /\ job[g].op = "closeRoom" => Stands(g)
                             /\ job'[g].op = "closeRoom" => job'[g] = job[g]
  PROVE  ClosingsInv'
<1>1. Entered' = Entered /\ unlogged' = unlogged BY DEF Entered, adminVars
<1>2. \A g \in Handlers : CloseJob(job'[g])
 <2> SUFFICES ASSUME NEW g \in Handlers, job'[g].op = "closeRoom" PROVE CloseJob(job'[g]) BY DEF CloseJob
 <2> QED BY DEF ClosingsInv
<1>3. \A g \in Handlers :
        job[g].op = "closeRoom" /\ job[g].at = "audit" => job'[g] = job[g] \/ <<job[g].op, job[g].key>> \in dropped'
  BY DEF Stands
<1>4. Rows' = Rows BY DEF Rows
<1> QED BY <1>1, <1>2, <1>3, <1>4, ClosingsGo

\* A record is added: no request that closes the room does that.
LEMMA ClosingsAdd ==
  ASSUME Inv1, ClosingsInv, UNCHANGED adminVars, NEW h \in Handlers, AddRow(h)
  PROVE  ClosingsInv'
<1>1. job[h].op # "closeRoom"
 <2>1. NewRow(job[h], job[h].new, job[h].then) BY DEF Inv1, JobsTyped, AddRow, Idle, Typed
 <2> QED BY <2>1 DEF NewRow, Players, Controls
<1>2. /\ records' = Append(records, job[h].new) /\ trace' = Append(trace, {Span(h)}) /\ dropped' = dropped
      /\ Onward(h, Merge(job[h], [made |-> Len(records) + 1]), job[h].then)
  BY DEF AddRow
<1>3. \A g \in Handlers : g # h => job'[g] = job[g] BY <1>2 DEF Onward, Inv1, StoreTyped
<1>4. job'[h].op # "closeRoom"
 <2> DEFINE m == Merge(job[h], [made |-> Len(records) + 1])
 <2>1. Basic(job[h]) BY DEF Inv1, JobsTyped, AddRow, Idle, Typed
 <2>2. m.op = job[h].op /\ "at" \in DOMAIN m /\ "op" \in DOMAIN m BY <2>1 DEF Merge, Basic
 <2>3. job'[h] = (IF job[h].then = "end" THEN Idle ELSE [m EXCEPT !.at = job[h].then])
   BY <1>2 DEF Onward, Inv1, StoreTyped
 <2> HIDE DEF m
 <2>4. [m EXCEPT !.at = job[h].then].op = m.op BY <2>2
 <2> QED BY <1>1, <2>2, <2>3, <2>4 DEF Idle
<1>5. Entered' = Entered /\ unlogged' = unlogged BY DEF Entered, adminVars
<1>6. \A g \in Handlers : CloseJob(job'[g]) BY <1>3, <1>4 DEF ClosingsInv, CloseJob
<1>7. \A g \in Handlers : job[g].op = "closeRoom" => job'[g] = job[g] BY <1>1, <1>3
<1>8. \A r \in Rows' : \A s \in trace'[r] : s.op = "closeRoom" => r \in Rows /\ s \in trace[r]
 <2>1. Sequence(trace) /\ Sequence(records) /\ Len(trace) = Len(records) BY DEF Inv1, StoreTyped
 <2>2. /\ Len(trace) \in Nat
       /\ \A n \in 1..Len(trace) : trace'[n] = trace[n]
       /\ trace'[Len(trace) + 1] = {Span(h)}
   BY <1>2, <2>1, SequenceAppend, SequencePlaces
 <2>3. \A r \in Rows' : r \in Rows \/ r = Len(trace) + 1
  <3>1. Len(records') = Len(records) + 1 BY <1>2, <2>1, SequenceAppend
  <3> QED BY <2>1, <2>2, <3>1 DEF Rows
 <2>4. Span(h).op # "closeRoom" BY <1>1 DEF Span
 <2> QED BY <2>1, <2>2, <2>3, <2>4 DEF Rows
<1> QED BY <1>2, <1>5, <1>6, <1>7, <1>8, ClosingsGo

\* A record is read that is to be updated.
LEMMA ClosingsRead ==
  ASSUME Inv1, ClosingsInv, UNCHANGED adminVars, NEW h \in Handlers, ReadRow(h)
  PROVE  ClosingsInv'
<1> DEFINE j == job[h]
<1>1. PICK u \in j.todo :
        job' = [job EXCEPT ![h].todo = @ \ {u}, ![h].read = @ \cup {[u |-> u, copy |-> records[u.id]]}]
  BY Zenon DEF ReadRow
<1> DEFINE r == [u |-> u, copy |-> records[u.id]]
           k == [j EXCEPT !.todo = @ \ {u}, !.read = @ \cup {r}]
<1>2. job'[h] = k /\ \A g \in Handlers : g # h => job'[g] = job[g] BY <1>1 DEF Inv1, StoreTyped
<1>3. r.u = u /\ Basic(j) /\ j.at = "update" /\ CloseJob(j)
  BY DEF ReadRow, Inv1, JobsTyped, Idle, Typed, ClosingsInv
<1>4. k.op = j.op /\ k.key = j.key /\ k.at = j.at /\ k.then = j.then /\ k.todo = j.todo \ {u}
        /\ k.read = j.read \cup {r}
  BY <1>3 DEF Basic
<1>5. UNCHANGED <<records, trace, dropped>> BY DEF ReadRow
<1> HIDE DEF j, k, r
<1>6. CloseJob(k)
 <2> SUFFICES ASSUME j.op = "closeRoom" PROVE CloseJob(k) BY <1>4 DEF CloseJob
 <2>1. PICK v \in j.todo : j.todo = {v} /\ v.id = 1 /\ j.read = {} /\ j.then = "audit" /\ j.key = 1
   BY <1>3 DEF CloseJob
 <2>2. u = v /\ k.todo = {} /\ k.read = {r} /\ r.u.id = 1 BY <1>3, <1>4, <2>1
 <2> QED BY <1>3, <1>4, <2>1, <2>2 DEF CloseJob
<1>7. Entered' = Entered /\ unlogged' = unlogged /\ Rows' = Rows BY <1>5 DEF Entered, adminVars, Rows
<1>8. \A g \in Handlers : /\ CloseJob(job'[g])
                          /\ job[g].op = "closeRoom" /\ job[g].at = "audit" => job'[g] = job[g]
  BY <1>2, <1>3, <1>6 DEF ClosingsInv, j
<1> QED BY <1>5, <1>7, <1>8, ClosingsGo

\* A record is written.
LEMMA ClosingsWrite ==
  ASSUME Inv1, ClosingsInv, UNCHANGED adminVars, NEW h \in Handlers, WriteRow(h)
  PROVE  ClosingsInv'
<1> DEFINE j == job[h]
<1>1. PICK r \in j.read :
        /\ trace' = [trace EXCEPT ![r.u.id] = @ \cup {Span(h)}]
        /\ records' = [records EXCEPT ![r.u.id] = Merge(r.copy, r.u.patch)]
        /\ Onward(h, [j EXCEPT !.read = @ \ {r}],
                  IF j.todo = {} /\ j.read = {r} THEN j.then ELSE "update")
  BY Zenon DEF WriteRow
<1> DEFINE next == IF j.todo = {} /\ j.read = {r} THEN j.then ELSE "update"
           k == [[j EXCEPT !.read = @ \ {r}] EXCEPT !.at = next]
<1>2. job'[h] = (IF next = "end" THEN Idle ELSE k) /\ \A g \in Handlers : g # h => job'[g] = job[g]
  BY <1>1 DEF Onward, Inv1, StoreTyped
<1>3. Basic(j) /\ j.at = "update" /\ CloseJob(j) BY DEF WriteRow, Inv1, JobsTyped, Idle, Typed, ClosingsInv
<1>4. k.op = j.op /\ k.key = j.key /\ k.at = next /\ k.began = j.began BY <1>3 DEF Basic
<1>5. dropped' = dropped BY DEF WriteRow
<1> HIDE DEF k
<1>6. j.op = "closeRoom" => r.u.id = 1 /\ next = "audit" /\ j.key = 1 BY <1>3 DEF CloseJob
<1>7. /\ j.op = "closeRoom" => job'[h].op = "closeRoom" /\ job'[h].at = "audit" /\ job'[h].key = r.u.id
                               /\ job'[h].began = j.began
      /\ CloseJob(job'[h])
 <2>1. CASE j.op = "closeRoom" BY <1>2, <1>4, <1>6, <2>1 DEF CloseJob
 <2>2. CASE j.op # "closeRoom" BY <1>2, <1>4, <2>2 DEF CloseJob, Idle
 <2> QED BY <2>1, <2>2
<1>8. Entered' = Entered /\ unlogged' = unlogged BY DEF Entered, adminVars
<1>9. \A g \in Handlers : /\ CloseJob(job'[g])
                          /\ job[g].op = "closeRoom" /\ job[g].at = "audit" => job'[g] = job[g]
  BY <1>2, <1>3, <1>7 DEF ClosingsInv
<1>10. \A i \in Rows' : \A s \in trace'[i] :
         s.op = "closeRoom" => (i \in Rows /\ s \in trace[i]) \/ ClosingKept(i, s)'
 <2> SUFFICES ASSUME NEW i \in Rows', NEW s \in trace'[i], s.op = "closeRoom", s \notin trace[i] \/ i \notin Rows
              PROVE  ClosingKept(i, s)'
   BY Zenon
 <2>1. i \in Rows
  <3>1. Len(records') = Len(records) BY <1>1, SequenceExcept DEF Inv1, StoreTyped
  <3> QED BY <3>1 DEF Rows
 <2>2. i = r.u.id /\ s = Span(h)
  <3>1. Sequence(trace) /\ i \in 1..Len(trace) BY <2>1 DEF Inv1, StoreTyped, Rows
  <3>2. i \in DOMAIN trace BY <3>1, SequencePlaces
  <3> QED BY <1>1, <2>1, <3>2
 <2>3. j.op = "closeRoom" /\ s.began = j.began BY <2>2 DEF Span
 <2>4. job'[h].op = "closeRoom" /\ job'[h].at = "audit" /\ job'[h].key = i /\ job'[h].began = s.began
   BY <1>7, <2>2, <2>3
 <2> QED BY <2>4 DEF ClosingKept
<1> QED BY <1>5, <1>8, <1>9, <1>10, ClosingsGo

\* A request is cut off.
LEMMA ClosingsCut ==
  ASSUME Inv1, ClosingsInv, UNCHANGED adminVars, NEW h \in Handlers, CutOff(h)
  PROVE  ClosingsInv'
<1>1. /\ dropped' = dropped \cup {<<job[h].op, job[h].key>>} /\ UNCHANGED <<records, trace>>
      /\ job'[h] = Idle /\ \A g \in Handlers : g # h => job'[g] = job[g]
  BY DEF CutOff, Inv1, StoreTyped
<1> QED BY <1>1, ClosingsStand DEF Stands, Idle
-----------------------------
\* What staff do, by the step.
LEMMA StaffCases ==
  ASSUME Administering
  PROVE  \E h \in Handlers :
           \/ SetSuspended(h) \/ RecordAudit(h) \/ AuditFails(h) \/ SuspendRequest(h)
           \/ \E by \in Admins : CloseRoom(h, by)
  BY DEF Administering, AdminStep

\* Staff suspend an account, or end its suspension.
LEMMA ClosingsSuspend ==
  ASSUME Inv1, ClosingsInv, NEW h \in Handlers, SetSuspended(h) \/ SuspendRequest(h)
  PROVE  ClosingsInv'
<1>1. \A g \in Handlers : g # h => job'[g] = job[g]
 <2>1. Turned(h, AdminOps) BY SetSuspendedTurns, AdminTurns DEF AdminStep, Inv1
 <2> QED BY <2>1 DEF Turned
<1>2. UNCHANGED <<audit, unlogged, dropped, records, trace>> /\ job[h].op # "closeRoom" /\ job'[h].op # "closeRoom"
 <2>1. CASE SetSuspended(h)
  <3>1. Typed(job[h]) /\ job[h].at = "set" BY <2>1 DEF Inv1, JobsTyped, SetSuspended, Idle
  <3>2. job[h].op # "closeRoom" /\ Basic(job[h]) BY <3>1 DEF Typed, Fits
  <3>3. job'[h] = [job[h] EXCEPT !.at = "audit"] BY <2>1 DEF SetSuspended, Wrote, Inv1, StoreTyped
  <3>4. job'[h].op = job[h].op BY <3>2, <3>3 DEF Basic
  <3> QED BY <2>1, <3>2, <3>4 DEF SetSuspended, Wrote
 <2>2. CASE SuspendRequest(h)
  <3>1. PICK by \in Admins, a \in Accounts, op \in DOMAIN Needed : StartSuspend(h, op, by, a)
    BY <2>2 DEF SuspendRequest
  <3> DEFINE k == Numbered(Request(op, by, a, "set"))
  <3>2. k.op = op /\ op # "closeRoom" BY DEF Numbered, Request, Merge, Needed
  <3>3. UNCHANGED adminVars /\ Begin(h, k) BY <3>1 DEF StartSuspend
  <3> HIDE DEF k
  <3>4. job[h] = Idle /\ job'[h] = k BY <3>3 DEF Begin, Accept, Ready, Inv1, StoreTyped
  <3> QED BY <3>2, <3>3, <3>4 DEF Begin, Accept, Idle, adminVars
 <2> QED BY <2>1, <2>2
<1>3. Entered' = Entered /\ Rows' = Rows BY <1>2 DEF Entered, Rows
<1>4. \A g \in Handlers : CloseJob(job'[g]) BY <1>1, <1>2 DEF ClosingsInv, CloseJob
<1>5. \A g \in Handlers : job[g].op = "closeRoom" => job'[g] = job[g] BY <1>1, <1>2
<1> QED BY <1>2, <1>3, <1>4, <1>5, ClosingsGo

\* Staff close the room.
LEMMA ClosingBegins ==
  ASSUME Inv1, ClosingsInv, NEW h \in Handlers, NEW by, CloseRoom(h, by)
  PROVE  ClosingsInv'
<1> DEFINE u == Update(1, [status |-> "closed"])
           m == Updating(Request("closeRoom", by, 1, "update"), {u}, "audit")
           k == Numbered(m)
<1>1. UNCHANGED adminVars /\ Begin(h, k) BY DEF CloseRoom
<1>2. /\ DOMAIN m = {"op", "at", "key", "who", "began", "todo", "read", "then"} /\ m.op = "closeRoom"
      /\ m.key = 1 /\ m.at = "update" /\ m.then = "audit" /\ m.todo = {u} /\ m.read = {} /\ u.id = 1
  BY DEF Updating, Request, Update
<1> HIDE DEF m
<1>3. k.op = "closeRoom" /\ k.key = 1 /\ k.at = "update" /\ k.then = "audit" /\ k.todo = {u} /\ k.read = {}
  BY <1>2 DEF Numbered, Merge
<1> HIDE DEF k, u
<1>4. /\ UNCHANGED <<dropped, records, trace>>
      /\ job[h] = Idle /\ job'[h] = k /\ \A g \in Handlers : g # h => job'[g] = job[g]
 <2>1. DOMAIN job = Handlers BY DEF Inv1, StoreTyped
 <2> QED BY <1>1, <2>1 DEF Begin, Accept, Ready
<1>5. CloseJob(k) BY <1>2, <1>3 DEF CloseJob
<1>6. Entered' = Entered /\ unlogged' = unlogged /\ Rows' = Rows BY <1>1, <1>4 DEF Entered, adminVars, Rows
<1>7. \A g \in Handlers : /\ CloseJob(job'[g])
                          /\ job[g].op = "closeRoom" => job'[g] = job[g]
  BY <1>4, <1>5 DEF ClosingsInv, Idle
<1> QED BY <1>4, <1>6, <1>7, ClosingsGo

\* It is entered in the log, or the entry is let go.
LEMMA ClosingEnds ==
  ASSUME Inv1, DeedsInv, ClosingsInv, NEW h \in Handlers, RecordAudit(h) \/ AuditFails(h)
  PROVE  ClosingsInv'
<1>1. Deed(job[h]) \in Entered' \cup unlogged' /\ \A d \in Entered \cup unlogged : d \in Entered' \cup unlogged'
 <2>1. CASE RecordAudit(h)
  <3> DEFINE e == [deed |-> Deed(job[h]), wrote |-> writes + 1]
  <3>1. audit' = Append(audit, e) /\ unlogged' = unlogged /\ e.deed = Deed(job[h]) BY <2>1 DEF RecordAudit
  <3> HIDE DEF e
  <3>2. Entered' = Entered \cup {e.deed} BY <3>1, EntryAdded DEF DeedsInv
  <3> QED BY <3>1, <3>2
 <2>2. CASE AuditFails(h) BY <2>2 DEF AuditFails, Entered
 <2> QED BY <2>1, <2>2
<1>2. UNCHANGED <<dropped, records, trace>> /\ job'[h] = Idle /\ \A g \in Handlers : g # h => job'[g] = job[g]
 <2>1. job[h].at = "audit" BY DEF RecordAudit, AuditFails
 <2>2. DOMAIN job = Handlers /\ Basic(job[h]) BY <2>1 DEF Inv1, StoreTyped, JobsTyped, Idle, Typed
 <2> QED BY <2>2 DEF RecordAudit, AuditFails, Wrote, Become, Basic
<1>3. job[h].op = "closeRoom" =>
        \E d \in Entered' \cup unlogged' : d.action = "closeRoom" /\ d.began = job[h].began
 <2>1. Deed(job[h]).action = job[h].op /\ Deed(job[h]).began = job[h].began BY DEF Deed
 <2> QED BY <1>1, <2>1
<1>4. Rows' = Rows BY <1>2 DEF Rows
<1>5. \A g \in Handlers : CloseJob(job'[g]) BY <1>2 DEF ClosingsInv, CloseJob, Idle
<1>6. \A g \in Handlers :
        job[g].op = "closeRoom" /\ job[g].at = "audit" =>
          \/ job'[g] = job[g]
          \/ \E d \in Entered' \cup unlogged' : d.action = "closeRoom" /\ d.began = job[g].began
  BY <1>2, <1>3
<1> QED BY <1>1, <1>2, <1>4, <1>5, <1>6, ClosingsGo
-----------------------------
\* Both, whatever is done.
AuditInv == DeedsInv /\ ClosingsInv

\* They stay.
LEMMA AuditKeeps ==
  ASSUME Inv1, AuditInv, [PlatformNext]_platformVars
  PROVE  AuditInv'
<1>1. DeedsInv /\ ClosingsInv BY DEF AuditInv
<1>2. CASE Administering
 <2>1. PICK h \in Handlers :
          \/ SetSuspended(h) \/ RecordAudit(h) \/ AuditFails(h) \/ SuspendRequest(h)
          \/ \E by \in Admins : CloseRoom(h, by)
   BY <1>2, StaffCases
 <2>2. CASE SetSuspended(h) BY <1>1, <2>2, SuspendSets, ClosingsSuspend DEF AuditInv
 <2>3. CASE RecordAudit(h) BY <1>1, <2>3, DeedEntered, ClosingEnds DEF AuditInv
 <2>4. CASE AuditFails(h) BY <1>1, <2>4, DeedUnlogged, ClosingEnds DEF AuditInv
 <2>5. CASE SuspendRequest(h) BY <1>1, <2>5, SuspendBegins, ClosingsSuspend DEF AuditInv
 <2>6. CASE \E by \in Admins : CloseRoom(h, by) BY <1>1, <2>6, CloseBegins, ClosingBegins DEF AuditInv
 <2> QED BY <2>1, <2>2, <2>3, <2>4, <2>5, <2>6
<1>3. CASE ~Administering
 <2>1. /\ UNCHANGED adminVars /\ dropped \subseteq dropped'
       /\ \A g \in Handlers : /\ job[g].op \in Deeds => Stands(g)
                              /\ job'[g].op \in Deeds => job'[g] = job[g]
   BY <1>3, StaffStands
 <2>2. DeedsInv'
  <3>1. writes' \in {writes, writes + 1} /\ accepted' \in {accepted, accepted + 1} BY CountsGrow
  <3> QED BY <1>1, <2>1, <3>1, DeedsStand
 <2>3. ClosingsInv'
  <3>1. CASE \E h \in Handlers : Acts(h, PlainOps \cup SessionOps)
   <4>1. PICK h \in Handlers : Acts(h, PlainOps \cup SessionOps) BY <3>1
   <4>2. job'[h].op # "closeRoom"
    <5>1. PlainOps \cap AdminOps = {} /\ SessionOps \cap AdminOps = {} /\ "closeRoom" \in AdminOps
      BY KindsApart DEF AdminOps, SessionOps
    <5> QED BY <4>1, <5>1 DEF Acts, Works, Turned, Idle
   <4>3. job[h].op # "closeRoom"
    <5>1. PlainOps \cap AdminOps = {} /\ SessionOps \cap AdminOps = {} /\ "closeRoom" \in AdminOps
      BY KindsApart DEF AdminOps, SessionOps
    <5> QED BY <4>1, <5>1 DEF Acts, Works, Idle
   <4>4. trace' = trace /\ records' = records /\ \A g \in Handlers : g # h => job'[g] = job[g]
     BY <4>1 DEF Acts, Turned
   <4> QED BY <1>1, <2>1, <4>2, <4>3, <4>4, ClosingsStand DEF Stands, Idle
  <3>2. CASE \E h \in Handlers : StoreStep(h) \/ CutOff(h)
    BY <1>1, <2>1, <3>2, ClosingsAdd, ClosingsRead, ClosingsWrite, ClosingsCut DEF StoreStep
  <3>3. CASE UNCHANGED storeVars BY <1>1, <2>1, <3>3, ClosingsStand DEF storeVars, handlerVars, Stands
  <3> QED BY <1>3, <3>1, <3>2, <3>3, OtherSteps
 <2> QED BY <2>2, <2>3 DEF AuditInv
<1> QED BY <1>2, <1>3

\* They hold at first.
LEMMA InitAudit ==
  ASSUME PlatformInit
  PROVE  AuditInv
<1>1. /\ suspendedBy = [a \in Accounts |-> Nobody] /\ audit = <<>> /\ deeds = {} /\ unlogged = {}
      /\ \A h \in Handlers : job[h] = Idle
  BY DEF PlatformInit, AdminInit, StoreInit, HandlersInit
<1>2. Sequence(audit) /\ Len(audit) = 0 /\ 1..Len(audit) = {} BY <1>1, EmptySequence
<1>3. AdminData /\ Entered = {} BY <1>1, <1>2 DEF AdminData, Entered
<1>4. StaffApartInv BY <1>1 DEF StaffApartInv, StaffJob, Idle, Deeds
<1>5. ASSUME NEW a \in Accounts PROVE Accounted(a)
 <2>1. Missing(a) = {} /\ suspendedBy[a] = Nobody BY <1>1 DEF Missing
 <2>2. Entries("suspend", a) = {} BY <1>2 DEF Entries
 <2>3. Replay(a) = Nobody BY <2>2 DEF Replay
 <2> QED BY <2>1, <2>3 DEF Accounted
<1>6. DeedsInv BY <1>1, <1>3, <1>4, <1>5 DEF DeedsInv
<1>7. \A r \in Rows : trace[r] = {} BY DEF PlatformInit, StoreInit, Rows
<1>8. ClosingsInv BY <1>1, <1>7 DEF ClosingsInv, CloseJob, Idle
<1> QED BY <1>6, <1>8 DEF AuditInv

\* They say that the log is true.
LEMMA AuditFollows ==
  ASSUME AuditInv
  PROVE  AuditTruthful
<1>1. ASSUME NEW d \in deeds
      PROVE  \/ d \in Entered \cup unlogged \/ WasCutOff(d.action, d.target)
             \/ InFlight(d.action, d.target, {"audit"})
 <2>1. DeedKept(d) BY DEF AuditInv, DeedsInv
 <2>2. ASSUME NEW h \in Handlers, job[h].at = "audit", Deed(job[h]) = d
       PROVE  InFlight(d.action, d.target, {"audit"})
  <3>1. d.action = job[h].op /\ d.target = job[h].key BY <2>2 DEF Deed
  <3> QED BY <2>2, <3>1 DEF InFlight
 <2> QED BY <2>1, <2>2 DEF DeedKept
<1>2. ASSUME NEW r \in Kind("room"), NEW s \in trace[r], s.op = "closeRoom"
      PROVE  \/ \E d \in Entered \cup unlogged : d.action = s.op /\ d.began = s.began
             \/ WasCutOff(s.op, r) \/ InFlight(s.op, r, {"audit"})
 <2>1. ClosingKept(r, s) BY <1>2 DEF AuditInv, ClosingsInv, Kind, Where, Rows
 <2> QED BY <1>2, <2>1 DEF ClosingKept, InFlight
<1>3. ASSUME NEW a \in Accounts
      PROVE  \/ suspendedBy[a] = Replay(a) \/ (\E d \in deeds : d.target = a /\ d \notin Entered) \/ Crossed(a)
  BY DEF AuditInv, DeedsInv, Accounted, Missing
<1> QED BY <1>1, <1>2, <1>3 DEF AuditTruthful, Entered, Crossed

\* The audit log is true: what staff did is in it, or is known not to be, and
\* who has suspended whom is what it says, but for deeds that crossed each
\* other or that it has not (account-admin.service.js, admin-panel.service.js,
\* audit.service.js).
THEOREM AuditIsTruthful == PlatformSpec => []AuditTruthful
<1> DEFINE I == PlatformInv /\ AuditInv
<1>1. PlatformInit => I BY InitPlatform, InitAudit
<1>2. I /\ [PlatformNext]_platformVars => I' BY PlatformKeeps, AuditKeeps DEF PlatformInv
<1>3. I => AuditTruthful BY AuditFollows
<1> QED BY <1>1, <1>2, <1>3, PTL DEF PlatformSpec
-----------------------------
(* Rows and their history: what was read of a row holds as long as nobody
   has written the row since. *)

\* h adds a row, or writes one.
Adds1(h) ==
  /\ job[h] # Idle /\ Typed(job[h]) /\ job[h].at = "add"
  /\ Len(records') = Len(records) + 1
  /\ \A i \in Rows : records'[i] = records[i] /\ trace'[i] = trace[i]
  /\ records'[Len(records) + 1] = job[h].new /\ trace'[Len(records) + 1] = {Span(h)}
\* h writes a row, from the copy it read.
Writes1(h) ==
  /\ job[h] # Idle /\ Typed(job[h]) /\ job[h].at = "update"
  /\ \E r \in job[h].read :
       /\ r.u.id \in Rows /\ Mend(job[h], r.u, job[h].then) /\ Copied(r)
       /\ records' = [records EXCEPT ![r.u.id] = Merge(r.copy, r.u.patch)]
       /\ trace' = [trace EXCEPT ![r.u.id] = @ \cup {Span(h)}]

\* What a step does to the rows.
LEMMA RowSteps ==
  ASSUME Inv1, [PlatformNext]_platformVars
  PROVE  \/ records' = records /\ trace' = trace
         \/ \E h \in Handlers : (Adds1(h) \/ Writes1(h)) /\ writes' = writes + 1
<1>1. StoreTyped /\ JobsTyped /\ serving' = serving BY StepShape DEF Inv1
<1>2. CASE \E h \in Handlers : Acts(h, AllOps) BY <1>2 DEF Acts, Turned
<1>3. CASE \E h \in Handlers : StoreStep(h) \/ CutOff(h)
 <2>1. PICK h \in Handlers : StoreStep(h) \/ CutOff(h) BY <1>3
 <2>2. job[h] = Idle \/ Typed(job[h]) BY <1>1 DEF JobsTyped
 <2>3. CASE AddRow(h)
  <3>1. job[h].at = "add" BY <2>3 DEF AddRow
  <3> QED BY <1>1, <2>2, <2>3, <3>1, AddRowKeeps DEF Adds1, Idle
 <2>4. CASE ReadRow(h) BY <2>4 DEF ReadRow
 <2>5. CASE WriteRow(h)
  <3>1. job[h].at = "update" BY <2>5 DEF WriteRow
  <3>2. /\ writes' = writes + 1
        /\ \E r \in job[h].read :
             /\ r.u.id \in Rows /\ Mend(job[h], r.u, job[h].then) /\ Copied(r)
             /\ records' = [records EXCEPT ![r.u.id] = Merge(r.copy, r.u.patch)]
             /\ trace' = [trace EXCEPT ![r.u.id] = @ \cup {Span(h)}]
    BY <1>1, <2>5, WriteRowKeeps
  <3>3. job[h] # Idle BY <3>1 DEF Idle
  <3> QED BY <2>2, <3>1, <3>2, <3>3 DEF Writes1
 <2>6. CASE CutOff(h) BY <2>6 DEF CutOff
 <2> QED BY <2>1, <2>3, <2>4, <2>5, <2>6 DEF StoreStep
<1>4. CASE UNCHANGED storeVars BY <1>4 DEF storeVars
<1> QED BY <1>2, <1>3, <1>4, StepShape

\* The rows and the traces after h has added or written one.
LEMMA RowsAfter ==
  ASSUME Inv1, NEW h \in Handlers, Adds1(h) \/ Writes1(h), Inv1'
  PROVE  \E k \in Rows' :
           /\ \A i \in Rows' : i # k => i \in Rows /\ records'[i] = records[i] /\ trace'[i] = trace[i]
           /\ Span(h) \in trace'[k]
           /\ \A i \in Rows : i \in Rows' /\ trace[i] \subseteq trace'[i]
           /\ \A s \in trace'[k] : s = Span(h) \/ (k \in Rows /\ s \in trace[k])
           /\ \/ k \notin Rows /\ job[h].at = "add" /\ records'[k] = job[h].new
              \/ /\ k \in Rows /\ job[h].at = "update"
                 /\ \E r \in job[h].read : /\ r.u.id = k /\ Mend(job[h], r.u, job[h].then) /\ Copied(r)
                                           /\ records'[k] = Merge(r.copy, r.u.patch)
<1>1. /\ Rows = DOMAIN records /\ Rows = DOMAIN trace /\ Len(records) \in Nat
      /\ Rows' = DOMAIN records' /\ Len(records') \in Nat
  BY SequencePlaces DEF Inv1, StoreTyped, Rows
<1>2. CASE Adds1(h)
 <2>1. Rows' = Rows \cup {Len(records) + 1} /\ Len(records) + 1 \notin Rows BY <1>1, <1>2 DEF Rows, Adds1
 <2> QED BY <1>2, <2>1 DEF Adds1
<1>3. CASE Writes1(h)
 <2>1. PICK r \in job[h].read :
         /\ r.u.id \in Rows /\ Mend(job[h], r.u, job[h].then) /\ Copied(r)
         /\ records' = [records EXCEPT ![r.u.id] = Merge(r.copy, r.u.patch)]
         /\ trace' = [trace EXCEPT ![r.u.id] = @ \cup {Span(h)}]
   BY <1>3 DEF Writes1
 <2>2. job[h].at = "update" BY <1>3 DEF Writes1
 <2> DEFINE k == r.u.id
            m == Merge(r.copy, r.u.patch)
            w == trace[k] \cup {Span(h)}
 <2>3. records' = [records EXCEPT ![k] = m] /\ trace' = [trace EXCEPT ![k] = w] BY <2>1
 <2> HIDE DEF m, w
 <2>4. Rows' = Rows BY <1>1, <2>3
 <2>5. \A i \in Rows : (i # k => records'[i] = records[i] /\ trace'[i] = trace[i])
         /\ (i = k => records'[i] = m /\ trace'[i] = w)
   BY <1>1, <2>3
 <2>6. trace[k] \subseteq w /\ Span(h) \in w /\ \A s \in w : s = Span(h) \/ s \in trace[k] BY DEF w
 <2> QED BY <2>1, <2>2, <2>4, <2>5, <2>6 DEF m
<1> QED BY <1>2, <1>3

\* Every step leaves a row as it is, or renews it.
LEMMA RowsMoveOn ==
  ASSUME Inv1, [PlatformNext]_platformVars
  PROVE  RowsMove
  BY Inv1Keeps DEF RowsKept

\* What was renewed stays so, and so does what is disordered.
LEMMA HistoryGrows ==
  ASSUME RowsMove
  PROVE  /\ \A i \in Rows : \A n : Renewed(i, n) => Renewed(i, n)'
         /\ \A i, k \in Rows : Overlap(i, k) => Overlap(i, k)'
         /\ \A i \in Rows : Disordered(i) => Disordered(i)'
<1>1. \A i, k \in Rows : Overlap(i, k) => Overlap(i, k)' BY DEF RowsMove, Overlap
<1> QED BY <1>1 DEF RowsMove, Renewed, Disordered

\* In other words: before its last write.
LEMMA RenewedIs ==
  ASSUME StoreTyped, NEW i \in Rows, NEW n \in Nat
  PROVE  Renewed(i, n) <=> n < LastWrite(i)
<1> DEFINE ends == {s.wrote : s \in trace[i]}
<1>1. writes \in Nat /\ ends \subseteq 0..writes BY DEF StoreTyped
<1>2. LastWrite(i) = IF ends = {} THEN 0 ELSE CHOOSE m \in ends : \A k \in ends : k <= m
  BY Zenon DEF LastWrite
<1>3. Renewed(i, n) <=> \E m \in ends : m > n BY DEF Renewed
<1> HIDE DEF ends
<1>4. CASE ends = {} BY <1>2, <1>3, <1>4
<1>5. CASE ends # {}
 <2>1. LastWrite(i) \in ends /\ \A k \in ends : k <= LastWrite(i) BY <1>1, <1>2, <1>5, LeastNumber
 <2>2. \A m \in ends : m \in Nat /\ m <= LastWrite(i) BY <1>1, <2>1
 <2>3. (\E m \in ends : m > n) <=> n < LastWrite(i)
  <3>1. LastWrite(i) \in Nat BY <2>1, <2>2
  <3>2. ASSUME NEW m \in ends, m > n PROVE n < LastWrite(i)
   <4>1. m \in Nat /\ m <= LastWrite(i) BY <2>2
   <4> QED BY <3>1, <3>2, <4>1
  <3>3. n < LastWrite(i) => LastWrite(i) > n BY <3>1
  <3> QED BY <2>1, <3>2, <3>3
 <2> QED BY <1>3, <2>3
<1> QED BY <1>4, <1>5
-----------------------------
(* What a request has read of blocks, of privacy, of mutes and of muted
   categories, and may act upon: it holds, or was written since. *)

\* No block stands between the two, but one that was written after n writes.
Unblocked(two, n) ==
  \A b \in KindIn("block", {"active"}) : {records[b].who, records[b].whom} = two => Renewed(b, n)

\* a lets some write to it, or wrote its profile after n writes.
Admits(a, n) ==
  Profile(a) = 0 \/ (records[Profile(a)].privacy.whoCanMessage = "nobody" => Renewed(Profile(a), n))

\* a has not muted b, or did so after n writes.
Heeds(a, b, n) ==
  \A m \in KindIn("mute", {"active"}) : records[m].who = a /\ records[m].whom = b => Renewed(m, n)

\* a has not muted the category, or did so after n writes.
Wants(a, category, n) == category \in muted[a] => n < mutedAt[a]

\* What a request that is past its checks has found.
Wary(j) ==
  /\ j.op \in {"follow", "friend"} /\ j.at \in {"find", "add"} => Unblocked({j.who, j.to}, j.began)
  /\ j.op = "send" /\ j.at \in {"presence", "post"} => Unblocked(j.key, j.began)
  /\ j.op = "open" /\ j.at \in {"friends", "insert"} => Admits(j.to, j.began)
  /\ j.at = "notify" /\ j.category = "social" => Heeds(j.to, j.who, j.began)
  /\ j.op = "answer" => j.category # "social"
  /\ j.at \in {"devices", "push"} => Wants(j.to, j.category, j.began)

\* Preferences are those that may be set.
PreferencesTyped ==
  /\ DOMAIN muted = Accounts /\ DOMAIN mutedAt = Accounts
  /\ \A a \in Accounts : muted[a] \subseteq Muteable /\ mutedAt[a] \in 0..writes

\* Requests that have something to be wary of.
Hearing == {"follow", "friend", "accepted", "send", "open", "answer", "redeliver"}

\* Other requests have nothing to be wary of.
LEMMA OthersAreWary ==
  ASSUME NEW j, j = Idle \/ (Typed(j) /\ j.op \notin Hearing)
  PROVE  Wary(j)
<1>1. CASE j = Idle BY <1>1 DEF Idle, Wary
<1>2. CASE Typed(j) /\ j.op \notin Hearing BY <1>2 DEF Typed, Fits, Telling1, Hearing, Wary
<1> QED BY <1>1, <1>2

\* Where no block stood, none stands that is not newer.
LEMMA UnblockedStays ==
  ASSUME RowsMove, NEW two, NEW n \in 0..writes, Unblocked(two, n)
  PROVE  Unblocked(two, n)'
<1> SUFFICES ASSUME NEW b \in Rows', records'[b].kind = "block", records'[b].status = "active",
                    {records'[b].who, records'[b].whom} = two, ~Renewed(b, n)'
             PROVE  FALSE
  BY DEF Unblocked, KindIn, Where, Rows
<1>1. b \in Rows /\ records'[b] = records[b] /\ trace'[b] = trace[b] BY DEF RowsMove
<1> QED BY <1>1 DEF Unblocked, KindIn, Where, Rows, Renewed

\* Where no mute stood, none stands that is not newer.
LEMMA HeedsStays ==
  ASSUME RowsMove, NEW a, NEW b, NEW n \in 0..writes, Heeds(a, b, n)
  PROVE  Heeds(a, b, n)'
<1> SUFFICES ASSUME NEW m \in Rows', records'[m].kind = "mute", records'[m].status = "active",
                    records'[m].who = a, records'[m].whom = b, ~Renewed(m, n)'
             PROVE  FALSE
  BY DEF Heeds, KindIn, Where, Rows
<1>1. m \in Rows /\ records'[m] = records[m] /\ trace'[m] = trace[m] BY DEF RowsMove
<1> QED BY <1>1 DEF Heeds, KindIn, Where, Rows, Renewed

\* The profile of an account stays the one it is, or is a new one.
LEMMA ProfileStays ==
  ASSUME Inv1, Inv1', RowsKept, NEW a
  PROVE  /\ Profile(a) # 0 => Profile(a) \in Rows /\ Profile(a)' = Profile(a)
         /\ Profile(a) = 0 => Profile(a)' = 0 \/ Profile(a)' \in Rows' \ Rows
<1> DEFINE S == {i \in Rows : records[i].kind = "profile" /\ records[i].who = a}
           T == {i \in Rows' : records'[i].kind = "profile" /\ records'[i].who = a}
<1>1. Len(records) \in Nat /\ Len(records') \in Nat BY SequencePlaces DEF Inv1, StoreTyped
<1>2. Sought(S, Profile(a)) BY <1>1, ProfileFound DEF Rows
<1>3. Sought(T, Profile(a)')
 <2>1. Profile(a)' = IF T = {} THEN 0 ELSE CHOOSE i \in T : \A j \in T : i <= j
   BY Zenon DEF Profile, Find, Where, Rows
 <2>2. T \subseteq 1..Len(records') BY DEF Rows
 <2> HIDE DEF T
 <2> QED BY <1>1, <2>1, <2>2, SearchFinds
<1>4. S \subseteq T BY DEF RowsKept, SameRow
<1>5. T \subseteq S \cup (Rows' \ Rows) BY DEF RowsKept, SameRow
<1>6. Rows \subseteq Rows' BY DEF RowsKept
<1>7. S \subseteq Rows /\ T \subseteq Rows' OBVIOUS
<1> HIDE DEF S, T
<1>8. \A i \in Rows : \A k \in Rows' \ Rows : i < k BY <1>1, <1>6 DEF Rows
<1>9. (\A i \in Rows : i \in Nat /\ i >= 1) /\ (\A i \in Rows' : i \in Nat) BY <1>1 DEF Rows
<1>10. CASE S = {} BY <1>2, <1>3, <1>5, <1>7, <1>10, <1>1 DEF Sought, Rows
<1>11. CASE S # {}
 <2>1. Profile(a) \in S /\ \A k \in S : Profile(a) <= k BY <1>2, <1>11 DEF Sought
 <2>2. Profile(a)' \in T /\ \A k \in T : Profile(a)' <= k BY <1>3, <1>4, <1>11 DEF Sought
 <2>3. Profile(a)' \in S
  <3>1. Profile(a)' <= Profile(a) BY <1>4, <2>1, <2>2
  <3>2. Profile(a)' \notin Rows' \ Rows
   <4>1. ASSUME Profile(a)' \in Rows' \ Rows PROVE FALSE
    <5>1. Profile(a) < Profile(a)' BY <1>7, <1>8, <2>1, <4>1
    <5>2. Profile(a) \in Nat /\ Profile(a)' \in Nat BY <1>7, <1>9, <2>1, <2>2
    <5> QED BY <3>1, <5>1, <5>2
   <4> QED BY <4>1
  <3> QED BY <1>5, <2>2, <3>2
 <2>4. Profile(a) \in Nat /\ Profile(a)' \in Nat /\ Profile(a) >= 1 BY <1>7, <1>9, <2>1, <2>3
 <2>5. Profile(a) <= Profile(a)' /\ Profile(a)' <= Profile(a) BY <1>4, <2>1, <2>2, <2>3
 <2> QED BY <1>7, <2>1, <2>4, <2>5
<1> QED BY <1>10, <1>11

\* Who could be written to can be, or has said otherwise since.
LEMMA AdmitsStays ==
  ASSUME Inv1, Inv1', RowsKept, RowsMove, NEW a, NEW n \in 0..writes, Admits(a, n)
  PROVE  Admits(a, n)'
<1>1. CASE Profile(a) = 0
 <2>1. Profile(a)' = 0 \/ Profile(a)' \in Rows' \ Rows BY <1>1, ProfileStays
 <2>2. \A i \in Rows' \ Rows : Renewed(i, n)' BY DEF RowsMove
 <2>3. \A i : i = Profile(a)' /\ i \in Rows' \ Rows => Renewed(i, n)' BY <2>2
 <2> QED BY <2>1, <2>3 DEF Admits, Renewed
<1>2. CASE Profile(a) # 0
 <2>1. Profile(a) \in Rows /\ Profile(a)' = Profile(a) BY <1>2, ProfileStays
 <2> DEFINE i == Profile(a)
 <2>2. i \in Rows' /\ i \in Rows BY <2>1 DEF RowsKept
 <2>3. records[i].privacy.whoCanMessage = "nobody" => Renewed(i, n) BY <1>2 DEF Admits
 <2>4. \A k : k = i => (records'[k].privacy.whoCanMessage = "nobody" => Renewed(k, n)')
  <3> SUFFICES ASSUME NEW k, k = i, records'[k].privacy.whoCanMessage = "nobody" PROVE Renewed(k, n)'
    OBVIOUS
  <3>1. k \in Rows' /\ k \in Rows BY <2>2
  <3>2. CASE records'[k] = records[k] /\ trace'[k] = trace[k] BY <2>3, <3>2 DEF Renewed
  <3> QED BY <3>1, <3>2 DEF RowsMove
 <2> HIDE DEF i
 <2>5. records'[i].privacy.whoCanMessage = "nobody" => \E s \in trace'[i] : s.wrote > n BY <2>4 DEF Renewed
 <2> QED BY <2>1, <2>5 DEF Admits, Renewed, i
<1> QED BY <1>1, <1>2
-----------------------------
\* Preferences stay, or are set now.
PreferencesMove ==
  \A a \in Accounts : \/ muted'[a] = muted[a] /\ mutedAt'[a] = mutedAt[a]
                      \/ mutedAt'[a] > writes

\* What was not muted is not, or has been muted since.
LEMMA WantsStays ==
  ASSUME PreferencesMove, NEW a \in Accounts, NEW category, NEW n \in 0..writes, writes \in Nat,
         mutedAt'[a] \in Nat,
         Wants(a, category, n)
  PROVE  Wants(a, category, n)'
<1>1. CASE muted'[a] = muted[a] /\ mutedAt'[a] = mutedAt[a] BY <1>1 DEF Wants
<1>2. CASE mutedAt'[a] > writes
 <2>1. n < mutedAt'[a] BY <1>2
 <2> QED BY <2>1 DEF Wants
<1> QED BY <1>1, <1>2 DEF PreferencesMove

\* What a request has found stays so while others take steps.
LEMMA WaryStays ==
  ASSUME Inv1, Inv1', RowsKept, RowsMove, PreferencesMove, PreferencesTyped', NEW j, Typed(j), Wary(j)
  PROVE  Wary(j)'
<1>1. j.began \in 0..writes /\ writes \in Nat /\ Fits(j.op, j.at) /\ Tells(j)
  BY DEF Typed, Inv1, StoreTyped, Carries
<1>2. \A two : Unblocked(two, j.began) => Unblocked(two, j.began)'
 <2> SUFFICES ASSUME NEW two, Unblocked(two, j.began) PROVE Unblocked(two, j.began)' OBVIOUS
 <2>1. \A n \in 0..writes : Unblocked(two, n) => Unblocked(two, n)' BY UnblockedStays
 <2> QED BY <1>1, <2>1
<1>3. \A a, b : Heeds(a, b, j.began) => Heeds(a, b, j.began)'
 <2> SUFFICES ASSUME NEW a, NEW b, Heeds(a, b, j.began) PROVE Heeds(a, b, j.began)' OBVIOUS
 <2>1. \A n \in 0..writes : Heeds(a, b, n) => Heeds(a, b, n)' BY HeedsStays
 <2> QED BY <1>1, <2>1
<1>4. \A a : Admits(a, j.began) => Admits(a, j.began)'
 <2> SUFFICES ASSUME NEW a, Admits(a, j.began) PROVE Admits(a, j.began)' OBVIOUS
 <2>1. \A n \in 0..writes : Admits(a, n) => Admits(a, n)' BY AdmitsStays
 <2> QED BY <1>1, <2>1
<1>5. \A a \in Accounts : \A c : Wants(a, c, j.began) => Wants(a, c, j.began)'
 <2> SUFFICES ASSUME NEW a \in Accounts, NEW c, Wants(a, c, j.began) PROVE Wants(a, c, j.began)' OBVIOUS
 <2>1. mutedAt'[a] \in Nat BY DEF PreferencesTyped
 <2>2. \A n \in 0..writes : Wants(a, c, n) => Wants(a, c, n)' BY <1>1, <2>1, WantsStays
 <2> QED BY <1>1, <2>2
<1>6. j.at \in {"devices", "push"} => j.to \in Accounts BY <1>1 DEF Fits, Tells, Telling1, Told
<1> QED BY <1>2, <1>3, <1>4, <1>5, <1>6 DEF Wary

\* k has, for all that matters, what j has.
Goes(k, j) ==
  /\ k.op = j.op /\ k.key = j.key /\ k.who = j.who /\ k.began = j.began
  /\ "to" \in DOMAIN j => k.to = j.to
  /\ "category" \in DOMAIN j => k.category = j.category

\* The ways a request goes on keep what matters of it.
LEMMA WaysToGo ==
  ASSUME NEW j, Basic(j)
  PROVE  /\ \A at : Goes([j EXCEPT !.at = at], j) /\ [j EXCEPT !.at = at].at = at
         /\ \A r, at : Goes(Adding(j, r, at), j) /\ Adding(j, r, at).at = "add"
         /\ \A todo, at : Goes(Updating(j, todo, at), j)
              /\ Updating(j, todo, at).at = IF todo = {} THEN at ELSE "update"
<1>1. ASSUME NEW at PROVE Goes([j EXCEPT !.at = at], j) /\ [j EXCEPT !.at = at].at = at BY DEF Goes, Basic
<1>2. ASSUME NEW r, NEW at PROVE Goes(Adding(j, r, at), j) /\ Adding(j, r, at).at = "add"
  BY DEF Goes, Basic, Adding, Merge
<1>3. ASSUME NEW todo, NEW at
      PROVE  Goes(Updating(j, todo, at), j) /\ Updating(j, todo, at).at = IF todo = {} THEN at ELSE "update"
  BY DEF Goes, Basic, Updating
<1> QED BY <1>1, <1>2, <1>3

\* A request that goes on, or begins, as k.
LEMMA BecomesThat ==
  ASSUME Inv1, NEW h \in Handlers, NEW k, Become(h, k) \/ Begin(h, k)
  PROVE  /\ job'[h] = k \/ (job'[h] = Idle /\ k.at = "end")
         /\ \A g \in Handlers : g # h => job'[g] = job[g]
         /\ UNCHANGED <<records, trace, writes, dropped>>
<1>1. DOMAIN job = Handlers BY DEF Inv1, StoreTyped
<1>2. CASE Become(h, k) BY <1>1, <1>2 DEF Become
<1>3. CASE Begin(h, k) BY <1>1, <1>3 DEF Begin, Accept
<1> QED BY <1>2, <1>3

\* A request that is at work is typed.
LEMMA AtWork ==
  ASSUME Inv1, NEW h \in Handlers, job[h].at # "none"
  PROVE  Typed(job[h]) /\ Basic(job[h]) /\ Fits(job[h].op, job[h].at) /\ Tells(job[h]) /\ CarriesPair(job[h])
         /\ job[h] # Idle
<1>1. Typed(job[h]) /\ job[h] # Idle BY DEF Inv1, JobsTyped, Idle
<1> QED BY <1>1 DEF Typed, Carries

\* Nobody has blocked whom it writes to or follows.
LEMMA AllowedIs ==
  ASSUME Inv1, NEW a, NEW b, Allowed(a, b), NEW n
  PROVE  Unblocked({a, b}, n)
<1>1. Len(records) \in Nat BY SequencePlaces DEF Inv1, StoreTyped
<1>2. ActiveRelation("block", a, b) = 0 /\ ActiveRelation("block", b, a) = 0 BY DEF Allowed
<1>3. \A x, y : ActiveRelation("block", x, y) = 0 => \A i \in 1..Len(records) : ~IsRelation(records[i], "block",
        "active", x, y)
 <2> SUFFICES ASSUME NEW x, NEW y, ActiveRelation("block", x, y) = 0, NEW i \in 1..Len(records),
                     IsRelation(records[i], "block", "active", x, y)
              PROVE  FALSE
   OBVIOUS
 <2>1. Sought({k \in 1..Len(records) : IsRelation(records[k], "block", "active", x, y)},
         ActiveRelation("block", x, y))
   BY <1>1, ActiveRelationFound
 <2> QED BY <1>1, <2>1 DEF Sought
<1> SUFFICES ASSUME NEW m \in 1..Len(records), records[m].kind = "block", records[m].status = "active",
                    {records[m].who, records[m].whom} = {a, b}
             PROVE  FALSE
  BY DEF Unblocked, KindIn, Where
<1>4. (records[m].who = a /\ records[m].whom = b) \/ (records[m].who = b /\ records[m].whom = a) OBVIOUS
<1> QED BY <1>2, <1>3, <1>4 DEF IsRelation

\* A mute that is looked for and not there does not stand.
LEMMA NotMutedIs ==
  ASSUME Inv1, NEW a, NEW b, ActiveRelation("mute", a, b) = 0, NEW n
  PROVE  Heeds(a, b, n)
<1>1. Len(records) \in Nat BY SequencePlaces DEF Inv1, StoreTyped
<1>2. Sought({k \in 1..Len(records) : IsRelation(records[k], "mute", "active", a, b)}, ActiveRelation("mute", a, b))
  BY <1>1, ActiveRelationFound
<1> QED BY <1>1, <1>2 DEF Sought, Heeds, KindIn, Where, IsRelation
-----------------------------
\* A request as it comes.
LEMMA RequestIs ==
  ASSUME NEW op, NEW a, NEW key, NEW at
  PROVE  LET j == Request(op, a, key, at) IN
         Basic(j) /\ j.op = op /\ j.who = a /\ j.key = key /\ j.at = at /\ j.began = writes
  BY DEF Request, Basic

\* A request that is to tell somebody carries whom, and of what.
LEMMA TellingIs ==
  ASSUME NEW j, Basic(j), NEW to, NEW category
  PROVE  LET k == Telling(j, to, category) IN
         /\ Basic(k) /\ k.op = j.op /\ k.who = j.who /\ k.key = j.key /\ k.at = j.at /\ k.began = j.began
         /\ "to" \in DOMAIN k /\ "category" \in DOMAIN k /\ k.to = to /\ k.category = category
  BY DEF Telling, Merge, Basic

\* Of a request that only changes records there is nothing to be wary of.
LEMMA ChangersAreWary ==
  ASSUME NEW j, j.at \in {"update", "end"} \/ (j.at = "add" /\ j.op \notin {"follow", "friend"}), j.op # "answer"
  PROVE  Wary(j)
  BY DEF Wary

\* A request that follows, befriends, blocks, mutes or answers.
LEMMA SocialWary ==
  ASSUME Inv1, NEW h \in Handlers, Wary(job[h]),
         \/ SocialStep(h) \/ SocialRequest(h) \/ MuteRequest(h)
         \/ \E a, b \in Accounts : StartRelation(h, "follow", a, b) \/ Bar(h, "block", a, b)
                                      \/ Lift(h, "block", a, b)
         \/ \E a, b : Lift(h, "follow", a, b)
         \/ \E a \in Accounts, i \in Rows : Answer(h, a, i, "accepted")
  PROVE  Wary(job'[h])
<1> DEFINE j == job[h]
<1>1. Wary(Idle) BY OthersAreWary
<1>2. ASSUME NEW op \in {"follow", "friend"}, NEW a, NEW b, StartRelation(h, op, a, b) PROVE Wary(job'[h])
 <2> DEFINE k == Ask(op, a, b, "find")
 <2>1. Begin(h, k) /\ Allowed(a, b) BY <1>2 DEF StartRelation
 <2>2. k.op = op /\ k.who = a /\ k.to = b /\ k.at = "find" /\ k.began = writes
   BY RequestIs, TellingIs DEF Ask
 <2>3. Unblocked({a, b}, writes) BY <2>1, AllowedIs
 <2> HIDE DEF k
 <2>4. Wary(k) BY <2>2, <2>3 DEF Wary
 <2> QED BY <1>1, <2>1, <2>4, BecomesThat
<1>3. CASE FindFollow(h) \/ FindFriend(h)
 <2>1. j.op \in {"follow", "friend"} /\ j.at = "find" BY <1>3 DEF FindFollow, FindFriend, Doing
 <2>2. \E k : Become(h, k) /\ (k = [j EXCEPT !.at = "end"] \/ \E r : k = Adding(j, r, "hear"))
   BY <1>3 DEF FindFollow, FindFriend
 <2>3. PICK k : Become(h, k) /\ (k = [j EXCEPT !.at = "end"] \/ \E r : k = Adding(j, r, "hear")) BY <2>2
 <2>4. Basic(j) /\ "to" \in DOMAIN j BY <2>1, AtWork DEF Tells, Told
 <2> HIDE DEF j
 <2>5. Goes(k, j) /\ k.at \in {"end", "add"}
  <3>1. CASE k = [j EXCEPT !.at = "end"] BY <2>4, <3>1, WaysToGo
  <3>2. CASE \E r : k = Adding(j, r, "hear") BY <2>4, <3>2, WaysToGo
  <3> QED BY <2>3, <3>1, <3>2
 <2>6. Wary(k)
  <3>1. Unblocked({j.who, j.to}, j.began) BY <2>1 DEF Wary, j
  <3> QED BY <2>1, <2>4, <2>5, <3>1 DEF Wary, Goes
 <2> QED BY <1>1, <2>3, <2>6, BecomesThat
<1>4. CASE Hear(h)
 <2>1. j.at = "hear" BY <1>4 DEF Hear
 <2>2. Become(h, [j EXCEPT !.at = IF ActiveRelation("mute", j.to, j.who) # 0 THEN "end" ELSE "notify"])
   BY <1>4 DEF Hear
 <2>3. Basic(j) /\ Fits(j.op, j.at) /\ Tells(j) BY <2>1, AtWork
 <2>4. j.op \in {"follow", "friend", "accepted", "send"} /\ "to" \in DOMAIN j
   BY <2>1, <2>3 DEF Fits, Tells, Told
 <2> HIDE DEF j
 <2>5. PICK at : at = (IF ActiveRelation("mute", j.to, j.who) # 0 THEN "end" ELSE "notify") OBVIOUS
 <2>6. Goes([j EXCEPT !.at = at], j) /\ [j EXCEPT !.at = at].at = at BY <2>3, WaysToGo
 <2>7. at = "notify" => Heeds(j.to, j.who, j.began) BY <2>5, NotMutedIs
 <2>8. \A k : k = [j EXCEPT !.at = at] => Wary(k)
  <3> SUFFICES ASSUME NEW k, Goes(k, j), k.at = at PROVE Wary(k) BY <2>6
  <3>1. at \in {"end", "notify"} BY <2>5
  <3> QED BY <2>4, <2>7, <3>1 DEF Wary, Goes
 <2> QED BY <1>1, <2>2, <2>5, <2>8, BecomesThat
<1>5. ASSUME NEW a, NEW i, NEW status, status \in {"accepted", "rejected"},
             Answer(h, a, i, status) PROVE Wary(job'[h])
 <2> DEFINE q == Ask(status, a, records[i].who, "update")
            todo == {Update(i, [status |-> status])}
 <2>1. PICK at : Begin(h, Updating(q, todo, at)) BY <1>5 DEF Answer
 <2>2. Basic(q) /\ q.op = status BY RequestIs, TellingIs DEF Ask
 <2>3. todo # {} OBVIOUS
 <2> HIDE DEF q, todo
 <2>4. Goes(Updating(q, todo, at), q) /\ Updating(q, todo, at).at = "update" BY <2>2, <2>3, WaysToGo
 <2>5. Wary(Updating(q, todo, at)) BY <1>5, <2>2, <2>4, ChangersAreWary DEF Goes
 <2> QED BY <1>1, <2>1, <2>5, BecomesThat
<1>6. ASSUME NEW kind, NEW a, NEW b, Bar(h, kind, a, b), kind \in {"block", "mute"} PROVE Wary(job'[h])
 <2> DEFINE q == Request(kind, a, b, "add")
            r == Relation(kind, "active", a, b)
 <2>1. Begin(h, Adding(q, r, "end")) BY <1>6 DEF Bar
 <2>2. Basic(q) /\ q.op = kind BY RequestIs
 <2> HIDE DEF q, r
 <2>3. Goes(Adding(q, r, "end"), q) /\ Adding(q, r, "end").at = "add" BY <2>2, WaysToGo
 <2>4. Wary(Adding(q, r, "end")) BY <1>6, <2>2, <2>3, ChangersAreWary DEF Goes
 <2> QED BY <1>1, <2>1, <2>4, BecomesThat
<1>7. ASSUME NEW q, Basic(q), q.op \in {"lift", "quiet"}, NEW todo, NEW at, todo # {},
             Begin(h, Updating(q, todo, at))
      PROVE  Wary(job'[h])
 <2>1. Goes(Updating(q, todo, at), q) /\ Updating(q, todo, at).at = "update" BY <1>7, WaysToGo
 <2>2. Wary(Updating(q, todo, at)) BY <1>7, <2>1, ChangersAreWary DEF Goes
 <2> QED BY <1>1, <1>7, <2>2, BecomesThat
<1>8. ASSUME NEW kind, NEW a, NEW b, Lift(h, kind, a, b) PROVE Wary(job'[h])
 <2> DEFINE q == Request("lift", a, b, "update")
            todo == {Update(ActiveRelation(kind, a, b), [status |-> "removed"])}
 <2>1. Begin(h, Updating(q, todo, "end")) /\ todo # {} BY <1>8 DEF Lift
 <2>2. Basic(q) /\ q.op = "lift" BY RequestIs
 <2> HIDE DEF q, todo
 <2> QED BY <1>7, <2>1, <2>2
<1>9. ASSUME NEW a, NEW i, NEW quiet, SetQuiet(h, a, i, quiet) PROVE Wary(job'[h])
 <2> DEFINE q == Request("quiet", a, i, "update")
            todo == {Update(i, [quiet |-> quiet])}
 <2>1. Begin(h, Updating(q, todo, "end")) /\ todo # {} BY <1>9 DEF SetQuiet
 <2>2. Basic(q) /\ q.op = "quiet" BY RequestIs
 <2> HIDE DEF q, todo
 <2> QED BY <1>7, <2>1, <2>2
<1>10. CASE SocialStep(h) BY <1>3, <1>4, <1>10 DEF SocialStep
<1>11. CASE SocialRequest(h) BY <1>2, <1>5, <1>6, <1>8, <1>9, <1>11 DEF SocialRequest
<1>12. CASE MuteRequest(h) BY <1>6, <1>8, <1>12 DEF MuteRequest
<1> QED BY <1>2, <1>5, <1>6, <1>8, <1>10, <1>11, <1>12

\* A request that notifies, or is about notifications.
LEMMA NoticeWary ==
  ASSUME Inv1, PreferencesTyped, NEW h \in Handlers, Wary(job[h]), NotifyStep(h) \/ MarkRead(h) \/ NoticeRequest(h)
  PROVE  Wary(job'[h])
<1> DEFINE j == job[h]
<1>1. Wary(Idle) /\ DOMAIN job = Handlers BY OthersAreWary DEF Inv1, StoreTyped
<1>2. ASSUME j.at \in {"notify", "preferences", "devices", "push", "prune", "mark"}
      PROVE  /\ Basic(j) /\ (j.op = "answer" => "category" \in DOMAIN j /\ j.category # "social")
             /\ j.at # "mark" => "to" \in DOMAIN j /\ "category" \in DOMAIN j /\ j.to \in Accounts
 <2>1. Basic(j) /\ Fits(j.op, j.at) /\ Tells(j) BY <1>2, AtWork
 <2> QED BY <1>2, <2>1 DEF Wary, Fits, Tells, Told, Telling1
<1>3. ASSUME NEW at, at \in {"end", "preferences", "prune"}, Basic(j), NEW k, Goes(k, j), k.at = at,
             j.op = "answer" => "category" \in DOMAIN j /\ j.category # "social"
      PROVE  Wary(k)
  BY <1>3 DEF Wary, Goes
<1>4. CASE CreateNotification(h)
 <2>1. Become(h, [j EXCEPT !.at = "preferences"]) /\ j.at = "notify" BY <1>4 DEF CreateNotification
 <2> HIDE DEF j
 <2>2. Wary([j EXCEPT !.at = "preferences"]) BY <1>2, <1>3, <2>1, WaysToGo
 <2> QED BY <1>1, <2>1, <2>2, BecomesThat
<1>5. CASE ReadPreferences(h)
 <2>1. j.at = "preferences"
       /\ Become(h, [j EXCEPT !.at = IF j.category \in Muteable \cap muted[j.to] THEN "end" ELSE "devices"])
   BY <1>5 DEF ReadPreferences
 <2> HIDE DEF j
 <2>2. PICK at : at = (IF j.category \in Muteable \cap muted[j.to] THEN "end" ELSE "devices") OBVIOUS
 <2>3. /\ Basic(j) /\ (j.op = "answer" => "category" \in DOMAIN j /\ j.category # "social")
       /\ "to" \in DOMAIN j /\ "category" \in DOMAIN j /\ j.to \in Accounts
   BY <1>2, <2>1
 <2>4. Goes([j EXCEPT !.at = at], j) /\ [j EXCEPT !.at = at].at = at BY <2>3, WaysToGo
 <2>5. at = "devices" => j.category \notin muted[j.to] BY <2>2, <2>3 DEF PreferencesTyped
 <2>6. \A k : Goes(k, j) /\ k.at = at => Wary(k)
  <3> SUFFICES ASSUME NEW k, Goes(k, j), k.at = at PROVE Wary(k) OBVIOUS
  <3>1. at \in {"end", "devices"} BY <2>2
  <3>2. at = "devices" => Wants(k.to, k.category, k.began) BY <2>3, <2>5 DEF Wants, Goes
  <3> QED BY <2>3, <3>1, <3>2 DEF Wary, Goes
 <2>7. Wary([j EXCEPT !.at = at]) BY <2>4, <2>6
 <2> QED BY <1>1, <2>1, <2>2, <2>7, BecomesThat
<1>6. CASE ListDevices(h)
 <2>1. j.at = "devices" BY <1>6 DEF ListDevices
 <2>2. PICK tokens, at : at \in {"end", "push"} /\ Become(h, Merge(j, [tokens |-> tokens, at |-> at]))
   BY <1>6, Zenon DEF ListDevices
 <2> HIDE DEF j
 <2> DEFINE k == Merge(j, [tokens |-> tokens, at |-> at])
 <2>3. /\ Basic(j) /\ (j.op = "answer" => "category" \in DOMAIN j /\ j.category # "social")
       /\ "to" \in DOMAIN j /\ "category" \in DOMAIN j /\ j.to \in Accounts
   BY <1>2, <2>1
 <2>4. Goes(k, j) /\ k.at = at BY <2>3 DEF Merge, Goes, Basic
 <2> HIDE DEF k
 <2>5. Wants(j.to, j.category, j.began) BY <2>1 DEF Wary, j
 <2>6. Wary(k) BY <2>2, <2>3, <2>4, <2>5 DEF Wary, Goes
 <2> QED BY <1>1, <2>2, <2>6, BecomesThat DEF k
<1>7. CASE Push(h) \/ Prune(h)
 <2>1. j.at \in {"push", "prune"}
  <3>1. Push(h) => j.at = "push" BY Zenon DEF Push
  <3>2. Prune(h) => j.at = "prune" BY Zenon DEF Prune
  <3> QED BY <1>7, <3>1, <3>2
 <2>2. Basic(j) /\ (j.op = "answer" => "category" \in DOMAIN j /\ j.category # "social") BY <1>2, <2>1
 <2> HIDE DEF j
 <2>3. \A tokens, at : \A k : k = [j EXCEPT !.tokens = tokens, !.at = at] => Goes(k, j) /\ k.at = at
   BY <2>2 DEF Goes, Basic
 <2>4. \A tokens, at : at \in {"end", "prune"} => Wary([j EXCEPT !.tokens = tokens, !.at = at])
  <3> SUFFICES ASSUME NEW tokens, NEW at \in {"end", "prune"}, NEW k, k = [j EXCEPT !.tokens = tokens, !.at = at]
               PROVE  Wary(k)
    BY Zenon
  <3>1. Goes(k, j) /\ k.at = at BY <2>3, Zenon
  <3> QED BY <1>3, <2>2, <3>1
 <2>5. CASE Push(h)
  <3>1. PICK invalid : Become(h, [j EXCEPT !.tokens = invalid, !.at = IF invalid = {} THEN "end" ELSE "prune"])
    BY <2>5, Zenon DEF Push, j
  <3>2. Wary([j EXCEPT !.tokens = invalid, !.at = IF invalid = {} THEN "end" ELSE "prune"])
   <4>1. (IF invalid = {} THEN "end" ELSE "prune") \in {"end", "prune"} OBVIOUS
   <4> QED BY <2>4, <4>1, Zenon
  <3> QED BY <1>1, <3>1, <3>2, BecomesThat
 <2>6. CASE Prune(h)
  <3>1. PICK t : Become(h, [j EXCEPT !.tokens = @ \ {t}, !.at = IF j.tokens = {t} THEN "end" ELSE "prune"])
    BY <2>6, Zenon DEF Prune, j
  <3>2. Wary([j EXCEPT !.tokens = @ \ {t}, !.at = IF j.tokens = {t} THEN "end" ELSE "prune"])
   <4>1. (IF j.tokens = {t} THEN "end" ELSE "prune") \in {"end", "prune"} OBVIOUS
   <4> QED BY <2>4, <4>1, Zenon
  <3> QED BY <1>1, <3>1, <3>2, BecomesThat
 <2> QED BY <1>7, <2>5, <2>6
<1>8. CASE MarkRead(h)
 <2>1. Become(h, [j EXCEPT !.at = "end"]) /\ j.at = "mark" BY <1>8 DEF MarkRead, Doing
 <2>2. Basic(j) BY <1>2, <2>1
 <2> HIDE DEF j
 <2>3. [j EXCEPT !.at = "end"].at = "end" BY <2>2, WaysToGo
 <2>4. j.op = "read" BY <1>8 DEF MarkRead, Doing, j
 <2>5. Wary([j EXCEPT !.at = "end"])
  <3>1. Goes([j EXCEPT !.at = "end"], j) BY <2>2, WaysToGo
  <3>2. j.op = "answer" => "category" \in DOMAIN j /\ j.category # "social" BY <2>4
  <3> QED BY <1>3, <2>2, <2>3, <3>1, <3>2
 <2> QED BY <1>1, <2>1, <2>5, BecomesThat
<1>9. CASE Once(h) BY <1>9 DEF Once
<1>10. CASE \E a, n : StartRead(h, a, n)
 <2>1. PICK a, n : Begin(h, Request("read", a, n, "mark")) BY <1>10 DEF StartRead
 <2>2. Wary(Request("read", a, n, "mark")) BY DEF Request, Wary
 <2> QED BY <1>1, <2>1, <2>2, BecomesThat
<1>11. CASE \E a, n : Redeliver(h, a, n)
 <2>1. PICK a, n, c : Begin(h, Telling(Request("redeliver", a, n, "preferences"), a, c))
   BY <1>11 DEF Redeliver
 <2>2. \A k : k = Telling(Request("redeliver", a, n, "preferences"), a, c) => Wary(k)
   BY RequestIs, TellingIs DEF Wary
 <2> QED BY <1>1, <2>1, <2>2, BecomesThat
<1>12. NoticeRequest(h) => Once(h) \/ (\E a, n : StartRead(h, a, n)) \/ (\E a, n : Redeliver(h, a, n))
  BY DEF NoticeRequest, MarkAllRead, SetPreferences, RegisterDevice, RemoveDevice
<1> QED BY <1>4, <1>5, <1>6, <1>7, <1>8, <1>9, <1>10, <1>11, <1>12 DEF NotifyStep
-----------------------------
\* A request of the chat.
LEMMA ChatWary ==
  ASSUME Inv1, NEW h \in Handlers, Wary(job[h]), ChatStep(h) \/ ChatRequest(h)
  PROVE  Wary(job'[h])
<1> DEFINE j == job[h]
<1>1. Wary(Idle) /\ DOMAIN job = Handlers BY OthersAreWary DEF Inv1, StoreTyped
<1>2. ASSUME NEW op, NEW at, Doing(h, op, at), at # "none" PROVE j.op = op /\ j.at = at /\ Basic(j) /\ Tells(j)
             /\ CarriesPair(j)
  BY <1>2, AtWork DEF Doing
<1>3. ASSUME NEW k, k.op \in {"open", "send", "seen", "deleteMessage", "reportMessage"},
             k.op = "open" => k.at \in {"privacy", "end"}, k.op = "send" => k.at \in {"allowed", "hear", "end"},
             k.at \notin {"notify", "devices", "push"}
      PROVE  Wary(k)
  BY <1>3 DEF Wary
<1>4. ASSUME NEW at, Basic(j) PROVE Goes([j EXCEPT !.at = at], j) /\ [j EXCEPT !.at = at].at = at
  BY <1>4, WaysToGo
<1>5. CASE ReadPrivacy(h)
 <2> DEFINE audience == PrivacyOf(Profile(j.to)).whoCanMessage
            at == IF audience = "nobody" THEN "end" ELSE IF audience = "friends" THEN "friends" ELSE "insert"
 <2>1. Doing(h, "open", "privacy") /\ Become(h, [j EXCEPT !.at = at]) BY <1>5 DEF ReadPrivacy
 <2>2. j.op = "open" /\ Basic(j) /\ "to" \in DOMAIN j BY <1>2, <2>1 DEF Tells, Told
 <2>3. at # "end" => Admits(j.to, j.began) BY DEF Admits, PrivacyOf
 <2>4. at \in {"end", "friends", "insert"} OBVIOUS
 <2>5. Goes([j EXCEPT !.at = at], j) /\ [j EXCEPT !.at = at].at = at BY <1>4, <2>2
 <2> HIDE DEF at, j
 <2>6. \A k : Goes(k, j) /\ k.at = at => Wary(k) BY <2>2, <2>3, <2>4 DEF Wary, Goes
 <2> QED BY <1>1, <2>1, <2>5, <2>6, BecomesThat
<1>6. CASE ReadFriendship(h)
 <2> DEFINE at == IF AreFriends(j.who, j.to) THEN "insert" ELSE "end"
 <2>1. Doing(h, "open", "friends") /\ Become(h, [j EXCEPT !.at = at]) BY <1>6 DEF ReadFriendship
 <2>2. j.op = "open" /\ Basic(j) /\ "to" \in DOMAIN j /\ j.at = "friends" BY <1>2, <2>1 DEF Tells, Told
 <2>3. Admits(j.to, j.began) BY <2>2 DEF Wary
 <2>4. at \in {"end", "insert"} OBVIOUS
 <2>5. Goes([j EXCEPT !.at = at], j) /\ [j EXCEPT !.at = at].at = at BY <1>4, <2>2
 <2> HIDE DEF at, j
 <2>6. \A k : Goes(k, j) /\ k.at = at => Wary(k) BY <2>2, <2>3, <2>4 DEF Wary, Goes
 <2> QED BY <1>1, <2>1, <2>5, <2>6, BecomesThat
<1>7. CASE OpenConversation(h) \/ ChangeMessages(h)
 <2>1. Become(h, [j EXCEPT !.at = "end"]) /\ j.at \in {"insert", "chat"}
   BY <1>7 DEF OpenConversation, ChangeMessages, Doing
 <2>2. Basic(j) /\ j.op \in {"open", "seen", "deleteMessage", "reportMessage"} BY <2>1, AtWork DEF Fits
 <2>3. Wary([j EXCEPT !.at = "end"])
  <3> HIDE DEF j
  <3>1. Goes([j EXCEPT !.at = "end"], j) /\ [j EXCEPT !.at = "end"].at = "end" BY <2>2, WaysToGo
  <3>2. \A k : Goes(k, j) /\ k.at = "end" => Wary(k) BY <1>3, <2>2 DEF Goes
  <3> QED BY <3>1, <3>2
 <2> QED BY <1>1, <2>1, <2>3, BecomesThat
<1>8. CASE CheckAllowed(h)
 <2> DEFINE at == IF Allowed(j.who, j.to) THEN "presence" ELSE "end"
 <2>1. Doing(h, "send", "allowed") /\ Become(h, [j EXCEPT !.at = at]) BY <1>8 DEF CheckAllowed
 <2>2. j.op = "send" /\ Basic(j) /\ j.key = {j.who, j.to} BY <1>2, <2>1 DEF CarriesPair
 <2>3. at = "presence" => Unblocked(j.key, j.began) BY <2>2, AllowedIs
 <2>4. at \in {"end", "presence"} OBVIOUS
 <2>5. Goes([j EXCEPT !.at = at], j) /\ [j EXCEPT !.at = at].at = at BY <1>4, <2>2
 <2> HIDE DEF at, j
 <2>6. \A k : Goes(k, j) /\ k.at = at => Wary(k) BY <2>2, <2>3, <2>4 DEF Wary, Goes
 <2> QED BY <1>1, <2>1, <2>5, <2>6, BecomesThat
<1>9. CASE ReadPresence(h)
 <2>1. Doing(h, "send", "presence") /\ \E status : Become(h, Merge(j, [at |-> "post", status |-> status]))
   BY <1>9, Zenon DEF ReadPresence
 <2>2. PICK status : Become(h, Merge(j, [at |-> "post", status |-> status])) BY <2>1
 <2>3. j.op = "send" /\ Basic(j) /\ j.at = "presence" BY <1>2, <2>1
 <2>4. Unblocked(j.key, j.began) BY <2>3 DEF Wary
 <2> HIDE DEF j
 <2> DEFINE k == Merge(j, [at |-> "post", status |-> status])
 <2>5. k.op = j.op /\ k.key = j.key /\ k.began = j.began /\ k.at = "post" BY <2>3 DEF Merge, Basic
 <2> HIDE DEF k
 <2>6. Wary(k) BY <2>3, <2>4, <2>5 DEF Wary
 <2> QED BY <1>1, <2>2, <2>6, BecomesThat DEF k
<1>10. CASE PostMessage(h)
 <2>1. Doing(h, "send", "post") /\ Become(h, [j EXCEPT !.at = "hear"]) BY <1>10 DEF PostMessage
 <2>2. j.op = "send" /\ Basic(j) BY <1>2, <2>1
 <2>3. Goes([j EXCEPT !.at = "hear"], j) /\ [j EXCEPT !.at = "hear"].at = "hear" BY <1>4, <2>2
 <2> HIDE DEF j
 <2>4. \A k : Goes(k, j) /\ k.at = "hear" => Wary(k) BY <1>3, <2>2 DEF Goes
 <2> QED BY <1>1, <2>1, <2>3, <2>4, BecomesThat
<1>11. CASE ChatRequest(h)
 <2>1. ASSUME NEW a, NEW b, StartOpen(h, a, b) PROVE Wary(job'[h])
  <3>1. Begin(h, Telling(Request("open", a, {a, b}, "privacy"), b, "social")) BY <2>1 DEF StartOpen
  <3>2. \A k : k = Telling(Request("open", a, {a, b}, "privacy"), b, "social") => Wary(k)
    BY <1>3, RequestIs, TellingIs
  <3> QED BY <1>1, <3>1, <3>2, BecomesThat
 <2>2. ASSUME NEW a, NEW c, StartSend(h, a, c) PROVE Wary(job'[h])
  <3>1. PICK to : Begin(h, Telling(Request("send", a, c, "allowed"), to, "social")) BY <2>2 DEF StartSend
  <3>2. \A k : k = Telling(Request("send", a, c, "allowed"), to, "social") => Wary(k)
    BY <1>3, RequestIs, TellingIs
  <3> QED BY <1>1, <3>1, <3>2, BecomesThat
 <2>3. ASSUME NEW a, StartOnChat(h, a) PROVE Wary(job'[h])
  <3>1. PICK op, key : op \in {"seen", "deleteMessage", "reportMessage"} /\ Begin(h, Request(op, a, key, "chat"))
   <4>1. CASE \E c \in Pairs : Begin(h, Request("seen", a, c, "chat")) BY <4>1
   <4>2. CASE \E n \in 1..Len(messages) :
                Begin(h, Request(IF messages[n].by = a THEN "deleteMessage" ELSE "reportMessage", a, n, "chat"))
    <5>1. PICK n : Begin(h, Request(IF messages[n].by = a THEN "deleteMessage" ELSE "reportMessage", a, n,
            "chat"))
      BY <4>2
    <5> QED BY <5>1
   <4> QED BY <2>3, <4>1, <4>2 DEF StartOnChat
  <3>2. \A k : k = Request(op, a, key, "chat") => Wary(k)
   <4>1. Request(op, a, key, "chat").op = op /\ Request(op, a, key, "chat").at = "chat" BY RequestIs
   <4> QED BY <1>3, <3>1, <4>1
  <3> QED BY <1>1, <3>1, <3>2, BecomesThat
 <2>4. ASSUME NEW a, NEW here, SetPresence(h, a, here) PROVE Wary(job'[h]) BY <2>4 DEF SetPresence, Once
 <2> QED BY <1>11, <2>1, <2>2, <2>3, <2>4 DEF ChatRequest
<1> QED BY <1>5, <1>6, <1>7, <1>8, <1>9, <1>10, <1>11 DEF ChatStep

\* A request that is about a room.
LEMMA RoomWary ==
  ASSUME Inv1, NEW h \in Handlers, Wary(job[h]), NEW value, Acts(h, RoomOps),
         \/ RoomStep(h) \/ RoomRequest(h) \/ SeatRequest(h) \/ Setting(h, value)
         \/ \E a \in Accounts : StartJoin(h, a) \/ MoveRequest(h, a)
  PROVE  Wary(job'[h])
<1> DEFINE j == job[h]
<1>1. Wary(Idle) /\ DOMAIN job = Handlers BY OthersAreWary DEF Inv1, StoreTyped
<1>2. RoomOps \cap Hearing = {"answer"} BY DEF RoomOps, Hearing
<1>3. job'[h].op # "answer" => Wary(job'[h]) BY <1>1, <1>2, OthersAreWary DEF Acts, Turned
<1>4. CASE RoomStep(h)
 <2>1. j.at \in {"banned", "member", "capacity", "evict", "log"}
   BY <1>4, Zenon DEF RoomStep, CheckBan, FindMember, CountMembers, Evict, WriteLog, Doing
 <2>2. Basic(j) /\ j.op # "answer" BY <2>1, AtWork DEF Fits
 <2>3. \E k : Become(h, k) /\ ((\E at : k = [j EXCEPT !.at = at]) \/ (\E r, at : k = Adding(j, r, at))
                              \/ (\E todo, at : k = Updating(j, todo, at)))
  <3>1. CASE CheckBan(h) BY <3>1 DEF CheckBan
  <3>2. CASE FindMember(h) BY <3>2 DEF FindMember
  <3>3. CASE CountMembers(h) BY <3>3 DEF CountMembers
  <3>4. CASE Evict(h) BY <3>4 DEF Evict
  <3>5. CASE WriteLog(h) BY <3>5 DEF WriteLog
  <3> QED BY <1>4, <3>1, <3>2, <3>3, <3>4, <3>5 DEF RoomStep
 <2>4. PICK k : Become(h, k) /\ ((\E at : k = [j EXCEPT !.at = at]) \/ (\E r, at : k = Adding(j, r, at))
                              \/ (\E todo, at : k = Updating(j, todo, at)))
   BY <2>3
 <2> HIDE DEF j
 <2>5. Goes(k, j) BY <2>2, <2>4, WaysToGo
 <2>6. job'[h] = Idle \/ job'[h].op # "answer" BY <2>2, <2>4, <2>5, BecomesThat DEF Goes
 <2> QED BY <1>1, <1>3, <2>6
<1>5. ASSUME NEW i, NEW status, AnswerSeat(h, i, status) PROVE Wary(job'[h])
 <2> DEFINE q == Telling(Request("answer", RoomOwner, records[i].who, "update"), records[i].who, "room")
            todo == {Update(i, [status |-> status])}
 <2>1. Begin(h, Updating(q, todo, "notify")) /\ todo # {} BY <1>5 DEF AnswerSeat, ByOwner
 <2>2. Basic(q) /\ q.op = "answer" /\ "category" \in DOMAIN q /\ q.category = "room" BY RequestIs, TellingIs
 <2> HIDE DEF q, todo
 <2>3. Goes(Updating(q, todo, "notify"), q) /\ Updating(q, todo, "notify").at = "update"
   BY <2>1, <2>2, WaysToGo
 <2>4. Wary(Updating(q, todo, "notify")) BY <2>2, <2>3 DEF Wary, Goes
 <2> QED BY <1>1, <2>1, <2>4, BecomesThat
<1>6. ASSUME NEW k, Begin(h, k), k.op # "answer" PROVE Wary(job'[h]) BY <1>1, <1>3, <1>6, BecomesThat
<1>7. ASSUME NEW op, NEW a, NEW i, NEW patch, NEW then, Begin(h, ByOwner(op, a, i, patch, then)), op # "answer"
      PROVE  Wary(job'[h])
 <2>1. ByOwner(op, a, i, patch, then).op = op BY DEF ByOwner, Updating, Telling, Request, Merge
 <2> QED BY <1>6, <1>7, <2>1
<1>8. ASSUME NEW op, NEW who, NEW key, NEW to, NEW at, NEW r, NEW then,
             Begin(h, Adding(Telling(Request(op, who, key, at), to, "room"), r, then)), op # "answer"
      PROVE  Wary(job'[h])
 <2>1. Adding(Telling(Request(op, who, key, at), to, "room"), r, then).op = op
   BY DEF Adding, Telling, Request, Merge
 <2> QED BY <1>6, <1>8, <2>1
<1>9. ASSUME NEW op, NEW who, NEW key, NEW at, NEW todo, NEW r, NEW then, op # "answer",
             Begin(h, Request(op, who, key, at)) \/ Begin(h, Updating(Request(op, who, key, at), todo, then))
             \/ Begin(h, Adding(Request(op, who, key, at), r, then))
      PROVE  Wary(job'[h])
 <2>1. Request(op, who, key, at).op = op /\ Updating(Request(op, who, key, at), todo, then).op = op
       /\ Adding(Request(op, who, key, at), r, then).op = op
   BY DEF Updating, Adding, Request, Merge
 <2> QED BY <1>6, <1>9, <2>1
<1>10. ASSUME NEW a, StartJoin(h, a) \/ MoveRequest(h, a) PROVE Wary(job'[h])
  BY <1>9, <1>10 DEF StartJoin, MoveRequest, StartMove
<1>11. CASE RoomRequest(h) BY <1>7, <1>8, <1>10, <1>11 DEF RoomRequest, Kick, StartBan, Unban
<1>12. CASE Setting(h, value) BY <1>7, <1>12 DEF Setting
<1>13. CASE SeatRequest(h)
  BY <1>5, <1>7, <1>9, <1>13 DEF SeatRequest, RequestSeat, MuteMember, MuteSeat, Setting
<1> QED BY <1>4, <1>10, <1>11, <1>12, <1>13
-----------------------------
\* What a handler does that others may hear of, or that is about a room.
Mingles(h) ==
  \/ SocialStep(h) \/ SocialRequest(h) \/ MuteRequest(h)
  \/ \E a, b \in Accounts : StartRelation(h, "follow", a, b) \/ Bar(h, "block", a, b)
                               \/ Lift(h, "block", a, b)
  \/ \E a, b : Lift(h, "follow", a, b)
  \/ \E a \in Accounts, i \in Rows : Answer(h, a, i, "accepted")
\* A step of the notifications, of the chat, of a room, or of what shares nothing with these.
Notifies(h) == NotifyStep(h) \/ MarkRead(h) \/ NoticeRequest(h)
Chats(h) == ChatStep(h) \/ ChatRequest(h)
Hosts(h) ==
  \/ RoomStep(h) \/ RoomRequest(h) \/ SeatRequest(h)
  \/ \E value : Setting(h, value)
  \/ \E a \in Accounts : StartJoin(h, a) \/ MoveRequest(h, a)
OwnOps == PrivacyOps \cup BreakoutOps \cup MusicOps \cup SupportOps \cup ViewOps \cup SessionOps \cup AdminOps

\* What a handler does that nobody hears of.
Owns(h) ==
  \/ SaveProfile(h) \/ PrivacyRequest(h) \/ VisibilityRequest(h)
  \/ BreakoutStep(h) \/ BreakoutRequest(h)
  \/ MusicStep(h) \/ MusicRequest(h)
  \/ SupportStep(h) \/ SupportRequest(h)
  \/ Acts(h, ViewOps \cup SessionOps \cup AdminOps)

\* Whatever happens is one of these.
LEMMA StepKinds ==
  ASSUME Inv1, [PlatformNext]_platformVars
  PROVE  \/ \E h \in Handlers : Mingles(h) /\ UNCHANGED <<noticeVars, chatVars>>
         \/ \E h \in Handlers : Notifies(h) /\ UNCHANGED chatVars
         \/ \E h \in Handlers : Chats(h) /\ UNCHANGED noticeVars
         \/ \E h \in Handlers : Hosts(h) /\ Acts(h, RoomOps) /\ UNCHANGED <<noticeVars, chatVars>>
         \/ \E h \in Handlers : Owns(h) /\ Acts(h, OwnOps) /\ UNCHANGED <<noticeVars, chatVars>>
         \/ \E h \in Handlers : (StoreStep(h) \/ CutOff(h)) /\ UNCHANGED <<noticeVars, chatVars>>
         \/ UNCHANGED <<storeVars, noticeVars, conversations, messages>>
<1>1. StoreTyped /\ JobsTyped /\ ChatTyped BY DEF Inv1
<1>2. ASSUME NEW h \in Handlers, NEW S, S \subseteq OwnOps, Acts(h, S) PROVE Acts(h, OwnOps)
  BY <1>2, MoreActs
<1>21. ASSUME NEW h \in Handlers, NEW S, S \subseteq ViewOps \cup SessionOps \cup AdminOps, Acts(h, S) PROVE Owns(h)
  BY <1>21, MoreActs DEF Owns
<1>3. /\ PrivacyOps \subseteq OwnOps /\ BreakoutOps \subseteq OwnOps /\ MusicOps \subseteq OwnOps
      /\ SupportOps \subseteq OwnOps /\ ViewOps \subseteq OwnOps /\ SessionOps \subseteq OwnOps
           /\ AdminOps \subseteq OwnOps
  BY DEF OwnOps
<1>4. serving \in InRooms => Len(records) > 0 /\ records[1].kind = "room" BY <1>1 DEF StoreTyped
<1>5. CASE Notices BY <1>5 DEF Notices, Notifies
<1>6. CASE Socializing BY <1>6 DEF Socializing, Mingles
<1>7. CASE Chatting BY <1>7 DEF Chatting, Chats, PresenceExpires
<1>8. CASE KeepingAway
 <2>1. PICK h \in Handlers :
         \/ SaveProfile(h) \/ PrivacyRequest(h)
         \/ \E a, b \in Accounts : Bar(h, "block", a, b) \/ Lift(h, "block", a, b)
   BY <1>8 DEF KeepingAway
 <2>2. (Owns(h) /\ Acts(h, OwnOps)) \/ Mingles(h) BY <1>1, <1>2, <1>3, <2>1, PrivacyActs DEF Mingles, Owns
 <2> QED BY <1>8, <2>2 DEF KeepingAway
<1>9. CASE Rooming
 <2>1. PICK h \in Handlers : RoomStep(h) \/ RoomRequest(h) \/ (Takes(h, "seats") /\ SeatRequest(h))
   BY <1>9 DEF Rooming
 <2>2. Takes(h, "seats") => Len(records) > 0 /\ records[1].kind = "room" BY <1>4 DEF Takes, InRooms
 <2>3. Acts(h, RoomOps) BY <1>1, <2>1, <2>2, RoomActs
 <2> QED BY <1>9, <2>1, <2>3 DEF Rooming, Hosts
<1>10. CASE BreakingOut BY <1>1, <1>2, <1>3, <1>10, BreakoutActs DEF BreakingOut, Owns
<1>11. CASE PlayingMusic BY <1>1, <1>2, <1>3, <1>11, MusicActs DEF PlayingMusic, Owns
<1>12. CASE Supporting BY <1>1, <1>2, <1>3, <1>12, SupportActs DEF Supporting, Owns
<1>13. CASE LoggingIn BY <1>1, <1>2, <1>3, <1>13, <1>21, SessionsAct DEF LoggingIn
<1>14. CASE Viewing BY <1>1, <1>2, <1>3, <1>14, <1>21, ViewsAct DEF Viewing
<1>15. CASE Hiding
 <2>1. PICK h \in Handlers :
         \/ VisibilityRequest(h)
         \/ \E a, b \in Accounts : Bar(h, "block", a, b) \/ Lift(h, "block", a, b)
         \/ \E a \in Accounts, i \in Rows : Answer(h, a, i, "accepted")
   BY <1>15 DEF Hiding, Rows
 <2>2. (Owns(h) /\ Acts(h, OwnOps)) \/ Mingles(h) BY <1>1, <1>2, <1>3, <2>1, PrivacyActs DEF Mingles, Owns
 <2> QED BY <1>15, <2>2 DEF Hiding
<1>16. CASE Administering
 <2>1. \E h \in Handlers : Acts(h, AdminOps) BY <1>16, StaffSteps
 <2> QED BY <1>2, <1>3, <1>16, <1>21, <2>1 DEF Administering
<1>17. CASE Happening
 <2>1. PICK h \in Handlers :
         Takes(h, "home") /\ (Setting(h, "private") \/ \E a \in Accounts : MoveRequest(h, a) \/ Lift(h, "follow",
           a, RoomOwner))
   BY <1>17 DEF Happening
 <2>2. Len(records) > 0 /\ records[1].kind = "room" BY <1>4, <2>1 DEF Takes, InRooms
 <2>3. (Hosts(h) /\ Acts(h, RoomOps)) \/ Mingles(h) BY <1>1, <2>1, <2>2, RoomActs DEF Hosts, Mingles
 <2> QED BY <1>17, <2>3 DEF Happening
<1>18. CASE Staying
 <2>1. PICK h \in Handlers :
         Takes(h, "closing") /\ ((\E a \in Accounts : StartJoin(h, a)) \/ \E value \in RoomSettings : Setting(h,
           value))
   BY <1>18 DEF Staying
 <2>2. Len(records) > 0 /\ records[1].kind = "room" BY <1>4, <2>1 DEF Takes, InRooms
 <2>3. Hosts(h) /\ Acts(h, RoomOps) BY <1>1, <2>1, <2>2, RoomActs DEF Hosts
 <2> QED BY <1>18, <2>3 DEF Staying
<1>19. CASE Records BY <1>19 DEF Records
<1>20. CASE UNCHANGED platformVars BY <1>20 DEF platformVars, chatVars
<1> QED BY <1>5, <1>6, <1>7, <1>8, <1>9, <1>10, <1>11, <1>12, <1>13, <1>14, <1>15, <1>16, <1>17, <1>18, <1>19,
<1>20 DEF PlatformNext
-----------------------------
\* Preferences are set by a request about them.
LEMMA PreferencesKeep ==
  ASSUME Inv1, PreferencesTyped, [PlatformNext]_platformVars
  PROVE  PreferencesTyped' /\ PreferencesMove
<1>1. writes \in Nat /\ writes' \in {writes, writes + 1} BY CountsGrow
<1>2. CASE UNCHANGED <<muted, mutedAt>>
 <2>1. \A n \in 0..writes : n \in 0..writes' BY <1>1
 <2> QED BY <1>2, <2>1 DEF PreferencesTyped, PreferencesMove
<1>3. CASE \E h \in Handlers : \E a \in Accounts : \E categories : SetPreferences(h, a, categories)
 <2>1. PICK a \in Accounts : \E categories :
         /\ muted' = [muted EXCEPT ![a] = categories \cap Muteable]
         /\ writes' = writes + 1
         /\ mutedAt' = [mutedAt EXCEPT ![a] = writes + 1]
   BY <1>3 DEF SetPreferences
 <2>10. PICK categories :
         /\ muted' = [muted EXCEPT ![a] = categories \cap Muteable]
         /\ writes' = writes + 1
         /\ mutedAt' = [mutedAt EXCEPT ![a] = writes + 1]
   BY <2>1
 <2>2. \A n \in 0..writes : n \in 0..writes' BY <1>1
 <2>3. writes + 1 \in 0..writes' /\ writes + 1 > writes BY <1>1, <2>10
 <2>4. ASSUME NEW b \in Accounts
       PROVE  /\ muted'[b] \subseteq Muteable /\ mutedAt'[b] \in 0..writes'
              /\ (muted'[b] = muted[b] /\ mutedAt'[b] = mutedAt[b]) \/ mutedAt'[b] > writes
  <3>1. CASE b = a BY <2>10, <2>3, <3>1 DEF PreferencesTyped
  <3>2. CASE b # a BY <2>10, <2>2, <3>2 DEF PreferencesTyped
  <3> QED BY <3>1, <3>2
 <2> QED BY <2>10, <2>4 DEF PreferencesTyped, PreferencesMove
<1>4. Notices => \/ UNCHANGED <<muted, mutedAt>>
                 \/ \E h \in Handlers : \E a \in Accounts : \E categories : SetPreferences(h, a, categories)
 <2> SUFFICES ASSUME NEW h \in Handlers, NotifyStep(h) \/ MarkRead(h) \/ NoticeRequest(h)
              PROVE  \/ UNCHANGED <<muted, mutedAt>>
                     \/ \E a \in Accounts : \E categories : SetPreferences(h, a, categories)
   BY DEF Notices
 <2>1. CASE NotifyStep(h) \/ MarkRead(h)
   BY <2>1, Zenon DEF NotifyStep, CreateNotification, ReadPreferences, ListDevices, Push, Prune, MarkRead,
      noticeVars
 <2>2. CASE NoticeRequest(h)
   BY <2>2 DEF NoticeRequest, MarkAllRead, StartRead, Redeliver, RegisterDevice, RemoveDevice, noticeVars
 <2> QED BY <2>1, <2>2
<1> QED BY <1>2, <1>3, <1>4, NoticeCases DEF noticeVars

\* All requests are wary, and preferences are what they should be.
WaryInv == PreferencesTyped /\ \A h \in Handlers : Wary(job[h])

\* Updates are not what one has to be wary of.
LEMMA MendsAlone ==
  ASSUME NEW op, NEW kind, NEW patch, NEW then, Mends(op, kind, patch, then)
  PROVE  /\ op \notin {"follow", "friend", "send", "open"}
         /\ then = "notify" => op = "answer"
         /\ then \notin {"devices", "push"}
  BY DEF Mends, Reached, Transitions

\* A record that is added, read or written leaves little to be wary of.
LEMMA StoreWary ==
  ASSUME Inv1, NEW h \in Handlers, Wary(job[h]), StoreStep(h), serving' = serving
  PROVE  Wary(job[h])'
<1> DEFINE j == job[h]
<1>1. StoreTyped /\ JobsTyped /\ DOMAIN job = Handlers BY DEF Inv1, StoreTyped
<1>2. \A k : k = Idle => Wary(k)' BY DEF Wary, Idle
<1>3. CASE AddRow(h)
 <2>1. j.at = "add" /\ Onward(h, Merge(j, [made |-> Len(records) + 1]), j.then) BY <1>3 DEF AddRow
 <2>2. NewRow(j, j.new, j.then) /\ Basic(j) BY <2>1, AtWork DEF Typed
 <2>3. j.then \notin {"notify", "devices", "push", "find", "add"} /\ j.op \notin {"send", "open", "answer"}
   BY <2>2 DEF NewRow, Players, Controls
 <2>4. job'[h] = IF j.then = "end" THEN Idle ELSE [Merge(j, [made |-> Len(records) + 1]) EXCEPT !.at = j.then]
   BY <1>1, <2>1 DEF Onward
 <2> HIDE DEF j
 <2>5. \A k : k = [Merge(j, [made |-> Len(records) + 1]) EXCEPT !.at = j.then] => k.op = j.op /\ k.at = j.then
   BY <2>2 DEF Merge, Basic
 <2>6. \A k : k.op = j.op /\ k.at = j.then => Wary(k)' BY <2>3 DEF Wary
 <2> QED BY <1>2, <2>4, <2>5, <2>6
<1>4. CASE ReadRow(h)
 <2>1. j.at = "update" BY <1>4 DEF ReadRow
 <2>2. \E todo, read : job' = [job EXCEPT ![h].todo = todo, ![h].read = read] BY <1>4, Zenon DEF ReadRow
 <2>3. Typed(j) /\ Basic(j) /\ Tells(j) BY <2>1, AtWork
 <2>4. PICK todo, read : job' = [job EXCEPT ![h].todo = todo, ![h].read = read] BY <2>2
 <2>5. job'[h] = [j EXCEPT !.todo = todo, !.read = read] BY <1>1, <2>4
 <2>6. \E u : Mend(j, u, j.then) BY <2>1, <2>3 DEF Typed
 <2>7. j.op \notin {"follow", "friend", "send", "open"} BY <2>6, MendsAlone DEF Mend
 <2>8. j.op = "answer" => "category" \in DOMAIN j /\ j.category # "social" BY <2>3 DEF Wary, Tells, Told
 <2> HIDE DEF j
 <2>9. \A k : k = [j EXCEPT !.todo = todo, !.read = read] =>
          k.op = j.op /\ k.at = "update" /\ ("category" \in DOMAIN j => k.category = j.category)
   BY <2>1, <2>3 DEF Basic
 <2>10. \A k : k.op = j.op /\ k.at = "update" /\ ("category" \in DOMAIN j => k.category = j.category) => Wary(k)'
   BY <2>7, <2>8 DEF Wary
 <2> QED BY <2>5, <2>9, <2>10
<1>5. CASE WriteRow(h)
 <2>1. j.at = "update" BY <1>5 DEF WriteRow
 <2>2. PICK r \in j.read :
         Onward(h, [j EXCEPT !.read = @ \ {r}], IF j.todo = {} /\ j.read = {r} THEN j.then ELSE "update")
   BY <1>5, Zenon DEF WriteRow
 <2>3. Typed(j) /\ Basic(j) /\ Tells(j) BY <2>1, AtWork
 <2>4. Mend(j, r.u, j.then) BY <2>1, <2>3 DEF Typed
 <2> DEFINE next == IF j.todo = {} /\ j.read = {r} THEN j.then ELSE "update"
 <2>5. job'[h] = IF next = "end" THEN Idle ELSE [[j EXCEPT !.read = @ \ {r}] EXCEPT !.at = next]
   BY <1>1, <2>2 DEF Onward
 <2>6. next \in {j.then, "update"} OBVIOUS
 <2>7. /\ j.op \notin {"follow", "friend", "send", "open"} /\ j.then \notin {"devices", "push"}
       /\ j.then = "notify" => j.op = "answer"
   BY <2>4, MendsAlone DEF Mend
 <2>8. j.op = "answer" => "category" \in DOMAIN j /\ j.category # "social" BY <2>3 DEF Wary, Tells, Told
 <2> HIDE DEF j, next
 <2>9. \A k : k = [[j EXCEPT !.read = @ \ {r}] EXCEPT !.at = next] =>
          k.op = j.op /\ k.at = next /\ ("category" \in DOMAIN j => k.category = j.category)
   BY <2>3 DEF Basic
 <2>10. \A k : k.op = j.op /\ k.at = next /\ ("category" \in DOMAIN j => k.category = j.category) => Wary(k)'
   BY <2>6, <2>7, <2>8 DEF Wary
 <2> QED BY <1>2, <2>5, <2>9, <2>10
<1> QED BY <1>3, <1>4, <1>5 DEF StoreStep

\* Requests stay as wary as they were.
LEMMA WaryKeeps ==
  ASSUME Inv1, WaryInv, [PlatformNext]_platformVars
  PROVE  WaryInv'
<1>1. Inv1' /\ RowsKept BY Inv1Keeps
<1>2. PreferencesTyped' /\ PreferencesMove /\ RowsMove BY PreferencesKeep, RowsMoveOn DEF WaryInv
<1>3. ASSUME NEW j, Typed(j) \/ j = Idle, Wary(j) PROVE Wary(j)'
 <2>1. CASE Typed(j) BY <1>1, <1>2, <1>3, <2>1, WaryStays
 <2>2. CASE j = Idle BY <2>2 DEF Wary, Idle
 <2> QED BY <1>3, <2>1, <2>2
<1>4. \A g \in Handlers : job[g] = Idle \/ Typed(job[g]) BY DEF Inv1, JobsTyped
<1>5. \A g \in Handlers : Wary(job[g]) BY DEF WaryInv
<1>6. ASSUME NEW h \in Handlers, NEW ops, Acts(h, ops), Wary(job'[h]) PROVE \A g \in Handlers : Wary(job[g])'
 <2> SUFFICES ASSUME NEW g \in Handlers PROVE Wary(job[g])' OBVIOUS
 <2>1. job'[g] = Idle \/ Typed(job'[g]) BY <1>4, <1>6 DEF Acts, Turned
 <2>2. Wary(job'[g]) BY <1>5, <1>6 DEF Acts, Turned
 <2>3. \A j : j = job'[g] => Wary(j)' BY <1>3, <2>1, <2>2
 <2> QED BY <2>3
<1>7. ASSUME NEW h \in Handlers, \A g \in Handlers : g # h => job'[g] = job[g], Wary(job[h])'
      PROVE  \A g \in Handlers : Wary(job[g])'
 <2> SUFFICES ASSUME NEW g \in Handlers, g # h PROVE Wary(job[g])' BY <1>7
 <2>1. job'[g] = job[g] BY <1>7
 <2>2. Wary(job[g]) /\ (Typed(job[g]) \/ job[g] = Idle) BY <1>4, <1>5
 <2>3. \A j : j = job'[g] => Wary(j)' BY <1>3, <2>1, <2>2
 <2> QED BY <2>3
<1>8. CASE \E h \in Handlers : Mingles(h)
 <2>1. PICK h \in Handlers : Mingles(h) BY <1>8
 <2>2. Acts(h, SocialOps \cup {"send"}) BY <2>1, SocialActs DEF Mingles, Inv1
 <2>3. Wary(job'[h]) BY <1>5, <2>1, SocialWary DEF Mingles
 <2> QED BY <1>2, <1>6, <2>2, <2>3 DEF WaryInv
<1>9. CASE \E h \in Handlers : Notifies(h)
 <2>1. PICK h \in Handlers : Notifies(h) BY <1>9
 <2>2. Acts(h, NoticeOps) BY <2>1, NoticesAct DEF Notifies, Inv1
 <2>3. Wary(job'[h]) BY <1>5, <2>1, NoticeWary DEF Notifies, WaryInv
 <2> QED BY <1>2, <1>6, <2>2, <2>3 DEF WaryInv
<1>10. CASE \E h \in Handlers : Chats(h)
 <2>1. PICK h \in Handlers : Chats(h) BY <1>10
 <2>2. Acts(h, ChatOps) BY <2>1, ChatActs DEF Chats, Inv1
 <2>3. Wary(job'[h]) BY <1>5, <2>1, ChatWary DEF Chats
 <2> QED BY <1>2, <1>6, <2>2, <2>3 DEF WaryInv
<1>11. CASE \E h \in Handlers : Hosts(h) /\ Acts(h, RoomOps)
 <2>1. PICK h \in Handlers : Hosts(h) /\ Acts(h, RoomOps) BY <1>11
 <2>2. Wary(job'[h]) BY <1>5, <2>1, RoomWary DEF Hosts
 <2> QED BY <1>2, <1>6, <2>1, <2>2 DEF WaryInv
<1>12. CASE \E h \in Handlers : Acts(h, OwnOps)
 <2>1. PICK h \in Handlers : Acts(h, OwnOps) BY <1>12
 <2>2. OwnOps \cap Hearing = {}
   BY DEF OwnOps, PrivacyOps, BreakoutOps, MusicOps, SupportOps, ViewOps, SessionOps, AdminOps, Hearing,
      Players, Controls, Reached, Transitions, Lists, Tabs
 <2>3. Wary(job'[h])
  <3>1. CASE job'[h] \in {Idle, job[h]} BY <1>5, <3>1, OthersAreWary
  <3>2. CASE Typed(job'[h]) /\ job'[h].op \in OwnOps BY <2>2, <3>2, OthersAreWary
  <3> QED BY <2>1, <3>1, <3>2 DEF Acts, Turned
 <2> QED BY <1>2, <1>6, <2>1, <2>3 DEF WaryInv
<1>13. CASE \E h \in Handlers : StoreStep(h) \/ CutOff(h)
 <2>1. PICK h \in Handlers : StoreStep(h) \/ CutOff(h) BY <1>13
 <2>2. \A g \in Handlers : g # h => job'[g] = job[g]
  <3>1. DOMAIN job = Handlers BY DEF Inv1, StoreTyped
  <3>2. CASE AddRow(h) BY <3>1, <3>2 DEF AddRow, Onward
  <3>3. CASE ReadRow(h) BY <3>1, <3>3 DEF ReadRow
  <3>4. CASE WriteRow(h) BY <3>1, <3>4 DEF WriteRow, Onward
  <3>5. CASE CutOff(h) BY <3>1, <3>5 DEF CutOff
  <3> QED BY <2>1, <3>2, <3>3, <3>4, <3>5 DEF StoreStep
 <2>3. Wary(job[h])'
  <3>1. CASE StoreStep(h) BY <1>5, <3>1, StoreWary, StepShape
  <3>2. CASE CutOff(h)
   <4>1. job'[h] = Idle BY <3>2 DEF CutOff, Inv1, StoreTyped
   <4>2. \A k : k = Idle => Wary(k)' BY DEF Wary, Idle
   <4> QED BY <4>1, <4>2
  <3> QED BY <2>1, <3>1, <3>2
 <2> QED BY <1>2, <1>7, <2>2, <2>3 DEF WaryInv
<1>14. CASE UNCHANGED storeVars
 <2>1. \A g \in Handlers : job'[g] = job[g] BY <1>14 DEF storeVars, handlerVars
 <2>2. \A g \in Handlers : \A j : j = job'[g] => Wary(j)' BY <1>3, <1>4, <1>5, <2>1
 <2> QED BY <1>2, <2>2 DEF WaryInv
<1> QED BY <1>8, <1>9, <1>10, <1>11, <1>12, <1>13, <1>14, StepKinds
-----------------------------
(* What a request that was wary leaves behind. *)

\* Who follows, or asks to be a friend, had not been blocked when it began.
FollowsInv ==
  \A i \in Rows : records[i].kind \in {"follow", "friend"} =>
    \A s \in trace[i] : s.op \in {"follow", "friend"} => Unblocked({records[i].who, records[i].whom}, s.began)

\* Nor had who writes a message.
MessageKept(m) ==
  /\ {"in", "by", "status", "deleted", "reports", "began"} \subseteq DOMAIN m
  /\ m.began \in 0..writes /\ Unblocked(m.in, m.began)
  /\ m.in \in Pairs /\ m.by \in m.in
MessagesInv == Sequence(messages) /\ \A n \in 1..Len(messages) : MessageKept(messages[n])

\* Who opened a conversation was admitted.
OpeningsInv ==
  \A c \in Pairs : IsOpen(c) =>
    conversations[c].began \in 0..writes /\ Admits(OtherOf(c, conversations[c].opener), conversations[c].began)

\* Who was told of somebody had not muted them, and who was pushed to had not
\* muted that.
InboxInv ==
  \A n \in 1..Len(inbox) : inbox[n].category = "social" =>
    inbox[n].began \in 0..writes /\ Heeds(inbox[n].to, inbox[n].from, inbox[n].began)
\* Nor was anybody pushed what it had muted.
PushedInv ==
  \A p \in pushed : p.to \in Accounts /\ p.began \in 0..writes /\ Wants(p.to, p.category, p.began)

\* Follows and friendships go on to respect blocks.
LEMMA FollowsKeep ==
  ASSUME Inv1, WaryInv, FollowsInv, [PlatformNext]_platformVars
  PROVE  FollowsInv'
<1>1. Inv1' /\ RowsKept /\ RowsMove /\ writes \in Nat BY Inv1Keeps, RowsMoveOn, CountsGrow
<1>2. ASSUME NEW two, NEW n \in 0..writes, Unblocked(two, n) PROVE Unblocked(two, n)'
  BY <1>1, <1>2, UnblockedStays
<1>3. \A i \in Rows : \A s \in trace[i] : s.began \in 0..writes BY <1>1 DEF Inv1, StoreTyped
<1>4. ASSUME NEW i \in Rows, i \in Rows', records'[i].kind \in {"follow", "friend"},
             NEW s \in trace[i], s.op \in {"follow", "friend"}
      PROVE  Unblocked({records[i].who, records[i].whom}, s.began)'
 <2>1. SameRow(records'[i], records[i]) BY <1>1 DEF RowsKept
 <2>2. records[i].kind \in {"follow", "friend"} /\ records'[i].who = records[i].who
         /\ records'[i].whom = records[i].whom
   BY <1>4, <2>1 DEF SameRow, Relations
 <2>3. Unblocked({records[i].who, records[i].whom}, s.began) /\ s.began \in 0..writes
   BY <1>3, <1>4, <2>2 DEF FollowsInv
 <2>4. \A two : two = {records[i].who, records[i].whom} => Unblocked(two, s.began)' BY <1>2, <2>3
 <2>5. {records'[i].who, records'[i].whom} = {records[i].who, records[i].whom} BY <2>2
 <2> QED BY <2>4, <2>5
<1>5. CASE records' = records /\ trace' = trace
 <2>1. Rows' = Rows BY <1>5 DEF Rows
 <2> SUFFICES ASSUME NEW i \in Rows', records'[i].kind \in {"follow", "friend"}, NEW s \in trace'[i],
                     s.op \in {"follow", "friend"}
              PROVE  Unblocked({records[i].who, records[i].whom}, s.began)'
   BY DEF FollowsInv
 <2> QED BY <1>4, <1>5, <2>1
<1>6. CASE \E h \in Handlers : Adds1(h) \/ Writes1(h)
 <2>1. PICK h \in Handlers : Adds1(h) \/ Writes1(h) BY <1>6
 <2>2. PICK k \in Rows' :
         /\ \A i \in Rows' : i # k => i \in Rows /\ records'[i] = records[i] /\ trace'[i] = trace[i]
         /\ \A s \in trace'[k] : s = Span(h) \/ (k \in Rows /\ s \in trace[k])
         /\ \/ k \notin Rows /\ job[h].at = "add" /\ records'[k] = job[h].new
            \/ /\ k \in Rows /\ job[h].at = "update"
               /\ \E r \in job[h].read : r.u.id = k /\ Mend(job[h], r.u, job[h].then)
   BY <1>1, <2>1, RowsAfter
 <2> SUFFICES ASSUME NEW i \in Rows', records'[i].kind \in {"follow", "friend"}, NEW s \in trace'[i],
                     s.op \in {"follow", "friend"}
              PROVE  Unblocked({records[i].who, records[i].whom}, s.began)'
   BY DEF FollowsInv
 <2>3. CASE i \in Rows /\ s \in trace[i] BY <1>4, <2>3
 <2>4. CASE i = k /\ s = Span(h)
  <3>1. s.op = job[h].op /\ s.began = job[h].began BY <2>4 DEF Span
  <3>2. job[h].op \in {"follow", "friend"} BY <3>1
  <3>3. job[h].at = "add" /\ records'[k] = job[h].new BY <2>2, <3>2, MendsAlone DEF Mend
  <3>4. NewRow(job[h], job[h].new, job[h].then) /\ job[h].began \in 0..writes
    BY <1>1, <3>3, AtWork DEF Typed
  <3>5. records'[k].who = job[h].who /\ records'[k].whom = job[h].to
    BY <3>2, <3>3, <3>4 DEF NewRow, Relation, Reached, Transitions, Players, Controls
  <3>6. Unblocked({job[h].who, job[h].to}, job[h].began) BY <3>2, <3>3 DEF WaryInv, Wary
  <3>7. \A two : two = {job[h].who, job[h].to} => Unblocked(two, s.began)' BY <1>2, <3>1, <3>4, <3>6
  <3>8. {records'[i].who, records'[i].whom} = {job[h].who, job[h].to} BY <2>4, <3>5
  <3> QED BY <3>7, <3>8
 <2> QED BY <2>2, <2>3, <2>4
<1> QED BY <1>5, <1>6, RowSteps
-----------------------------
\* What happens to messages: some are added, none is lost.
Told1(m) == [in |-> m.in, by |-> m.by, began |-> m.began]
\* No message is lost, nor changes where and by whom it was written.
MessagesKept == \A n \in 1..Len(messages) : n \in 1..Len(messages') /\ Told1(messages'[n]) = Told1(messages[n])

\* What a step of the chat does to messages and conversations.
LEMMA ChatCases ==
  ASSUME NEW h, Chats(h)
  PROVE  UNCHANGED <<messages, conversations>> \/ PostMessage(h) \/ ChangeMessages(h) \/ OpenConversation(h)
<1>1. CASE ChatStep(h)
  BY <1>1, Zenon DEF ChatStep, ReadPrivacy, ReadFriendship, CheckAllowed, ReadPresence, chatVars
<1>2. CASE ChatRequest(h)
  BY <1>2, Zenon DEF ChatRequest, StartOpen, StartSend, StartOnChat, SetPresence, chatVars
<1> QED BY <1>1, <1>2 DEF Chats

\* Messages are marked as read or deleted, or reported.
LEMMA MessagesChange ==
  ASSUME Inv1, MessagesInv, NEW h \in Handlers, ChangeMessages(h)
  PROVE  /\ Sequence(messages') /\ Len(messages') = Len(messages)
         /\ \A n \in 1..Len(messages) : /\ DOMAIN messages'[n] = DOMAIN messages[n]
                                        /\ Told1(messages'[n]) = Told1(messages[n])
<1> DEFINE j == job[h]
<1>1. j.at = "chat" BY DEF ChangeMessages
<1>2. j.op \in {"seen", "deleteMessage", "reportMessage"} BY <1>1, AtWork DEF Fits
<1>3. /\ Sequence(messages) /\ Len(messages) \in Nat /\ DOMAIN messages = 1..Len(messages)
      /\ \A n \in 1..Len(messages) : {"in", "by", "status", "deleted", "reports",
           "began"} \subseteq DOMAIN messages[n]
  BY SequencePlaces DEF MessagesInv, MessageKept
<1>4. CASE j.op = "seen"
 <2>1. messages' = [n \in 1..Len(messages) |->
                IF messages[n].in = j.key /\ messages[n].by # j.who
                THEN [messages[n] EXCEPT !.status = "read"] ELSE messages[n]]
   BY <1>4 DEF ChangeMessages
 <2>2. Sequence(messages') /\ Len(messages') = Len(messages)
  <3>1. DOMAIN messages' = 1..Len(messages) /\ messages' = [n \in 1..Len(messages) |-> messages'[n]] BY <2>1
  <3> QED BY <1>3, <3>1, SequenceOf
 <2>3. \A n \in 1..Len(messages) : messages'[n] \in {messages[n], [messages[n] EXCEPT !.status = "read"]}
   BY <2>1
 <2> QED BY <1>3, <2>2, <2>3 DEF Told1
<1>5. CASE j.op = "deleteMessage"
 <2> DEFINE k == j.key
            x == [messages[k] EXCEPT !.deleted = TRUE]
 <2>1. messages' = [messages EXCEPT ![k] = x] BY <1>5 DEF ChangeMessages
 <2>2. \A n \in 1..Len(messages) : messages'[n] \in {messages[n], [messages[n] EXCEPT !.deleted = TRUE]}
  <3>1. \A n \in 1..Len(messages) : messages'[n] = IF n = k THEN x ELSE messages[n] BY <1>3, <2>1
  <3> QED BY <3>1, Zenon
 <2> HIDE DEF k, x
 <2>3. Sequence(messages') /\ Len(messages') = Len(messages)
  <3>1. Sequence([messages EXCEPT ![k] = x]) /\ Len([messages EXCEPT ![k] = x]) = Len(messages)
    BY <1>3, SequenceExcept
  <3> QED BY <2>1, <3>1
 <2> QED BY <1>3, <2>2, <2>3 DEF Told1
<1>6. CASE j.op = "reportMessage"
 <2> DEFINE k == j.key
            y == messages[k].reports + 1
            x == [messages[k] EXCEPT !.reports = y]
 <2>1. messages' = [messages EXCEPT ![k] = x] BY <1>6 DEF ChangeMessages
 <2> HIDE DEF y
 <2>2. \A n \in 1..Len(messages) : messages'[n] \in {messages[n], [messages[n] EXCEPT !.reports = y]}
  <3>1. \A n \in 1..Len(messages) : messages'[n] = IF n = k THEN x ELSE messages[n] BY <1>3, <2>1
  <3> QED BY <3>1, Zenon
 <2> HIDE DEF k, x
 <2>3. Sequence(messages') /\ Len(messages') = Len(messages)
  <3>1. Sequence([messages EXCEPT ![k] = x]) /\ Len([messages EXCEPT ![k] = x]) = Len(messages)
    BY <1>3, SequenceExcept
  <3> QED BY <2>1, <3>1
 <2> QED BY <1>3, <2>2, <2>3 DEF Told1
<1> QED BY <1>2, <1>4, <1>5, <1>6

\* What is known of a message stays so.
LEMMA MessageStays ==
  ASSUME Inv1, [PlatformNext]_platformVars, NEW m, MessageKept(m), NEW w, DOMAIN w = DOMAIN m, Told1(w) = Told1(m)
  PROVE  MessageKept(w)'
<1>1. Inv1' /\ RowsMove /\ writes \in Nat /\ writes' \in {writes, writes + 1}
  BY Inv1Keeps, RowsMoveOn, CountsGrow
<1>2. w.in = m.in /\ w.by = m.by /\ w.began = m.began BY DEF Told1
<1>3. Unblocked(w.in, w.began) /\ w.began \in 0..writes BY <1>2 DEF MessageKept
<1>4. Unblocked(w.in, w.began)' BY <1>1, <1>3, UnblockedStays
<1>5. w.began \in 0..writes' BY <1>1, <1>3
<1> QED BY <1>2, <1>4, <1>5 DEF MessageKept, Pairs

\* Messages go on to respect blocks, and none is lost.
LEMMA MessagesKeep ==
  ASSUME Inv1, WaryInv, MessagesInv, [PlatformNext]_platformVars
  PROVE  MessagesInv' /\ MessagesKept
<1>1. \A m : MessageKept(m) => MessageKept(m)' BY MessageStays
<1>2. Sequence(messages) /\ Len(messages) \in Nat /\ \A n \in 1..Len(messages) : MessageKept(messages[n])
  BY SequencePlaces DEF MessagesInv
<1>3. CASE UNCHANGED messages
 <2>1. \A n \in 1..Len(messages') : MessageKept(messages[n])' BY <1>1, <1>2, <1>3
 <2> QED BY <1>2, <1>3, <2>1 DEF MessagesInv, MessagesKept
<1>4. ASSUME NEW h \in Handlers, ChangeMessages(h) PROVE MessagesInv' /\ MessagesKept
 <2>1. /\ Sequence(messages') /\ Len(messages') = Len(messages)
       /\ \A n \in 1..Len(messages) : DOMAIN messages'[n] = DOMAIN messages[n]
            /\ Told1(messages'[n]) = Told1(messages[n])
   BY <1>4, MessagesChange
 <2>2. ASSUME NEW n \in 1..Len(messages') PROVE MessageKept(messages[n])'
  <3>1. DOMAIN messages'[n] = DOMAIN messages[n] /\ Told1(messages'[n]) = Told1(messages[n])
          /\ MessageKept(messages[n])
    BY <1>2, <2>1
  <3>2. \A w : w = messages'[n] => MessageKept(w)' BY <3>1, MessageStays
  <3> QED BY <3>2
 <2> QED BY <2>1, <2>2 DEF MessagesInv, MessagesKept
<1>5. ASSUME NEW h \in Handlers, PostMessage(h) PROVE MessagesInv' /\ MessagesKept
 <2> DEFINE j == job[h]
            m == [in |-> j.key, by |-> j.who, status |-> j.status, deleted |-> FALSE, reports |-> 0,
              began |-> j.began]
 <2>1. messages' = Append(messages, m) /\ Doing(h, "send", "post") BY <1>5 DEF PostMessage
 <2>2. j.op = "send" /\ j.at = "post" /\ j.who \in Accounts /\ j.to \in Accounts /\ j.key = {j.who, j.to}
         /\ j.began \in 0..writes
  <3>1. j.op = "send" /\ j.at = "post" /\ j.began \in Nat /\ j.began <= writes /\ writes \in Nat
    BY <2>1, AtWork DEF Doing, Typed, Inv1, StoreTyped
  <3>2. Tells(j) /\ CarriesPair(j) BY <2>1, AtWork DEF Doing
  <3> QED BY <3>1, <3>2 DEF Tells, Told, CarriesPair
 <2>3. Unblocked(j.key, j.began) BY <2>2 DEF WaryInv, Wary
 <2>4. MessageKept(m) BY <2>2, <2>3 DEF MessageKept, Pairs
 <2> HIDE DEF m
 <2>5. Sequence(messages') /\ Len(messages') = Len(messages) + 1 /\ messages'[Len(messages) + 1] = m
       /\ \A n \in 1..Len(messages) : messages'[n] = messages[n]
   BY <1>2, <2>1, SequenceAppend
 <2>6. ASSUME NEW n \in 1..Len(messages') PROVE MessageKept(messages[n])'
  <3>1. messages'[n] = m \/ (n \in 1..Len(messages) /\ messages'[n] = messages[n]) BY <1>2, <2>5
  <3>2. \A w : w = messages'[n] => MessageKept(w)' BY <1>1, <1>2, <2>4, <3>1
  <3> QED BY <3>2
 <2>7. MessagesKept BY <1>2, <2>5 DEF MessagesKept
 <2> QED BY <2>5, <2>6, <2>7 DEF MessagesInv
<1>6. ASSUME NEW h \in Handlers, Chats(h) PROVE MessagesInv' /\ MessagesKept
  BY <1>3, <1>4, <1>5, <1>6, ChatCases DEF OpenConversation
<1> QED BY <1>3, <1>6, StepKinds DEF chatVars
-----------------------------
\* Conversations are opened by a request that was admitted, and stay open.
LEMMA OpeningsKeep ==
  ASSUME Inv1, WaryInv, OpeningsInv, [PlatformNext]_platformVars
  PROVE  OpeningsInv'
<1>1. Inv1' /\ RowsKept /\ RowsMove /\ writes \in Nat /\ writes' \in {writes, writes + 1}
  BY Inv1Keeps, RowsMoveOn, CountsGrow
<1>2. ASSUME NEW a, NEW n \in 0..writes, Admits(a, n) PROVE Admits(a, n)' /\ n \in 0..writes'
 <2>1. n \in 0..writes' BY <1>1
 <2> QED BY <1>1, <1>2, <2>1, AdmitsStays
<1>3. ASSUME NEW c \in Pairs, IsOpen(c), conversations'[c] = conversations[c]
      PROVE  conversations'[c].began \in 0..writes'
               /\ Admits(OtherOf(c, conversations[c].opener), conversations[c].began)'
 <2>1. conversations[c].began \in 0..writes /\ Admits(OtherOf(c, conversations[c].opener), conversations[c].began)
   BY <1>3 DEF OpeningsInv
 <2>2. \A a, n : a = OtherOf(c, conversations[c].opener) /\ n = conversations[c].began => Admits(a, n)'
         /\ n \in 0..writes'
   BY <1>2, <2>1
 <2>3. OtherOf(c, conversations'[c].opener) = OtherOf(c, conversations[c].opener)
         /\ conversations'[c].began = conversations[c].began
   BY <1>3
 <2>4. \A a, n : a = OtherOf(c, conversations'[c].opener) /\ n = conversations'[c].began => Admits(a, n)'
         /\ n \in 0..writes'
   BY <2>2, <2>3
 <2> QED BY <2>4
<1>4. Pairs' = Pairs BY DEF Pairs
<1>5. CASE UNCHANGED conversations
 <2>1. \A c \in Pairs : IsOpen(c)' => IsOpen(c) BY <1>5 DEF IsOpen, Closed
 <2> QED BY <1>3, <1>4, <1>5, <2>1 DEF OpeningsInv
<1>6. ASSUME NEW h \in Handlers, OpenConversation(h) PROVE OpeningsInv'
 <2> DEFINE j == job[h]
            d == j.key
            x == [opener |-> j.who, began |-> j.began]
 <2>1. /\ Doing(h, "open", "insert")
       /\ conversations' = IF IsOpen(d) THEN conversations ELSE [conversations EXCEPT ![d] = x]
   BY <1>6 DEF OpenConversation
 <2>2. CASE IsOpen(d) BY <1>5, <2>1, <2>2
 <2>3. CASE ~IsOpen(d)
  <3>1. j.op = "open" /\ j.at = "insert" /\ j.began \in 0..writes /\ j.who # j.to /\ d = {j.who, j.to}
        /\ j.who \in Accounts /\ j.to \in Accounts
   <4>1. j.op = "open" /\ j.at = "insert" /\ j.began \in Nat /\ j.began <= writes
     BY <2>1, AtWork DEF Doing, Typed
   <4>2. Tells(j) /\ CarriesPair(j) BY <2>1, AtWork DEF Doing
   <4> QED BY <1>1, <4>1, <4>2 DEF Tells, Told, CarriesPair
  <3>2. Admits(j.to, j.began) BY <3>1 DEF WaryInv, Wary
  <3>3. OtherOf(d, j.who) = j.to
   <4>1. \A a \in Accounts, b \in Accounts : a # b => OtherOf({a, b}, a) = b BY OtherOfPair
   <4>2. \A c : c = {j.who, j.to} => OtherOf(c, j.who) = j.to BY <3>1, <4>1
   <4> QED BY <3>1, <4>2
  <3>4. DOMAIN conversations = Pairs /\ d \in Pairs BY <3>1 DEF Inv1, ChatTyped, Pairs
  <3> DEFINE new == x
  <3>5. x.opener = j.who /\ x.began = j.began OBVIOUS
  <3> HIDE DEF x, new
  <3>6. \A c \in Pairs : conversations'[c] = IF c = d THEN x ELSE conversations[c] BY <2>1, <2>3, <3>4
  <3> SUFFICES ASSUME NEW c \in Pairs, IsOpen(c)'
               PROVE  conversations'[c].began \in 0..writes'
                        /\ Admits(OtherOf(c, conversations[c].opener), conversations[c].began)'
    BY <1>4 DEF OpeningsInv
  <3>7. CASE c = d
   <4>1. \A a, n : a = j.to /\ n = j.began => Admits(a, n)' /\ n \in 0..writes' BY <1>2, <3>1, <3>2
   <4>2. OtherOf(c, conversations'[c].opener) = j.to /\ conversations'[c].began = j.began
     BY <3>3, <3>5, <3>6, <3>7
   <4>3. \A a, n : a = OtherOf(c, conversations'[c].opener) /\ n = conversations'[c].began => Admits(a, n)'
           /\ n \in 0..writes'
     BY <4>1, <4>2
   <4> QED BY <4>3
  <3>8. CASE c # d
   <4>1. conversations'[c] = conversations[c] BY <3>6, <3>8
   <4>2. IsOpen(c) BY <4>1 DEF IsOpen, Closed
   <4> QED BY <1>3, <4>1, <4>2
  <3> QED BY <3>7, <3>8
 <2> QED BY <2>2, <2>3
<1>7. ASSUME NEW h \in Handlers, Chats(h) PROVE OpeningsInv'
  BY <1>5, <1>6, <1>7, ChatCases DEF PostMessage, ChangeMessages
<1> QED BY <1>5, <1>7, StepKinds DEF chatVars

\* What a step does to the notifications and the pushes.
LEMMA NoticeStepCases ==
  ASSUME Inv1, NoticeTyped, NEW h \in Handlers, Notifies(h)
  PROVE  \/ CreateNotification(h) /\ pushed' = pushed
         \/ Push(h) /\ inbox' = inbox
         \/ pushed' = pushed /\ Len(inbox') = Len(inbox)
<1>1. CASE CreateNotification(h) \/ Push(h) BY <1>1, Zenon DEF CreateNotification, Push
<1>2. CASE ReadPreferences(h) \/ ListDevices(h) \/ Prune(h)
  BY <1>2, Zenon DEF ReadPreferences, ListDevices, Prune, noticeVars
<1>3. CASE MarkRead(h)
 <2>1. inbox' = [inbox EXCEPT ![job[h].key].status = "read"] /\ pushed' = pushed BY <1>3 DEF MarkRead
 <2> DEFINE k == job[h].key
            x == [inbox[k] EXCEPT !.status = "read"]
 <2>2. inbox' = [inbox EXCEPT ![k] = x] BY <2>1
 <2> HIDE DEF k, x
 <2>3. Len([inbox EXCEPT ![k] = x]) = Len(inbox) BY SequenceExcept DEF NoticeTyped
 <2> QED BY <2>1, <2>2, <2>3
<1>4. CASE \E a : MarkAllRead(h, a)
 <2>1. PICK a :
         /\ inbox' = [n \in 1..Len(inbox) |-> IF inbox[n].to = a THEN [inbox[n] EXCEPT !.status = "read"] ELSE inbox[n]]
         /\ pushed' = pushed
   BY <1>4 DEF MarkAllRead
 <2>2. Len(inbox) \in Nat BY SequencePlaces DEF NoticeTyped
 <2>3. DOMAIN inbox' = 1..Len(inbox) /\ inbox' = [n \in 1..Len(inbox) |-> inbox'[n]] BY <2>1
 <2> QED BY <2>1, <2>2, <2>3, SequenceOf
<1>5. NoticeRequest(h) => (pushed' = pushed /\ inbox' = inbox) \/ \E a : MarkAllRead(h, a)
  BY Zenon DEF NoticeRequest, StartRead, Redeliver, SetPreferences, RegisterDevice, RemoveDevice, noticeVars
<1> QED BY <1>1, <1>2, <1>3, <1>4, <1>5 DEF Notifies, NotifyStep

\* Notifications and pushes go on to respect mutes.
LEMMA InboxGoesOn ==
  ASSUME Inv1, WaryInv, NoticeTyped, InboxInv, PushedInv, [PlatformNext]_platformVars
  PROVE  InboxInv' /\ PushedInv'
<1>1. Inv1' /\ RowsKept /\ RowsMove /\ writes \in Nat /\ writes' \in {writes, writes + 1}
  BY Inv1Keeps, RowsMoveOn, CountsGrow
<1>2. PreferencesMove /\ PreferencesTyped' /\ InboxKept /\ NoticeTyped'
  BY PreferencesKeep, NoticesKeep DEF WaryInv
<1>3. \A n \in 0..writes : n \in 0..writes' BY <1>1
<1>4. ASSUME NEW a, NEW b, NEW n \in 0..writes, Heeds(a, b, n) PROVE Heeds(a, b, n)'
  BY <1>1, <1>4, HeedsStays
<1>5. ASSUME NEW a \in Accounts, NEW c, NEW n \in 0..writes, Wants(a, c, n) PROVE Wants(a, c, n)'
 <2>1. mutedAt'[a] \in Nat BY <1>2 DEF PreferencesTyped
 <2> QED BY <1>1, <1>2, <1>5, <2>1, WantsStays
<1>6. Len(inbox) \in Nat BY SequencePlaces DEF NoticeTyped
<1>7. ASSUME NEW n \in 1..Len(inbox), inbox'[n].category = "social"
      PROVE  inbox'[n].began \in 0..writes' /\ Heeds(inbox[n].to, inbox[n].from, inbox[n].began)'
 <2>1. inbox'[n].category = inbox[n].category /\ inbox'[n].to = inbox[n].to /\ inbox'[n].from = inbox[n].from
       /\ inbox'[n].began = inbox[n].began
   BY <1>2 DEF InboxKept
 <2>2. inbox[n].began \in 0..writes /\ Heeds(inbox[n].to, inbox[n].from, inbox[n].began)
   BY <1>7, <2>1 DEF InboxInv
 <2>3. \A a, b, k : a = inbox'[n].to /\ b = inbox'[n].from /\ k = inbox'[n].began => Heeds(a, b, k)'
   BY <1>4, <2>1, <2>2
 <2> QED BY <1>3, <2>1, <2>2, <2>3
<1>8. Len(inbox') = Len(inbox) => InboxInv'
 <2>1. SUFFICES ASSUME NEW n \in 1..Len(inbox'), inbox'[n].category = "social", Len(inbox') = Len(inbox)
                PROVE  inbox'[n].began \in 0..writes' /\ Heeds(inbox[n].to, inbox[n].from, inbox[n].began)'
   BY DEF InboxInv
 <2>2. n \in 1..Len(inbox) BY <2>1
 <2> QED BY <1>7, <2>1, <2>2
<1>9. ASSUME NEW p \in pushed PROVE p.to \in Accounts /\ p.began \in 0..writes' /\ Wants(p.to, p.category, p.began)'
 <2>1. p.to \in Accounts /\ p.began \in 0..writes /\ Wants(p.to, p.category, p.began) BY DEF PushedInv
 <2> QED BY <1>3, <1>5, <2>1
<1>10. pushed' = pushed => PushedInv'
 <2>1. SUFFICES ASSUME NEW p \in pushed', pushed' = pushed
                PROVE  p.to \in Accounts /\ p.began \in 0..writes' /\ Wants(p.to, p.category, p.began)'
   BY DEF PushedInv
 <2> QED BY <1>9, <2>1
<1>11. CASE UNCHANGED noticeVars BY <1>8, <1>10, <1>11 DEF noticeVars
<1>12. ASSUME NEW h \in Handlers, CreateNotification(h), pushed' = pushed PROVE InboxInv'
 <2> DEFINE j == job[h]
            e == [to |-> j.to, from |-> j.who, category |-> j.category, status |-> "unread", op |-> j.op,
              began |-> j.began]
 <2>1. inbox' = Append(inbox, e) /\ j.at = "notify" BY <1>12 DEF CreateNotification
 <2>2. j.began \in 0..writes
  <3>1. j.began \in Nat /\ j.began <= writes BY <2>1, AtWork DEF Typed
  <3> QED BY <1>1, <3>1
 <2>3. j.category = "social" => Heeds(j.to, j.who, j.began) BY <2>1 DEF WaryInv, Wary
 <2>4. e.to = j.to /\ e.from = j.who /\ e.category = j.category /\ e.began = j.began OBVIOUS
 <2> HIDE DEF e
 <2>5. Len(inbox') = Len(inbox) + 1 /\ inbox'[Len(inbox) + 1] = e BY <2>1, SequenceAppend DEF NoticeTyped
 <2> SUFFICES ASSUME NEW n \in 1..Len(inbox'), inbox'[n].category = "social"
              PROVE  inbox'[n].began \in 0..writes' /\ Heeds(inbox[n].to, inbox[n].from, inbox[n].began)'
   BY DEF InboxInv
 <2>6. n \in 1..Len(inbox) \/ inbox'[n] = e BY <1>6, <2>5
 <2>7. CASE inbox'[n] = e
  <3>1. \A a, b, k : a = inbox'[n].to /\ b = inbox'[n].from /\ k = inbox'[n].began => Heeds(a, b, k)'
          /\ k \in 0..writes'
    BY <1>3, <1>4, <2>2, <2>3, <2>4, <2>7
  <3> QED BY <3>1
 <2> QED BY <1>7, <2>6, <2>7
<1>13. ASSUME NEW h \in Handlers, Push(h) PROVE PushedInv'
 <2> DEFINE j == job[h]
            e == [to |-> j.to, category |-> j.category, began |-> j.began]
 <2>1. pushed' = pushed \cup {e} /\ j.at = "push" BY <1>13, Zenon DEF Push
 <2>2. j.began \in 0..writes /\ j.to \in Accounts
  <3>1. j.began \in Nat /\ j.began <= writes /\ Fits(j.op, "push") /\ Tells(j) BY <2>1, AtWork DEF Typed
  <3> QED BY <1>1, <3>1 DEF Fits, Tells, Told, Telling1
 <2>3. Wants(j.to, j.category, j.began) BY <2>1 DEF WaryInv, Wary
 <2>4. e.to = j.to /\ e.category = j.category /\ e.began = j.began OBVIOUS
 <2> HIDE DEF e, j
 <2>5. ASSUME NEW p, p = e PROVE p.to \in Accounts /\ p.began \in 0..writes' /\ Wants(p.to, p.category, p.began)'
  <3>1. p.to \in Accounts /\ p.began \in 0..writes /\ Wants(p.to, p.category, p.began)
    BY <2>2, <2>3, <2>4, <2>5
  <3> QED BY <1>3, <1>5, <3>1
 <2> QED BY <1>9, <2>1, <2>5 DEF PushedInv
<1>14. ASSUME NEW h \in Handlers, Notifies(h) PROVE InboxInv' /\ PushedInv'
 <2>1. \/ CreateNotification(h) /\ pushed' = pushed
       \/ Push(h) /\ inbox' = inbox
       \/ pushed' = pushed /\ Len(inbox') = Len(inbox)
   BY <1>14, NoticeStepCases
 <2> QED BY <1>8, <1>10, <1>12, <1>13, <2>1
<1> QED BY <1>11, <1>14, StepKinds
-----------------------------
(* Every message is announced: by a request that is still at it, by a
   notification that says so, or not, for a reason. *)

\* j is a request that announces message m, or is about to.
Announces(j, m) ==
  j.op = "send" /\ j.at \in {"hear", "notify"} /\ j.key = m.in /\ j.who = m.by /\ j.began = m.began

\* What has become of the announcement of m.
Announced(m) ==
  \/ WasCutOff("send", m.in)
  \/ \E r \in Rows : records[r].kind = "mute" /\ records[r].who = OtherOf(m.in, m.by)
  \/ \E h \in Handlers : Announces(job[h], m)
  \/ \E k \in 1..Len(inbox) : inbox[k].to = OtherOf(m.in, m.by) /\ inbox[k].op = "send" /\ inbox[k].began = m.began

\* Every message is announced, or was not for a reason.
AnnouncedInv == \A n \in 1..Len(messages) : Announced(messages[n])

\* A request that announces goes on, is done, or is cut off.
LEMMA AnnouncerMoves ==
  ASSUME Inv1, [PlatformNext]_platformVars, NEW h \in Handlers, job[h].op = "send", job[h].at \in {"hear", "notify"}
  PROVE  \/ /\ job'[h].op = "send" /\ job'[h].at \in {"hear", "notify"}
            /\ job'[h].key = job[h].key /\ job'[h].who = job[h].who /\ job'[h].began = job[h].began
         \/ ActiveRelation("mute", job[h].to, job[h].who) # 0
         \/ CreateNotification(h)
         \/ <<"send", job[h].key>> \in dropped'
<1>1. job[h] # Idle /\ Basic(job[h]) /\ StoreTyped /\ JobsTyped /\ ChatTyped BY AtWork DEF Inv1
<1>2. \A j : Begin(h, j) => FALSE BY <1>1 DEF Begin, Accept, Ready
<1>3. ~Once(h) BY <1>1 DEF Once, Ready
<1>4. SUFFICES ASSUME job'[h] # job[h] PROVE
         \/ /\ job'[h].op = "send" /\ job'[h].at \in {"hear", "notify"}
            /\ job'[h].key = job[h].key /\ job'[h].who = job[h].who /\ job'[h].began = job[h].began
         \/ ActiveRelation("mute", job[h].to, job[h].who) # 0
         \/ CreateNotification(h)
         \/ <<"send", job[h].key>> \in dropped'
  OBVIOUS
<1>5. ASSUME NEW g \in Handlers, NEW ops, Acts(g, ops) PROVE g = h BY <1>4, <1>5 DEF Acts, Turned
<1>6. CASE \E g \in Handlers : Mingles(g)
 <2>1. PICK g \in Handlers : Mingles(g) BY <1>6
 <2>2. g = h BY <1>1, <1>5, <2>1, SocialActs DEF Mingles
 <2>3. ~(SocialRequest(h) \/ MuteRequest(h))
   BY <1>2 DEF SocialRequest, MuteRequest, StartRelation, Bar, Lift, Answer, SetQuiet
 <2>4. Hear(h)
   BY <1>2, <2>1, <2>2, <2>3 DEF Mingles, SocialStep, FindFollow, FindFriend, Doing, StartRelation, Bar,
      Lift, Answer
 <2> DEFINE j == job[h]
            at == IF ActiveRelation("mute", j.to, j.who) # 0 THEN "end" ELSE "notify"
 <2>5. Become(h, [j EXCEPT !.at = at]) BY <2>4 DEF Hear
 <2>6. CASE at = "notify"
  <3>1. job'[h] = [j EXCEPT !.at = at] \/ (job'[h] = Idle /\ [j EXCEPT !.at = at].at = "end")
    BY <2>5, BecomesThat
  <3>2. Goes([j EXCEPT !.at = at], j) /\ [j EXCEPT !.at = at].at = at BY <1>1, WaysToGo
  <3> HIDE DEF at, j
  <3>3. job'[h] = [j EXCEPT !.at = at] BY <2>6, <3>1, <3>2
  <3>4. job'[h].op = j.op /\ job'[h].at = "notify" /\ job'[h].key = j.key /\ job'[h].who = j.who
          /\ job'[h].began = j.began
    BY <2>6, <3>2, <3>3 DEF Goes
  <3> QED BY <3>4 DEF j
 <2> QED BY <2>6
<1>7. CASE \E g \in Handlers : Notifies(g)
 <2>1. PICK g \in Handlers : Notifies(g) BY <1>7
 <2>2. g = h BY <1>1, <1>5, <2>1, NoticesAct DEF Notifies
 <2>3. ~NoticeRequest(h)
   BY <1>2, <1>3 DEF NoticeRequest, MarkAllRead, StartRead, Redeliver, SetPreferences, RegisterDevice, RemoveDevice
 <2>4. ~(ReadPreferences(h) \/ ListDevices(h) \/ Push(h) \/ Prune(h) \/ MarkRead(h))
  <3>1. ReadPreferences(h) \/ ListDevices(h) \/ Push(h) \/ Prune(h) \/ MarkRead(h) =>
          job[h].at \in {"preferences", "devices", "push", "prune", "mark"}
    BY Zenon DEF ReadPreferences, ListDevices, Push, Prune, MarkRead, Doing
  <3> QED BY <3>1
 <2> QED BY <2>1, <2>2, <2>3, <2>4 DEF Notifies, NotifyStep
<1>8. CASE \E g \in Handlers : Chats(g)
 <2>1. PICK g \in Handlers : Chats(g) BY <1>8
 <2>2. g = h BY <1>1, <1>5, <2>1, ChatActs DEF Chats
 <2>3. ~ChatRequest(h) BY <1>2, <1>3 DEF ChatRequest, StartOpen, StartSend, StartOnChat, SetPresence
 <2>4. ~ChatStep(h)
   BY DEF ChatStep, ReadPrivacy, ReadFriendship, OpenConversation, CheckAllowed, ReadPresence, PostMessage,
      ChangeMessages, Doing
 <2> QED BY <2>1, <2>2, <2>3, <2>4 DEF Chats
<1>9. ASSUME NEW g \in Handlers, NEW ops, Acts(g, ops), "send" \notin ops PROVE FALSE
 <2>1. g = h /\ Works(g, ops) BY <1>5, <1>9 DEF Acts
 <2> QED BY <1>1, <1>9, <2>1 DEF Works
<1>10. "send" \notin RoomOps /\ "send" \notin OwnOps
  BY DEF RoomOps, OwnOps, PrivacyOps, BreakoutOps, MusicOps, SupportOps, ViewOps, SessionOps, AdminOps,
     Players, Controls, Reached, Transitions, Lists, Tabs
<1>11. CASE \E g \in Handlers : StoreStep(g) \/ CutOff(g)
 <2>1. PICK g \in Handlers : StoreStep(g) \/ CutOff(g) BY <1>11
 <2>2. g = h
  <3>1. DOMAIN job = Handlers BY DEF Inv1, StoreTyped
  <3>2. \A x \in Handlers : x # g => job'[x] = job[x]
   <4>1. CASE AddRow(g) BY <3>1, <4>1 DEF AddRow, Onward
   <4>2. CASE ReadRow(g) BY <3>1, <4>2 DEF ReadRow
   <4>3. CASE WriteRow(g) BY <3>1, <4>3 DEF WriteRow, Onward
   <4>4. CASE CutOff(g) BY <3>1, <4>4 DEF CutOff
   <4> QED BY <2>1, <4>1, <4>2, <4>3, <4>4 DEF StoreStep
  <3> QED BY <1>4, <3>2
 <2>3. ~StoreStep(h) BY DEF StoreStep, AddRow, ReadRow, WriteRow
 <2>4. CutOff(h) BY <2>1, <2>2, <2>3
 <2> QED BY <2>4 DEF CutOff
<1>12. CASE UNCHANGED storeVars BY <1>4, <1>12 DEF storeVars, handlerVars
<1> QED BY <1>6, <1>7, <1>8, <1>9, <1>10, <1>11, <1>12, StepKinds

\* What was cut off stays so.
LEMMA DroppedGrows ==
  ASSUME Inv1, [PlatformNext]_platformVars
  PROVE  dropped \subseteq dropped'
<1>1. CASE \E h \in Handlers : Acts(h, AllOps) BY <1>1 DEF Acts, Turned
<1>2. CASE \E h \in Handlers : StoreStep(h) \/ CutOff(h)
  BY <1>2, Zenon DEF StoreStep, AddRow, ReadRow, WriteRow, CutOff
<1>3. CASE UNCHANGED storeVars BY <1>3 DEF storeVars, handlerVars
<1> QED BY <1>1, <1>2, <1>3, StepShape

\* What a message stood for, it still does.
LEMMA AnnouncedStays ==
  ASSUME Inv1, NoticeTyped, [PlatformNext]_platformVars, NEW m, MessageKept(m), Announced(m)
  PROVE  Announced(m)'
<1> DEFINE to == OtherOf(m.in, m.by)
<1>1. RowsKept /\ InboxKept /\ dropped \subseteq dropped' BY Inv1Keeps, NoticesKeep, DroppedGrows
<1>2. CASE WasCutOff("send", m.in) BY <1>1, <1>2 DEF WasCutOff, Announced
<1>3. CASE \E r \in Rows : records[r].kind = "mute" /\ records[r].who = to
 <2>1. PICK r \in Rows : records[r].kind = "mute" /\ records[r].who = to BY <1>3
 <2>2. r \in Rows' /\ records'[r].kind = "mute" /\ records'[r].who = to BY <1>1, <2>1 DEF RowsKept, SameRow
 <2> QED BY <2>2 DEF Announced
<1>4. CASE \E k \in 1..Len(inbox) : inbox[k].to = to /\ inbox[k].op = "send" /\ inbox[k].began = m.began
 <2>1. PICK k \in 1..Len(inbox) : inbox[k].to = to /\ inbox[k].op = "send" /\ inbox[k].began = m.began
   BY <1>4
 <2>2. k \in 1..Len(inbox') /\ inbox'[k].to = to /\ inbox'[k].op = "send" /\ inbox'[k].began = m.began
   BY <1>1, <2>1 DEF InboxKept
 <2> QED BY <2>2 DEF Announced
<1>5. CASE \E h \in Handlers : Announces(job[h], m)
 <2>1. PICK h \in Handlers : Announces(job[h], m) BY <1>5
 <2>2. job[h].op = "send" /\ job[h].at \in {"hear", "notify"} /\ job[h].key = m.in /\ job[h].who = m.by
         /\ job[h].began = m.began
   BY <2>1 DEF Announces
 <2>3. job[h].to = to
  <3>1. CarriesPair(job[h]) BY <2>2, AtWork
  <3>2. job[h].who # job[h].to /\ job[h].key = {job[h].who, job[h].to} BY <2>2, <3>1 DEF CarriesPair
  <3>3. \A a, b, c : a # b /\ c = {a, b} => OtherOf(c, a) = b BY OtherOfPair
  <3>4. OtherOf(job[h].key, job[h].who) = job[h].to BY <3>2, <3>3
  <3> QED BY <2>2, <3>4
 <2>4. CASE /\ job'[h].op = "send" /\ job'[h].at \in {"hear", "notify"}
            /\ job'[h].key = job[h].key /\ job'[h].who = job[h].who /\ job'[h].began = job[h].began
  <3>1. Announces(job'[h], m) BY <2>2, <2>4 DEF Announces
  <3> QED BY <3>1 DEF Announced, Announces
 <2>5. CASE ActiveRelation("mute", job[h].to, job[h].who) # 0
  <3>1. Len(records) \in Nat BY SequencePlaces DEF Inv1, StoreTyped
  <3>2. Sought({k \in 1..Len(records) : IsRelation(records[k], "mute", "active", job[h].to, job[h].who)},
               ActiveRelation("mute", job[h].to, job[h].who))
    BY <3>1, ActiveRelationFound
  <3>3. \E r \in Rows : records[r].kind = "mute" /\ records[r].who = job[h].to
    BY <2>5, <3>2 DEF Sought, IsRelation, Rows
  <3> QED BY <1>3, <2>3, <3>3
 <2>6. CASE CreateNotification(h)
  <3> DEFINE j == job[h]
             e == [to |-> j.to, from |-> j.who, category |-> j.category, status |-> "unread", op |-> j.op,
               began |-> j.began]
  <3>1. inbox' = Append(inbox, e) BY <2>6 DEF CreateNotification
  <3>2. e.to = to /\ e.op = "send" /\ e.began = m.began BY <2>2, <2>3
  <3> HIDE DEF e
  <3>3. Len(inbox') = Len(inbox) + 1 /\ inbox'[Len(inbox) + 1] = e /\ Len(inbox) \in Nat
    BY <3>1, SequenceAppend, SequencePlaces DEF NoticeTyped
  <3>4. Len(inbox) + 1 \in 1..Len(inbox') BY <3>3
  <3>5. \E k \in 1..Len(inbox') : inbox'[k].to = to /\ inbox'[k].op = "send" /\ inbox'[k].began = m.began
    BY <3>2, <3>3, <3>4
  <3> QED BY <3>5 DEF Announced
 <2>7. CASE <<"send", job[h].key>> \in dropped' BY <2>2, <2>7 DEF Announced, WasCutOff
 <2> QED BY <2>2, <2>4, <2>5, <2>6, <2>7, AnnouncerMoves
<1> QED BY <1>2, <1>3, <1>4, <1>5 DEF Announced

\* It goes on to be so.
LEMMA AnnouncedKeep ==
  ASSUME Inv1, WaryInv, NoticeTyped, MessagesInv, AnnouncedInv, [PlatformNext]_platformVars
  PROVE  AnnouncedInv'
<1>1. MessagesInv' /\ MessagesKept BY MessagesKeep
<1>2. Len(messages) \in Nat /\ \A n \in 1..Len(messages) : MessageKept(messages[n]) /\ Announced(messages[n])
  BY SequencePlaces DEF MessagesInv, AnnouncedInv
<1>3. \A m : MessageKept(m) /\ Announced(m) => Announced(m)' BY AnnouncedStays
<1>4. ASSUME NEW n \in 1..Len(messages) PROVE Announced(messages[n])'
 <2>1. Told1(messages'[n]) = Told1(messages[n]) BY <1>1 DEF MessagesKept
 <2>2. messages'[n].in = messages[n].in /\ messages'[n].by = messages[n].by
         /\ messages'[n].began = messages[n].began
   BY <2>1 DEF Told1
 <2>3. \A m, w : Announced(m)' /\ w.in = m.in /\ w.by = m.by /\ w.began = m.began => Announced(w)'
   BY DEF Announced, Announces
 <2>4. \A w : w = messages'[n] => Announced(w)' BY <1>2, <1>3, <2>2, <2>3
 <2> QED BY <2>4
<1>5. Len(messages') = Len(messages) => AnnouncedInv'
 <2>1. SUFFICES ASSUME NEW n \in 1..Len(messages'), Len(messages') = Len(messages) PROVE Announced(messages[n])'
   BY DEF AnnouncedInv
 <2>2. n \in 1..Len(messages) BY <2>1
 <2> QED BY <1>4, <2>2
<1>6. ASSUME NEW h \in Handlers, PostMessage(h) PROVE AnnouncedInv'
 <2> DEFINE j == job[h]
            m == [in |-> j.key, by |-> j.who, status |-> j.status, deleted |-> FALSE, reports |-> 0,
              began |-> j.began]
 <2>1. messages' = Append(messages, m) /\ Doing(h, "send", "post") /\ Become(h, [j EXCEPT !.at = "hear"])
   BY <1>6 DEF PostMessage
 <2>2. j.op = "send" /\ Basic(j) BY <2>1, AtWork DEF Doing
 <2>3. job'[h] = [j EXCEPT !.at = "hear"] \/ (job'[h] = Idle /\ [j EXCEPT !.at = "hear"].at = "end")
   BY <2>1, BecomesThat
 <2>4. Goes([j EXCEPT !.at = "hear"], j) /\ [j EXCEPT !.at = "hear"].at = "hear" BY <2>2, WaysToGo
 <2>5. m.in = j.key /\ m.by = j.who /\ m.began = j.began OBVIOUS
 <2> HIDE DEF j, m
 <2>6. Announces(job'[h], m) BY <2>2, <2>3, <2>4, <2>5 DEF Announces, Goes
 <2>7. \A w : w = m => Announced(w)' BY <2>6 DEF Announced, Announces
 <2>8. Len(messages') = Len(messages) + 1 /\ messages'[Len(messages) + 1] = m
   BY <1>2, <2>1, SequenceAppend DEF MessagesInv
 <2> SUFFICES ASSUME NEW n \in 1..Len(messages') PROVE Announced(messages[n])' BY DEF AnnouncedInv
 <2>9. CASE n = Len(messages) + 1
  <3>1. \A w : w = messages'[n] => Announced(w)' BY <2>7, <2>8, <2>9
  <3> QED BY <3>1
 <2> QED BY <1>2, <1>4, <2>8, <2>9
<1>7. CASE UNCHANGED messages BY <1>5, <1>7
<1>8. ASSUME NEW h \in Handlers, ChangeMessages(h) PROVE AnnouncedInv' BY <1>5, <1>8, MessagesChange
<1>9. ASSUME NEW h \in Handlers, Chats(h) PROVE AnnouncedInv'
  BY <1>6, <1>7, <1>8, <1>9, ChatCases DEF OpenConversation
<1> QED BY <1>7, <1>9, StepKinds DEF chatVars
-----------------------------
\* Everything that is kept right about who hears of whom.
NewsInv == WaryInv /\ FollowsInv /\ MessagesInv /\ OpeningsInv /\ InboxInv /\ PushedInv /\ AnnouncedInv

\* It is right before anybody has done anything.
LEMMA InitNews ==
  ASSUME PlatformInit
  PROVE  NewsInv
<1>1. /\ job = [h \in Handlers |-> Idle] /\ inbox = <<>> /\ pushed = {} /\ messages = <<>>
      /\ muted = [a \in Accounts |-> {}] /\ mutedAt = [a \in Accounts |-> 0]
      /\ conversations = [c \in Pairs |-> Closed] /\ writes = 0
      /\ trace = [i \in 1..Len(records) |-> {}]
  BY DEF PlatformInit, HandlersInit, StoreInit, NotificationsInit, ChatInit
<1>2. WaryInv BY <1>1 DEF WaryInv, PreferencesTyped, Wary, Idle
<1>3. FollowsInv BY <1>1 DEF FollowsInv, Rows
<1>4. Sequence(messages) /\ Len(messages) = 0 /\ Len(inbox) = 0 BY <1>1, EmptySequence
<1>5. MessagesInv /\ InboxInv /\ PushedInv /\ AnnouncedInv
  BY <1>1, <1>4 DEF MessagesInv, InboxInv, PushedInv, AnnouncedInv
<1>6. OpeningsInv BY <1>1 DEF OpeningsInv, IsOpen
<1> QED BY <1>2, <1>3, <1>5, <1>6 DEF NewsInv

\* It stays right.
LEMMA NewsKeep ==
  ASSUME Inv1, NoticeTyped, NewsInv, [PlatformNext]_platformVars
  PROVE  NewsInv'
<1>1. WaryInv' /\ FollowsInv' /\ MessagesInv' /\ OpeningsInv'
  BY WaryKeeps, FollowsKeep, MessagesKeep, OpeningsKeep DEF NewsInv
<1>2. InboxInv' /\ PushedInv' /\ AnnouncedInv' BY InboxGoesOn, AnnouncedKeep DEF NewsInv
<1> QED BY <1>1, <1>2 DEF NewsInv

\* Who follows, befriends, writes or opens did so before the block, or before
\* it was ruled out.
LEMMA BlocksFollow ==
  ASSUME Inv1, NewsInv
  PROVE  BlockRespected
<1>1. StoreTyped /\ writes \in Nat /\ Len(records) \in Nat BY SequencePlaces DEF Inv1, StoreTyped
<1>2. \A i \in Rows : \A n \in Nat : Renewed(i, n) => n < LastWrite(i) BY <1>1, RenewedIs
<1>3. ASSUME NEW c \in Pairs, IsOpen(c)
      PROVE  LET i == Profile(OtherOf(c, conversations[c].opener)) IN
             \/ i = 0 \/ Disordered(i)
             \/ records[i].privacy.whoCanMessage = "nobody" => conversations[c].began < LastWrite(i)
 <2> DEFINE a == OtherOf(c, conversations[c].opener)
            n == conversations[c].began
 <2>1. n \in 0..writes /\ Admits(a, n) BY <1>3 DEF NewsInv, OpeningsInv
 <2> HIDE DEF a, n
 <2>2. Profile(a) = 0 \/ Profile(a) \in Rows
  <3>1. Sought({i \in 1..Len(records) : records[i].kind = "profile" /\ records[i].who = a}, Profile(a))
    BY <1>1, ProfileFound
  <3> QED BY <3>1 DEF Sought, Rows
 <2>3. n \in Nat BY <1>1, <2>1
 <2>4. Profile(a) = 0 \/ (records[Profile(a)].privacy.whoCanMessage = "nobody" => n < LastWrite(Profile(a)))
  <3>1. \A i : i = Profile(a) /\ i \in Rows /\ Renewed(i, n) => n < LastWrite(i) BY <1>2, <2>3
  <3> QED BY <2>1, <2>2, <3>1 DEF Admits
 <2> QED BY <2>4 DEF a, n
<1>4. ASSUME NEW b \in KindIn("block", {"active"})
      PROVE  LET two == {records[b].who, records[b].whom} IN
             /\ \A i \in Kind("follow") \cup Kind("friend") :
                  {records[i].who, records[i].whom} = two => \A s \in trace[i] :
                    s.op \in {"follow", "friend"} => s.began < LastWrite(b)
             /\ \A n \in 1..Len(messages) : messages[n].in = two => messages[n].began < LastWrite(b)
 <2> DEFINE two == {records[b].who, records[b].whom}
 <2>1. b \in Rows BY DEF KindIn, Where, Rows
 <2>2. \A n \in Nat : Unblocked(two, n) => n < LastWrite(b) BY <1>2, <2>1 DEF Unblocked
 <2>3. ASSUME NEW i \in Kind("follow") \cup Kind("friend"), {records[i].who, records[i].whom} = two,
              NEW s \in trace[i], s.op \in {"follow", "friend"}
       PROVE  s.began < LastWrite(b)
  <3>1. i \in Rows /\ records[i].kind \in {"follow", "friend"} BY DEF Kind, Where, Rows
  <3>2. Unblocked({records[i].who, records[i].whom}, s.began) BY <2>3, <3>1 DEF NewsInv, FollowsInv
  <3>3. s.began \in Nat BY <1>1, <3>1 DEF StoreTyped
  <3>4. \A x : x = two /\ Unblocked(x, s.began) => s.began < LastWrite(b) BY <2>2, <3>3
  <3> HIDE DEF two
  <3> QED BY <2>3, <3>2, <3>4
 <2>4. ASSUME NEW n \in 1..Len(messages), messages[n].in = two PROVE messages[n].began < LastWrite(b)
  <3>1. messages[n].began \in 0..writes /\ Unblocked(messages[n].in, messages[n].began)
    BY DEF NewsInv, MessagesInv, MessageKept
  <3>2. messages[n].began \in Nat BY <1>1, <3>1
  <3>3. \A x : x = two /\ Unblocked(x, messages[n].began) => messages[n].began < LastWrite(b) BY <2>2, <3>2
  <3> HIDE DEF two
  <3> QED BY <2>4, <3>1, <3>3
 <2> QED BY <2>3, <2>4
<1> QED BY <1>3, <1>4 DEF BlockRespected

\* Who is told or pushed to had not muted that, and who is not had a reason.
LEMMA NoticesFollow ==
  ASSUME Inv1, NewsInv
  PROVE  NoticesRight
<1>1. StoreTyped /\ writes \in Nat BY DEF Inv1, StoreTyped
<1>2. ASSUME NEW m \in KindIn("mute", {"active"}), NEW n \in 1..Len(inbox),
             inbox[n].to = records[m].who, inbox[n].from = records[m].whom, inbox[n].category = "social"
      PROVE  inbox[n].began < LastWrite(m)
 <2>1. inbox[n].began \in 0..writes /\ Heeds(inbox[n].to, inbox[n].from, inbox[n].began)
   BY <1>2 DEF NewsInv, InboxInv
 <2>2. m \in Rows /\ inbox[n].began \in Nat BY <1>1, <2>1 DEF KindIn, Where, Rows
 <2>3. Renewed(m, inbox[n].began) BY <1>2, <2>1 DEF Heeds
 <2> QED BY <1>1, <2>2, <2>3, RenewedIs
<1>3. ASSUME NEW p \in pushed, p.category \in muted[p.to] PROVE p.category # "security" /\ p.began < mutedAt[p.to]
 <2>1. p.to \in Accounts /\ Wants(p.to, p.category, p.began) BY DEF NewsInv, PushedInv
 <2>2. muted[p.to] \subseteq Muteable BY <2>1 DEF NewsInv, WaryInv, PreferencesTyped
 <2> QED BY <1>3, <2>1, <2>2 DEF Wants, Muteable
<1>4. ASSUME NEW n \in 1..Len(messages)
      PROVE  LET c == messages[n].in
                 to == OtherOf(c, messages[n].by)
             IN \/ WasCutOff("send", c)
                \/ \E m \in Kind("mute") : records[m].who = to
                \/ \E h \in Handlers : Of(h, {"send"}) /\ job[h].began = messages[n].began
                \/ \E k \in 1..Len(inbox) : inbox[k].to = to /\ inbox[k].op = "send"
                                            /\ inbox[k].began = messages[n].began
 <2>1. Announced(messages[n]) BY DEF NewsInv, AnnouncedInv
 <2>2. \A h \in Handlers : Announces(job[h], messages[n]) => Of(h, {"send"}) /\ job[h].began = messages[n].began
   BY DEF Announces, Of, Idle
 <2> QED BY <2>1, <2>2 DEF Announced, Kind, Where, Rows
<1> QED BY <1>2, <1>3, <1>4 DEF NoticesRight

\* No request that began after a block follows, befriends or writes to whom
\* it keeps apart, nor opens a conversation with who lets nobody
\* (feature-platform.js:171-213; chat.service.js:91-130, 173-175).
THEOREM BlocksAreRespected == PlatformSpec => []BlockRespected
<1> DEFINE I == PlatformInv /\ NewsInv
<1>1. PlatformInit => I BY InitPlatform, InitNews
<1>2. I /\ [PlatformNext]_platformVars => I' BY PlatformKeeps, NewsKeep DEF PlatformInv
<1>3. I => BlockRespected BY BlocksFollow DEF PlatformInv
<1> QED BY <1>1, <1>2, <1>3, PTL DEF PlatformSpec

\* No request that began after a mute tells of whom it is about, or pushes
\* what is muted, security is always pushed, and every message is announced
\* unless there is a reason (feature-platform.js:365-374;
\* notification.service.js:142-151; chat.service.js:204-222).
THEOREM NoticesAreRight == PlatformSpec => []NoticesRight
<1> DEFINE I == PlatformInv /\ NewsInv
<1>1. PlatformInit => I BY InitPlatform, InitNews
<1>2. I /\ [PlatformNext]_platformVars => I' BY PlatformKeeps, NewsKeep DEF PlatformInv
<1>3. I => NoticesRight BY NoticesFollow DEF PlatformInv
<1> QED BY <1>1, <1>2, <1>3, PTL DEF PlatformSpec
-----------------------------
(* One record at a time: whoever adds a record has found no other that
   claims the same, or somebody has written that one since. *)

\* Nobody claims c, but for what was written after n writes.
Free(c, n) == \A i \in Rows : Claim(records[i]) = c => Renewed(i, n)

\* The claims of each kind.
Claimed(r) ==
  /\ r.kind \in {"follow", "block", "mute"} =>
       Claim(r) = IF r.status = "active" THEN <<r.kind, r.who, r.whom>> ELSE <<>>
  /\ r.kind = "friend" => Claim(r) = IF r.status # "rejected" THEN <<r.kind, {r.who, r.whom}>> ELSE <<>>
  /\ r.kind = "ban" => Claim(r) = IF r = Ban(r.who) THEN <<r.kind, r.who>> ELSE <<>>
  /\ r.kind = "dj" => Claim(r) = IF r = Dj(r.who) THEN <<r.kind, r.who>> ELSE <<>>
  /\ r.kind = "breakout" => Claim(r) = IF r = Breakout(r.who) THEN <<r.kind, r.who>> ELSE <<>>
  /\ r.kind = "membership" => Claim(r) = IF Occupies(r) THEN <<r.kind, r.who>> ELSE <<>>
  /\ r.kind = "profile" => Claim(r) = <<r.kind, r.who>>
  /\ r.kind \in {"review", "appeal"} => Claim(r) = <<r.kind, r.of>>
  /\ r.kind = "player" => Claim(r) = <<r.kind>>
  /\ r.kind \notin {"follow", "block", "mute", "friend", "ban", "dj", "breakout", "membership", "profile",
                    "review", "appeal", "player"} => Claim(r) = <<>>

\* What a record claims, kind by kind.
LEMMA ClaimsOfKinds ==
  ASSUME NEW r
  PROVE  Claimed(r)
<1>1. CASE r.kind \in {"follow", "block", "mute", "friend"} BY <1>1 DEF Claim, Claimed, Occupies
<1>2. CASE r.kind = "ban" BY <1>2 DEF Claim, Claimed, Occupies
<1>3. CASE r.kind = "dj" BY <1>3 DEF Claim, Claimed, Occupies
<1>4. CASE r.kind = "breakout" BY <1>4 DEF Claim, Claimed, Occupies
<1>5. CASE r.kind = "membership" BY <1>5 DEF Claim, Claimed, Occupies
<1>6. CASE r.kind \in {"profile", "review", "appeal", "player"} BY <1>6 DEF Claim, Claimed, Occupies
<1>7. CASE r.kind \notin {"follow", "block", "mute", "friend", "ban", "dj", "breakout", "membership", "profile",
                          "review", "appeal", "player"}
  BY <1>7 DEF Claim, Claimed, Occupies
<1> QED BY <1>1, <1>2, <1>3, <1>4, <1>5, <1>6, <1>7

\* A claim names the kind of the record.
LEMMA ClaimNamesKind ==
  ASSUME NEW r, Claim(r) # <<>>
  PROVE  Claim(r)[1] = r.kind
<1>1. Claimed(r) BY ClaimsOfKinds
<1> QED BY <1>1 DEF Claimed

\* Who claims what.
LEMMA ClaimantsAre ==
  ASSUME NEW r, NEW a, NEW b
  PROVE  /\ \A kind \in {"follow", "block", "mute"} :
              Claim(r) = <<kind, a, b>> => IsRelation(r, kind, "active", a, b)
         /\ Claim(r) = <<"friend", {a, b}>> => r.kind = "friend" /\ r.status # "rejected"
              /\ {r.who, r.whom} = {a, b}
         /\ Claim(r) = <<"ban", a>> => r = Ban(a)
         /\ Claim(r) = <<"dj", a>> => r = Dj(a)
         /\ Claim(r) = <<"breakout", a>> => r = Breakout(a)
         /\ Claim(r) = <<"membership", a>> => Occupies(r) /\ r.who = a
         /\ Claim(r) = <<"profile", a>> => r.kind = "profile" /\ r.who = a
         /\ \A kind \in {"review", "appeal"} : Claim(r) = <<kind, a>> => r.kind = kind /\ r.of = a
         /\ Claim(r) = <<"player">> => r.kind = "player"
<1>1. Claimed(r) /\ (Claim(r) # <<>> => Claim(r)[1] = r.kind) BY ClaimsOfKinds, ClaimNamesKind
<1>2. ASSUME NEW kind \in {"follow", "block", "mute"}, Claim(r) = <<kind, a,
             b>> PROVE IsRelation(r, kind, "active", a, b)
 <2>1. r.kind = kind BY <1>1, <1>2
 <2> QED BY <1>1, <1>2, <2>1 DEF Claimed, IsRelation
<1>3. ASSUME Claim(r) = <<"friend", {a, b}>> PROVE r.kind = "friend" /\ r.status # "rejected"
             /\ {r.who, r.whom} = {a, b}
 <2>1. r.kind = "friend" BY <1>1, <1>3
 <2>2. Claim(r) = <<"friend", {r.who, r.whom}>> /\ r.status # "rejected" BY <1>1, <1>3, <2>1 DEF Claimed
 <2>3. \A v, w : <<"friend", v>> = <<"friend", w>> => v = w OBVIOUS
 <2> QED BY <1>3, <2>1, <2>2, <2>3
<1>4. Claim(r) = <<"ban", a>> => r = Ban(a) BY <1>1 DEF Claimed
<1>5. Claim(r) = <<"dj", a>> => r = Dj(a) BY <1>1 DEF Claimed
<1>6. Claim(r) = <<"breakout", a>> => r = Breakout(a) BY <1>1 DEF Claimed
<1>7. Claim(r) = <<"membership", a>> => Occupies(r) /\ r.who = a BY <1>1 DEF Claimed
<1>8. Claim(r) = <<"profile", a>> => r.kind = "profile" /\ r.who = a BY <1>1 DEF Claimed
<1>9. \A kind \in {"review", "appeal"} : Claim(r) = <<kind, a>> => r.kind = kind /\ r.of = a
  BY <1>1 DEF Claimed
<1>10. Claim(r) = <<"player">> => r.kind = "player" BY <1>1 DEF Claimed
<1> QED BY <1>2, <1>3, <1>4, <1>5, <1>6, <1>7, <1>8, <1>9, <1>10
-----------------------------
\* Requests that may make a record claim again what it had given up.
Revivers == {"accepted", "join", "move"}

\* An update leaves the record its claim, or takes it, or revives it.
LEMMA PatchedClaim ==
  ASSUME NEW op, NEW s, NEW p, NEW then, Mends(op, s.kind, p, then), WellFormed(s)
  PROVE  Claim(Merge(s, p)) \in {<<>>, Claim(s)} \/ (op \in Revivers /\ Claim(s) = <<>>)
<1> DEFINE m == Merge(s, p)
<1>1. {"kind", "who", "whom", "of", "in"} \cap DOMAIN p = {} BY PatchedFields
<1>2. /\ \A f \in DOMAIN p : m[f] = p[f]
      /\ \A f \in DOMAIN s : f \notin DOMAIN p => m[f] = s[f]
  BY MergedFields
<1> HIDE DEF m
<1>3. m.kind = s.kind BY <1>1, <1>2 DEF WellFormed
<1>4. /\ s.kind # "player" => m.who = s.who
      /\ s.kind \in Relations => m.whom = s.whom
      /\ s.kind \in {"review", "appeal"} => m.of = s.of
  BY <1>1, <1>2 DEF WellFormed
<1>5. m.status = IF "status" \in DOMAIN p THEN p.status ELSE s.status BY <1>2 DEF WellFormed
<1>6. Claimed(m) /\ Claimed(s) BY ClaimsOfKinds
<1>7. CASE s.kind \in {"follow", "block", "mute"}
 <2>1. "status" \notin DOMAIN p \/ ("status" \in DOMAIN p /\ p.status = "removed") BY <1>7 DEF Mends
 <2>2. m.status = s.status \/ m.status = "removed" BY <1>5, <2>1
 <2>3. Claim(m) = IF m.status = "active" THEN <<m.kind, m.who, m.whom>> ELSE <<>>
   BY <1>3, <1>6, <1>7 DEF Claimed
 <2>4. Claim(s) = IF s.status = "active" THEN <<s.kind, s.who, s.whom>> ELSE <<>> BY <1>6, <1>7 DEF Claimed
 <2>5. m.who = s.who /\ m.whom = s.whom BY <1>4, <1>7 DEF Relations
 <2> QED BY <1>3, <2>2, <2>3, <2>4, <2>5 DEF m
<1>8. CASE s.kind = "friend"
 <2>1. \/ "status" \notin DOMAIN p
       \/ "status" \in DOMAIN p /\ p.status = "rejected"
       \/ op = "accepted"
   BY <1>8 DEF Mends
 <2>2. m.status = s.status \/ m.status = "rejected" \/ op = "accepted" BY <1>5, <2>1
 <2>3. Claim(m) = IF m.status # "rejected" THEN <<m.kind, {m.who, m.whom}>> ELSE <<>>
   BY <1>3, <1>6, <1>8 DEF Claimed
 <2>4. Claim(s) = IF s.status # "rejected" THEN <<s.kind, {s.who, s.whom}>> ELSE <<>>
   BY <1>6, <1>8 DEF Claimed
 <2>5. m.who = s.who /\ m.whom = s.whom BY <1>4, <1>8 DEF Relations
 <2>6. <<m.kind, {m.who, m.whom}>> = <<s.kind, {s.who, s.whom}>> BY <1>3, <2>5
 <2> QED BY <2>2, <2>3, <2>4, <2>6 DEF m, Revivers
<1>9. CASE s.kind \in {"ban", "dj", "breakout"}
 <2>1. "status" \in DOMAIN p /\ p.status \in {"removed", "revoked", "closed"} BY <1>9 DEF Mends
 <2>2. m.status \in {"removed", "revoked", "closed"} BY <1>5, <2>1
 <2>3. Ban(m.who).status = "active" /\ Dj(m.who).status = "active" /\ Breakout(m.who).status = "open"
   BY DEF Ban, Dj, Breakout
 <2>4. m # Ban(m.who) /\ m # Dj(m.who) /\ m # Breakout(m.who) BY <2>2, <2>3
 <2>5. Claim(m) = <<>> BY <1>3, <1>6, <1>9, <2>4 DEF Claimed
 <2> QED BY <2>5 DEF m
<1>10. CASE s.kind = "membership"
 <2>1. \/ "status" \in DOMAIN p /\ p.status = "kicked"
       \/ op \in {"join", "move"}
   BY <1>10 DEF Mends
 <2>2. m.status = "kicked" \/ op \in {"join", "move"} BY <1>5, <2>1
 <2>3. Claim(m) = IF Occupies(m) THEN <<m.kind, m.who>> ELSE <<>> BY <1>3, <1>6, <1>10 DEF Claimed
 <2>4. Claim(s) = IF Occupies(s) THEN <<s.kind, s.who>> ELSE <<>> BY <1>6, <1>10 DEF Claimed
 <2>5. m.status = "kicked" => ~Occupies(m) BY DEF Occupies
 <2>6. m.who = s.who BY <1>4, <1>10
 <2> QED BY <1>3, <2>2, <2>3, <2>4, <2>5, <2>6 DEF m, Revivers
<1>11. CASE s.kind = "profile" BY <1>3, <1>4, <1>6, <1>11 DEF Claimed, m
<1>12. CASE s.kind \in {"review", "appeal"} BY <1>3, <1>4, <1>6, <1>12 DEF Claimed, m
<1>13. CASE s.kind = "player" BY <1>3, <1>6, <1>13 DEF Claimed, m
<1>14. CASE s.kind \notin {"follow", "block", "mute", "friend", "ban", "dj", "breakout", "membership", "profile",
                          "review", "appeal", "player"}
  BY <1>3, <1>6, <1>14 DEF Claimed, m
<1> QED BY <1>7, <1>8, <1>9, <1>10, <1>11, <1>12, <1>13, <1>14

\* What a request has found of a claim, before it adds a record or revives one.
Fresh(j) ==
  /\ j.at = "add" => Claim(j.new) = <<>> \/ Free(Claim(j.new), j.began)
  /\ j.op = "join" /\ j.at = "capacity" => Free(<<"membership", j.who>>, j.began)
  /\ j.op \in Revivers =>
       /\ \A u \in j.todo : Claim(records[u.id]) # <<>> \/ Renewed(u.id, j.began)
       /\ \A r \in j.read : Claim(r.copy) # <<>> \/ Renewed(r.u.id, j.began)

\* A claim that was free is so, or was taken since.
LEMMA FreeStays ==
  ASSUME RowsMove, NEW c, NEW n \in 0..writes, Free(c, n)
  PROVE  Free(c, n)'
  BY HistoryGrows DEF RowsMove, Free

\* What it has found stays right while others take steps.
LEMMA FreshStays ==
  ASSUME RowsMove, writes \in Nat, NEW j, Typed(j), Fresh(j)
  PROVE  Fresh(j)'
<1>1. j.began \in 0..writes BY DEF Typed
<1>2. \A c : Free(c, j.began) => Free(c, j.began)' BY <1>1, FreeStays
<1>3. ASSUME NEW i \in Rows, Renewed(i, j.began) PROVE Renewed(i, j.began)' BY <1>3, HistoryGrows
<1>4. ASSUME NEW i \in Rows PROVE records'[i] = records[i] \/ Renewed(i, j.began)'
  BY <1>1, <1>4 DEF RowsMove
<1>5. /\ \A u \in j.todo : u.id \in Rows
      /\ \A r \in j.read : r.u.id \in Rows
  BY DEF Typed, Mend
<1>6. j.op \in Revivers =>
       /\ \A u \in j.todo : (Claim(records[u.id]) # <<>>)' \/ Renewed(u.id, j.began)'
       /\ \A r \in j.read : Claim(r.copy) # <<>> \/ Renewed(r.u.id, j.began)'
  BY <1>3, <1>4, <1>5 DEF Fresh
<1> QED BY <1>2, <1>6 DEF Fresh

\* Who writes a record that was written since it began, has overtaken.
LEMMA RenewedIsOvertaken ==
  ASSUME NEW i, NEW k, NEW s, s \in trace'[k], NEW n, s.began = n, s.wrote = writes + 1, writes \in Nat, n \in Nat,
         NEW t, t \in trace'[i], t.wrote \in Nat, t.wrote <= writes, t.wrote > n
  PROVE  Overlap(i, k)' /\ Overlap(k, i)'
  BY DEF Overlap, Overtook
-----------------------------
\* Every request has found what it has to before it adds or revives.
FreshInv == \A h \in Handlers : job[h] = Idle \/ Fresh(job[h])

\* Two records that claim the same.
Rivals(i, k) == i # k /\ Claim(records[i]) = Claim(records[k]) /\ Claim(records[i]) # <<>>

\* Neither of two records comes first in a race.
LEMMA RacedBothWays ==
  ASSUME NEW i, NEW k
  PROVE  (Overlap(i, k) => Overlap(k, i)) /\ (Raced(i, k) => Raced(k, i))
  BY DEF Overlap, Raced

\* What is to be shown, said of any two records.
LEMMA OneRecordIs ==
  OneRecord <=> \A i, k \in Rows : Rivals(i, k) => Raced(i, k)
<1>1. ASSUME OneRecord, NEW i \in Rows, NEW k \in Rows, Rivals(i, k) PROVE Raced(i, k)
 <2>1. i < k \/ k < i BY <1>1 DEF Rows, Rivals
 <2>2. CASE i < k BY <1>1, <2>2 DEF OneRecord, Rows, Rivals
 <2>3. CASE k < i
  <3>1. Raced(k, i) BY <1>1, <2>3 DEF OneRecord, Rows, Rivals
  <3> QED BY <3>1, RacedBothWays
 <2> QED BY <2>1, <2>2, <2>3
<1>2. ASSUME \A i, k \in Rows : Rivals(i, k) => Raced(i, k) PROVE OneRecord
 <2> SUFFICES ASSUME NEW i \in Rows, NEW k \in Rows, i < k, Claim(records[i]) = Claim(records[k]),
                     Claim(records[i]) # <<>>
              PROVE  Raced(i, k)
   BY DEF OneRecord, Rows
 <2>1. i # k BY DEF Rows
 <2> QED BY <1>2, <2>1 DEF Rivals
<1> QED BY <1>1, <1>2

\* Who is written by h, after what was renewed since h began, has raced it.
LEMMA WriterOvertakes ==
  ASSUME Inv1, NEW h \in Handlers, Typed(job[h]), NEW k, Span(h) \in trace'[k],
         \A i \in Rows : trace[i] \subseteq trace'[i]
  PROVE  \A i \in Rows : Renewed(i, job[h].began) => Overlap(i, k)' /\ Overlap(k, i)'
<1> SUFFICES ASSUME NEW i \in Rows, Renewed(i, job[h].began) PROVE Overlap(i, k)' /\ Overlap(k, i)' OBVIOUS
<1>1. PICK t \in trace[i] : t.wrote > job[h].began BY DEF Renewed
<1>2. t \in trace'[i] /\ t.wrote \in Nat /\ t.wrote <= writes /\ writes \in Nat BY DEF Inv1, StoreTyped
<1>3. Span(h).began = job[h].began /\ Span(h).wrote = writes + 1 /\ job[h].began \in Nat BY DEF Span, Typed
<1> QED BY <1>1, <1>2, <1>3, RenewedIsOvertaken

\* The row that h writes rivals another only if it did before, or has raced it.
LEMMA NewRivals ==
  ASSUME Inv1, Inv1', FreshInv, NEW h \in Handlers, Adds1(h) \/ Writes1(h), NEW k \in Rows', NEW i \in Rows, i # k,
         records'[i] = records[i], Rivals(i, k)', Span(h) \in trace'[k],
         \A n \in Rows : trace[n] \subseteq trace'[n],
         \/ k \notin Rows /\ job[h].at = "add" /\ records'[k] = job[h].new
         \/ /\ k \in Rows /\ job[h].at = "update"
            /\ \E r \in job[h].read : /\ r.u.id = k /\ Mend(job[h], r.u, job[h].then) /\ Copied(r)
                                      /\ records'[k] = Merge(r.copy, r.u.patch)
  PROVE  (k \in Rows /\ Rivals(i, k)) \/ Overlap(i, k)' \/ Disordered(k)'
<1> DEFINE j == job[h]
<1>1. Typed(j) /\ Fresh(j) BY DEF Adds1, Writes1, FreshInv
<1>2. \A n \in Rows : Renewed(n, j.began) => Overlap(n, k)' /\ Overlap(k, n)' BY <1>1, WriterOvertakes
<1>3. Claim(records[i]) = Claim(records'[k]) /\ Claim(records[i]) # <<>> BY DEF Rivals
<1>4. CASE k \notin Rows /\ j.at = "add" /\ records'[k] = j.new
 <2>1. Free(Claim(j.new), j.began) BY <1>1, <1>3, <1>4 DEF Fresh
 <2>2. Renewed(i, j.began) BY <1>3, <1>4, <2>1 DEF Free
 <2> QED BY <1>2, <2>2
<1>5. CASE /\ k \in Rows /\ j.at = "update"
           /\ \E r \in j.read : /\ r.u.id = k /\ Mend(j, r.u, j.then) /\ Copied(r)
                                /\ records'[k] = Merge(r.copy, r.u.patch)
 <2>1. PICK r \in j.read : /\ r.u.id = k /\ Mend(j, r.u, j.then) /\ Copied(r)
                           /\ records'[k] = Merge(r.copy, r.u.patch)
   BY <1>5
 <2>2. Mends(j.op, r.copy.kind, r.u.patch, j.then) /\ WellFormed(r.copy) BY <2>1 DEF Mend, Copied, SameRow
 <2>3. Claim(records'[k]) \in {<<>>, Claim(r.copy)} \/ (j.op \in Revivers /\ Claim(r.copy) = <<>>)
   BY <2>1, <2>2, PatchedClaim
 <2>4. r.copy = records[k] \/ Renewed(k, j.began) BY <1>1, <1>5, <2>1 DEF Typed, Dated
 <2>5. CASE Renewed(k, j.began) BY <1>2, <1>5, <2>5 DEF Disordered
 <2>6. CASE j.op \in Revivers /\ Claim(r.copy) = <<>>
  <3>1. Renewed(k, j.began) BY <1>1, <2>1, <2>6 DEF Fresh
  <3> QED BY <2>5, <3>1
 <2>7. CASE r.copy = records[k] /\ Claim(records'[k]) = Claim(r.copy) BY <1>3, <1>5, <2>7 DEF Rivals
 <2> QED BY <1>3, <2>3, <2>4, <2>5, <2>6, <2>7
<1> QED BY <1>4, <1>5 DEF j

\* A step of a request that has found what it has to leaves one record of each claim.
LEMMA OneRecordKeeps ==
  ASSUME Inv1, FreshInv, OneRecord, [PlatformNext]_platformVars
  PROVE  OneRecord'
<1>1. Inv1' /\ RowsMove BY Inv1Keeps, RowsMoveOn
<1>2. \A i, k \in Rows : Raced(i, k) => Raced(i, k)' BY <1>1, HistoryGrows DEF Raced
<1>3. CASE records' = records /\ trace' = trace BY <1>3 DEF OneRecord, Raced, Disordered, Overlap
<1>4. ASSUME NEW h \in Handlers, Adds1(h) \/ Writes1(h) PROVE OneRecord'
 <2>1. PICK k \in Rows' :
         /\ \A i \in Rows' : i # k => i \in Rows /\ records'[i] = records[i] /\ trace'[i] = trace[i]
         /\ Span(h) \in trace'[k]
         /\ \A i \in Rows : i \in Rows' /\ trace[i] \subseteq trace'[i]
         /\ \/ k \notin Rows /\ job[h].at = "add" /\ records'[k] = job[h].new
            \/ /\ k \in Rows /\ job[h].at = "update"
               /\ \E r \in job[h].read : /\ r.u.id = k /\ Mend(job[h], r.u, job[h].then) /\ Copied(r)
                                         /\ records'[k] = Merge(r.copy, r.u.patch)
  <3>1. \E k \in Rows' :
          /\ \A i \in Rows' : i # k => i \in Rows /\ records'[i] = records[i] /\ trace'[i] = trace[i]
          /\ Span(h) \in trace'[k]
          /\ \A i \in Rows : i \in Rows' /\ trace[i] \subseteq trace'[i]
          /\ \A s \in trace'[k] : s = Span(h) \/ (k \in Rows /\ s \in trace[k])
          /\ \/ k \notin Rows /\ job[h].at = "add" /\ records'[k] = job[h].new
             \/ /\ k \in Rows /\ job[h].at = "update"
                /\ \E r \in job[h].read : /\ r.u.id = k /\ Mend(job[h], r.u, job[h].then) /\ Copied(r)
                                          /\ records'[k] = Merge(r.copy, r.u.patch)
    BY <1>1, <1>4, RowsAfter
  <3> QED BY <3>1, Zenon
 <2>2. ASSUME NEW i \in Rows', i # k, Rivals(i, k)' PROVE Raced(i, k)'
  <3>1. i \in Rows /\ records'[i] = records[i] BY <2>1, <2>2
  <3>2. (k \in Rows /\ Rivals(i, k)) \/ Overlap(i, k)' \/ Disordered(k)'
    BY <1>1, <1>4, <2>1, <2>2, <3>1, NewRivals
  <3>3. CASE k \in Rows /\ Rivals(i, k)
   <4>1. Raced(i, k) BY <3>1, <3>3, OneRecordIs
   <4> QED BY <1>2, <3>1, <3>3, <4>1
  <3> QED BY <3>2, <3>3 DEF Raced
 <2>3. \A i, n : Rivals(i, n)' => Rivals(n, i)' /\ i # n BY DEF Rivals
 <2>4. \A i, n : Raced(i, n)' => Raced(n, i)' BY DEF Raced, Overlap
 <2>5. ASSUME NEW i \in Rows', NEW n \in Rows', Rivals(i, n)' PROVE Raced(i, n)'
  <3>1. CASE n = k BY <2>2, <2>3, <2>5, <3>1
  <3>2. CASE i = k BY <2>2, <2>3, <2>4, <2>5, <3>2
  <3>3. CASE i # k /\ n # k
   <4>1. i \in Rows /\ n \in Rows /\ records'[i] = records[i] /\ records'[n] = records[n] BY <2>1, <3>3
   <4>2. Rivals(i, n) BY <2>5, <4>1 DEF Rivals
   <4> QED BY <1>2, <4>1, <4>2, OneRecordIs
  <3> QED BY <3>1, <3>2, <3>3
 <2>6. ASSUME NEW i \in Rows', NEW n \in Rows', i < n PROVE i # n BY <2>6 DEF Rows
 <2> QED BY <2>5, <2>6 DEF OneRecord, Rivals, Rows
<1> QED BY <1>3, <1>4, RowSteps
-----------------------------
\* What is looked for and is not there, nobody claims.
LEMMA NoRelation ==
  ASSUME Inv1, NEW kind \in {"follow", "block", "mute"}, NEW a, NEW b, ActiveRelation(kind, a, b) = 0, NEW n
  PROVE  Free(Claim(Relation(kind, "active", a, b)), n)
<1>1. Len(records) \in Nat BY SequencePlaces DEF Inv1, StoreTyped
<1>2. Sought({i \in 1..Len(records) : IsRelation(records[i], kind, "active", a, b)}, ActiveRelation(kind, a, b))
  BY <1>1, ActiveRelationFound
<1>3. Claimed(Relation(kind, "active", a, b)) BY ClaimsOfKinds
<1>4. Claim(Relation(kind, "active", a, b)) = <<kind, a, b>> BY <1>3 DEF Claimed, Relation
<1>5. ASSUME NEW i \in Rows, Claim(records[i]) = <<kind, a, b>> PROVE IsRelation(records[i], kind, "active", a, b)
 <2>1. Claimed(records[i]) /\ records[i].kind = kind BY <1>5, ClaimsOfKinds, ClaimNamesKind
 <2> QED BY <1>5, <2>1 DEF Claimed, IsRelation
<1> QED BY <1>1, <1>2, <1>4, <1>5 DEF Sought, Free, Rows

\* No friendship was found: none is claimed.
LEMMA NoFriend ==
  ASSUME Inv1, NEW a, NEW b, FriendRecord(a, b) = 0, NEW n
  PROVE  Free(Claim(Relation("friend", "pending", a, b)), n)
<1>1. Len(records) \in Nat BY SequencePlaces DEF Inv1, StoreTyped
<1>2. Sought({i \in 1..Len(records) : records[i].kind = "friend" /\ records[i].status # "rejected"
                                      /\ {records[i].who, records[i].whom} = {a, b}}, FriendRecord(a, b))
  BY <1>1, FriendRecordFound
<1>3. Claimed(Relation("friend", "pending", a, b)) BY ClaimsOfKinds
<1>4. Claim(Relation("friend", "pending", a, b)) = <<"friend", {a, b}>> BY <1>3 DEF Claimed, Relation
<1>5. \A r : Claim(r) = <<"friend", {a, b}>> => r.kind = "friend" /\ r.status # "rejected"
        /\ {r.who, r.whom} = {a, b}
  BY ClaimantsAre, ZenonT(60)
<1>6. ASSUME NEW i \in Rows, Claim(records[i]) = <<"friend", {a, b}>> PROVE FALSE
 <2>1. records[i].kind = "friend" /\ records[i].status # "rejected" /\ {records[i].who, records[i].whom} = {a, b}
   BY <1>5, <1>6
 <2> QED BY <1>1, <1>2, <2>1 DEF Sought, Rows
<1> QED BY <1>4, <1>6 DEF Free

\* No ban was found.
LEMMA NoBan ==
  ASSUME Inv1, NEW a, ActiveBan(a) = 0, NEW n
  PROVE  Free(Claim(Ban(a)), n)
<1>1. Len(records) \in Nat BY SequencePlaces DEF Inv1, StoreTyped
<1>2. Sought({i \in 1..Len(records) : records[i] = Ban(a)}, ActiveBan(a)) BY <1>1, ActiveBanFound
<1>3. Claimed(Ban(a)) BY ClaimsOfKinds
<1>4. Claim(Ban(a)) = <<"ban", a>> BY <1>3 DEF Claimed, Ban
<1>5. \A i \in Rows : Claim(records[i]) = <<"ban", a>> => records[i] = Ban(a) BY ClaimantsAre
<1> QED BY <1>1, <1>2, <1>4, <1>5 DEF Sought, Free, Rows

\* No right to the music was found.
LEMMA NoDj ==
  ASSUME Inv1, NEW a, ActiveDj(a) = 0, NEW n
  PROVE  Free(Claim(Dj(a)), n)
<1>1. Len(records) \in Nat BY SequencePlaces DEF Inv1, StoreTyped
<1>2. Sought({i \in 1..Len(records) : records[i] = Dj(a)}, ActiveDj(a)) BY <1>1, ActiveDjFound
<1>3. Claimed(Dj(a)) BY ClaimsOfKinds
<1>4. Claim(Dj(a)) = <<"dj", a>> BY <1>3 DEF Claimed, Dj
<1>5. \A i \in Rows : Claim(records[i]) = <<"dj", a>> => records[i] = Dj(a) BY ClaimantsAre
<1> QED BY <1>1, <1>2, <1>4, <1>5 DEF Sought, Free, Rows

\* No breakout room was found.
LEMMA NoBreakout ==
  ASSUME Inv1, NEW a, Find(LAMBDA r : r = Breakout(a)) = 0, NEW n
  PROVE  Free(Claim(Breakout(a)), n)
<1> DEFINE S == {i \in 1..Len(records) : records[i] = Breakout(a)}
<1>1. Len(records) \in Nat BY SequencePlaces DEF Inv1, StoreTyped
<1>2. Find(LAMBDA r : r = Breakout(a)) = IF S = {} THEN 0 ELSE CHOOSE i \in S : \A j \in S : i <= j
  BY Zenon DEF Find, Where
<1>3. Sought(S, IF S = {} THEN 0 ELSE CHOOSE i \in S : \A j \in S : i <= j)
 <2>1. S \subseteq 1..Len(records) OBVIOUS
 <2> HIDE DEF S
 <2> QED BY <1>1, <2>1, SearchFinds
<1>4. Claimed(Breakout(a)) BY ClaimsOfKinds
<1>5. Claim(Breakout(a)) = <<"breakout", a>> BY <1>4 DEF Claimed, Breakout
<1>6. \A i \in Rows : Claim(records[i]) = <<"breakout", a>> => records[i] = Breakout(a) BY ClaimantsAre
<1>7. S = {} BY <1>1, <1>2, <1>3 DEF Sought
<1> QED BY <1>5, <1>6, <1>7 DEF Free, Rows

\* No membership was found.
LEMMA NoMembership ==
  ASSUME Inv1, NEW a, ActiveMembership(a) = 0, NEW n
  PROVE  Free(<<"membership", a>>, n)
<1>1. Len(records) \in Nat BY SequencePlaces DEF Inv1, StoreTyped
<1>2. Sought({i \in 1..Len(records) : Occupies(records[i]) /\ records[i].who = a}, ActiveMembership(a))
  BY <1>1, ActiveMembershipFound
<1>3. \A i \in Rows : Claim(records[i]) = <<"membership", a>> => Occupies(records[i]) /\ records[i].who = a
  BY ClaimantsAre
<1> QED BY <1>1, <1>2, <1>3 DEF Sought, Free, Rows

\* No profile was found.
LEMMA NoProfile ==
  ASSUME Inv1, NEW r, r.kind = "profile", Profile(r.who) = 0, NEW n
  PROVE  Free(Claim(r), n)
<1>1. Len(records) \in Nat BY SequencePlaces DEF Inv1, StoreTyped
<1>2. Sought({i \in 1..Len(records) : records[i].kind = "profile" /\ records[i].who = r.who}, Profile(r.who))
  BY <1>1, ProfileFound
<1>3. Claimed(r) BY ClaimsOfKinds
<1>4. Claim(r) = <<"profile", r.who>> BY <1>3 DEF Claimed
<1>5. \A i \in Rows : Claim(records[i]) = <<"profile", r.who>> => records[i].kind = "profile"
        /\ records[i].who = r.who
  BY ClaimantsAre
<1> QED BY <1>1, <1>2, <1>4, <1>5 DEF Sought, Free, Rows

\* No review of a report was found.
LEMMA NoReview ==
  ASSUME Inv1, NEW a, NEW k, NEW status, NEW decision, ReviewOf(k) = 0, NEW n
  PROVE  Free(Claim(Review(a, k, status, decision)), n)
<1>1. Len(records) \in Nat BY SequencePlaces DEF Inv1, StoreTyped
<1>2. Sought({i \in 1..Len(records) : records[i].kind = "review" /\ records[i].of = k}, ReviewOf(k))
  BY <1>1, ReviewOfFound
<1>3. Claimed(Review(a, k, status, decision)) BY ClaimsOfKinds
<1>4. Claim(Review(a, k, status, decision)) = <<"review", k>> BY <1>3 DEF Claimed, Review
<1>5. \A i \in Rows : Claim(records[i]) = <<"review", k>> => records[i].kind = "review" /\ records[i].of = k
  BY ClaimantsAre
<1> QED BY <1>1, <1>2, <1>4, <1>5 DEF Sought, Free, Rows

\* No appeal of a review was found.
LEMMA NoAppeal ==
  ASSUME Inv1, NEW a, NEW k, Find(LAMBDA r : r.kind = "appeal" /\ r.of = k) = 0, NEW n
  PROVE  Free(Claim(Appeal(a, k)), n)
<1> DEFINE S == {i \in 1..Len(records) : records[i].kind = "appeal" /\ records[i].of = k}
<1>1. Len(records) \in Nat BY SequencePlaces DEF Inv1, StoreTyped
<1>2. Find(LAMBDA r : r.kind = "appeal" /\ r.of = k) = IF S = {} THEN 0 ELSE CHOOSE i \in S : \A j \in S : i <= j
  BY Zenon DEF Find, Where
<1>3. Sought(S, IF S = {} THEN 0 ELSE CHOOSE i \in S : \A j \in S : i <= j)
 <2>1. S \subseteq 1..Len(records) OBVIOUS
 <2> HIDE DEF S
 <2> QED BY <1>1, <2>1, SearchFinds
<1>4. Claimed(Appeal(a, k)) BY ClaimsOfKinds
<1>5. Claim(Appeal(a, k)) = <<"appeal", k>> BY <1>4 DEF Claimed, Appeal
<1>6. \A i \in Rows : Claim(records[i]) = <<"appeal", k>> => records[i].kind = "appeal" /\ records[i].of = k
  BY ClaimantsAre
<1>7. S = {} BY <1>1, <1>2, <1>3 DEF Sought
<1> QED BY <1>5, <1>6, <1>7 DEF Free, Rows

\* No player was found.
LEMMA NoPlayer ==
  ASSUME Inv1, Find(LAMBDA r : r.kind = "player") = 0, NEW n
  PROVE  Free(Claim(NewPlayer), n)
<1> DEFINE S == {i \in 1..Len(records) : records[i].kind = "player"}
<1>1. Len(records) \in Nat BY SequencePlaces DEF Inv1, StoreTyped
<1>2. Find(LAMBDA r : r.kind = "player") = IF S = {} THEN 0 ELSE CHOOSE i \in S : \A j \in S : i <= j
  BY Zenon DEF Find, Where
<1>3. Sought(S, IF S = {} THEN 0 ELSE CHOOSE i \in S : \A j \in S : i <= j)
 <2>1. S \subseteq 1..Len(records) OBVIOUS
 <2> HIDE DEF S
 <2> QED BY <1>1, <2>1, SearchFinds
<1>4. Claimed(NewPlayer) BY ClaimsOfKinds
<1>5. Claim(NewPlayer) = <<"player">> BY <1>4 DEF Claimed, NewPlayer
<1>6. \A i \in Rows : Claim(records[i]) = <<"player">> => records[i].kind = "player" BY ClaimantsAre
<1>7. S = {} BY <1>1, <1>2, <1>3 DEF Sought
<1> QED BY <1>5, <1>6, <1>7 DEF Free, Rows
-----------------------------
\* Requests that add a record that claims something.
Claimers == {"follow", "friend", "block", "mute", "privacy", "join", "ban", "create", "grant", "review",
  "appeal"} \cup Players

\* A request from which nothing has to have been found.
Plain(k) ==
  /\ k.at = "add" => k.op \notin Claimers
  /\ k.at = "capacity" => k.op # "join"
  /\ k.at = "update" => k.op \notin Revivers

\* What other requests add claims nothing.
LEMMA OthersClaimNothing ==
  ASSUME NEW j, NEW then, NewRow(j, j.new, then), j.op \notin Claimers
  PROVE  Claim(j.new) = <<>>
<1>1. \/ j.new = Seat(j.who) \/ j.new = Logged(j.op, j.to) \/ j.new = Attending(j.who, j.key)
      \/ \E n \in Nat : j.new = Track(j.who, n)
      \/ j.new = Ticket(j.who) \/ j.new = Report(j.who, j.key)
  BY DEF NewRow, Claimers
<1>2. j.new.kind \in {"seat", "log", "attendance", "track", "ticket", "report"}
 <2>1. \A a, b : /\ Seat(a).kind = "seat" /\ Logged(a, b).kind = "log" /\ Attending(a, b).kind = "attendance"
                 /\ Track(a, b).kind = "track" /\ Ticket(a).kind = "ticket" /\ Report(a, b).kind = "report"
   BY DEF Seat, Logged, Attending, Track, Ticket, Report
 <2> QED BY <1>1, <2>1
<1>3. Claimed(j.new) BY ClaimsOfKinds
<1> QED BY <1>2, <1>3 DEF Claimed

\* There is nothing a plain request has to find.
LEMMA PlainIsFresh ==
  ASSUME NEW k, Typed(k), Plain(k)
  PROVE  Fresh(k)
<1>1. k.at = "add" => Claim(k.new) = <<>> BY OthersClaimNothing DEF Typed, Plain
<1>2. k.op \in Revivers => k.todo = {} /\ k.read = {} BY DEF Typed, Plain
<1> QED BY <1>1, <1>2 DEF Fresh, Plain

\* Who is to add a record has found that its claim is free.
LEMMA AddingIsFresh ==
  ASSUME NEW k, Typed(k), k.at = "add", Claim(k.new) = <<>> \/ Free(Claim(k.new), k.began)
  PROVE  Fresh(k)
<1>1. k.todo = {} /\ k.read = {} BY DEF Typed
<1> QED BY <1>1 DEF Fresh

\* Who takes a step is idle then, or carries what a request of its kind does.
LEMMA ActorsAreTyped ==
  ASSUME Inv1, NEW h \in Handlers, NEW ops, Acts(h, ops)
  PROVE  job'[h] = Idle \/ Typed(job'[h])
  BY DEF Acts, Turned, Inv1, JobsTyped

\* h is idle then, or has found what it has to.
Freshened(h) == job'[h] = Idle \/ Fresh(job'[h])

\* Three ways to have found what it has to.
LEMMA GoesFresh ==
  ASSUME Inv1, NEW h \in Handlers, NEW ops, Acts(h, ops), NEW k, Become(h, k) \/ Begin(h, k),
         \/ Plain(k)
         \/ k.at = "add" /\ (Claim(k.new) = <<>> \/ Free(Claim(k.new), k.began))
         \/ Fresh(k)
  PROVE  Freshened(h)
<1>1. job'[h] = Idle \/ (job'[h] = k /\ Typed(k)) BY BecomesThat, ActorsAreTyped
<1> QED BY <1>1, PlainIsFresh, AddingIsFresh DEF Freshened

\* A request of another kind has nothing to find.
LEMMA OtherKindsAreFresh ==
  ASSUME Inv1, FreshInv, NEW h \in Handlers, NEW ops, Acts(h, ops), ops \cap (Claimers \cup Revivers) = {}
  PROVE  Freshened(h)
<1>1. CASE job'[h] = Idle \/ job'[h] = job[h] BY <1>1 DEF FreshInv, Freshened
<1>2. CASE Typed(job'[h]) /\ job'[h].op \in ops
 <2>1. job'[h].op \notin Claimers /\ job'[h].op \notin Revivers BY <1>2
 <2>2. Plain(job'[h]) BY <2>1 DEF Plain, Claimers
 <2> QED BY <1>2, <2>2, PlainIsFresh DEF Freshened
<1> QED BY <1>1, <1>2 DEF Acts, Turned

\* What is carried on the way to adding a record.
LEMMA NewOnes ==
  ASSUME NEW j, NEW r, NEW at, Basic(j)
  PROVE  /\ Adding(j, r, at).op = j.op /\ Adding(j, r, at).at = "add"
         /\ Adding(j, r, at).new = r /\ Adding(j, r, at).began = j.began
  BY DEF Adding, Merge, Basic

\* Who goes on to add a record.
LEMMA AddsFresh ==
  ASSUME Inv1, NEW h \in Handlers, NEW ops, Acts(h, ops), NEW j, Basic(j), NEW r, NEW at,
         Become(h, Adding(j, r, at)) \/ Begin(h, Adding(j, r, at)),
         \/ Claim(r) = <<>>
         \/ \A n : Free(Claim(r), n)
         \/ j.op \notin Claimers
  PROVE  Freshened(h)
<1>1. PICK k : k = Adding(j, r, at) OBVIOUS
<1>2. k.op = j.op /\ k.at = "add" /\ k.new = r /\ k.began = j.began BY <1>1, NewOnes
<1>3. j.op \notin Claimers => Plain(k) BY <1>2 DEF Plain
<1> QED BY <1>1, <1>2, <1>3, GoesFresh

\* Who goes on to change records.
LEMMA UpdatesFresh ==
  ASSUME Inv1, NEW h \in Handlers, NEW ops, Acts(h, ops), NEW j, Basic(j), NEW todo, NEW at,
         Become(h, Updating(j, todo, at)) \/ Begin(h, Updating(j, todo, at)), j.op \notin Revivers,
           at \notin {"add", "capacity"}
  PROVE  Freshened(h)
<1>1. PICK k : k = Updating(j, todo, at) OBVIOUS
<1>2. k.op = j.op /\ k.at \in {at, "update"} BY <1>1 DEF Updating, Basic
<1>3. Plain(k)
 <2>1. k.at = "update" => k.op \notin Revivers BY <1>2
 <2>2. k.at \notin {"add", "capacity"} BY <1>2
 <2> QED BY <2>1, <2>2 DEF Plain
<1> QED BY <1>1, <1>3, GoesFresh

\* Who goes on with what it carries.
LEMMA StaysFresh ==
  ASSUME Inv1, NEW h \in Handlers, NEW ops, Acts(h, ops), NEW j, Basic(j), NEW at,
         Become(h, [j EXCEPT !.at = at]), at \notin {"add", "update"}, at = "capacity" => j.op # "join"
  PROVE  Freshened(h)
<1>1. PICK k : k = [j EXCEPT !.at = at] OBVIOUS
<1>2. k.op = j.op /\ k.at = at BY <1>1 DEF Basic
<1>3. Plain(k) BY <1>2 DEF Plain
<1> QED BY <1>1, <1>3, GoesFresh
-----------------------------
\* Steps at which nothing is added or changed.
Restful == {"end", "find", "hear", "notify", "preferences", "devices", "push", "prune", "mark", "profile", "banned",
            "member", "evict", "log", "dismiss", "dj", "count", "may", "reindex", "order", "player", "pause",
            "volume", "play", "previous", "show", "start", "advance", "answer", "review", "appeal"}

\* Who goes on to a step at which nothing is added or changed.
LEMMA RestsFresh ==
  ASSUME Inv1, NEW h \in Handlers, NEW ops, Acts(h, ops), NEW k, Become(h, k) \/ Begin(h, k), k.at \in Restful
  PROVE  Freshened(h)
<1>1. Plain(k) BY DEF Plain, Restful
<1> QED BY <1>1, GoesFresh

\* A request that begins with such a step.
LEMMA RequestsRest ==
  ASSUME Inv1, NEW h \in Handlers, NEW ops, Acts(h, ops), NEW op, NEW a, NEW key, NEW at \in Restful,
         \/ Begin(h, Request(op, a, key, at))
         \/ \E to, category : Begin(h, Telling(Request(op, a, key, at), to, category))
         \/ \E more : "at" \notin DOMAIN more /\ Begin(h, Merge(Request(op, a, key, at), more))
  PROVE  Freshened(h)
<1>1. Request(op, a, key, at).at = at BY RequestIs
<1>2. \A to, category : Telling(Request(op, a, key, at), to, category).at = at BY RequestIs, TellingIs
<1>3. \A more : "at" \notin DOMAIN more => Merge(Request(op, a, key, at), more).at = at
  BY DEF Request, Merge
<1> QED BY <1>1, <1>2, <1>3, RestsFresh

\* A request that notifies, or is about notifications.
LEMMA NoticeFresh ==
  ASSUME Inv1, FreshInv, NEW h \in Handlers, Notifies(h), Acts(h, NoticeOps)
  PROVE  Freshened(h)
<1> DEFINE j == job[h]
<1>1. j.at \in {"notify", "preferences", "devices", "push", "prune", "mark"} => Basic(j) BY AtWork
<1>2. ASSUME NEW at \in {"end", "preferences", "devices"}, Basic(j),
             Become(h, [j EXCEPT !.at = at]) PROVE Freshened(h)
  BY <1>2, StaysFresh
<1>3. CASE CreateNotification(h)
 <2>1. j.at = "notify" /\ Become(h, [j EXCEPT !.at = "preferences"]) BY <1>3 DEF CreateNotification
 <2> QED BY <1>1, <1>2, <2>1
<1>4. CASE ReadPreferences(h)
 <2>1. j.at = "preferences"
       /\ Become(h, [j EXCEPT !.at = IF j.category \in Muteable \cap muted[j.to] THEN "end" ELSE "devices"])
   BY <1>4 DEF ReadPreferences
 <2>2. PICK at : at = (IF j.category \in Muteable \cap muted[j.to] THEN "end" ELSE "devices") OBVIOUS
 <2>3. at \in {"end", "preferences", "devices"} BY <2>2
 <2> QED BY <1>1, <1>2, <2>1, <2>2, <2>3
<1>5. CASE ListDevices(h)
 <2>1. j.at = "devices" BY <1>5 DEF ListDevices
 <2>2. PICK tokens, at : at \in {"end", "push"} /\ Become(h, Merge(j, [tokens |-> tokens, at |-> at]))
   BY <1>5, Zenon DEF ListDevices
 <2>3. Merge(j, [tokens |-> tokens, at |-> at]).at = at BY <1>1, <2>1 DEF Merge, Basic
 <2> QED BY <2>2, <2>3, RestsFresh DEF Restful
<1>6. CASE Push(h) \/ Prune(h)
 <2>1. j.at \in {"push", "prune"}
  <3>1. Push(h) => j.at = "push" BY Zenon DEF Push
  <3>2. Prune(h) => j.at = "prune" BY Zenon DEF Prune
  <3> QED BY <1>6, <3>1, <3>2
 <2>2. \E tokens, at : at \in {"end", "prune"} /\ Become(h, [j EXCEPT !.tokens = tokens, !.at = at])
  <3>1. CASE Push(h)
   <4>1. PICK invalid : Become(h, [j EXCEPT !.tokens = invalid, !.at = IF invalid = {} THEN "end" ELSE "prune"])
     BY <3>1, Zenon DEF Push
   <4>2. (IF invalid = {} THEN "end" ELSE "prune") \in {"end", "prune"} OBVIOUS
   <4> QED BY <4>1, <4>2, Zenon
  <3>2. CASE Prune(h)
   <4>1. PICK t : Become(h, [j EXCEPT !.tokens = @ \ {t}, !.at = IF j.tokens = {t} THEN "end" ELSE "prune"])
     BY <3>2, Zenon DEF Prune
   <4>2. (IF j.tokens = {t} THEN "end" ELSE "prune") \in {"end", "prune"} OBVIOUS
   <4> QED BY <4>1, <4>2, Zenon
  <3> QED BY <1>6, <3>1, <3>2, Zenon
 <2>3. PICK tokens, at : at \in {"end", "prune"} /\ Become(h, [j EXCEPT !.tokens = tokens, !.at = at])
   BY <2>2, Zenon
 <2>4. \A k : k = [j EXCEPT !.tokens = tokens, !.at = at] => k.at = at BY <1>1, <2>1 DEF Basic
 <2> QED BY <2>3, <2>4, RestsFresh DEF Restful
<1>7. CASE MarkRead(h)
 <2>1. Become(h, [j EXCEPT !.at = "end"]) /\ j.at = "mark" BY <1>7 DEF MarkRead, Doing
 <2> QED BY <1>1, <1>2, <2>1
<1>8. CASE Once(h) BY <1>8 DEF Once, FreshInv, Freshened
<1>9. CASE \E a, n : StartRead(h, a, n) BY <1>9, RequestsRest DEF StartRead, Restful
<1>10. CASE \E a, n : Redeliver(h, a, n) BY <1>10, RequestsRest DEF Redeliver, Restful
<1>11. NoticeRequest(h) => Once(h) \/ (\E a, n : StartRead(h, a, n)) \/ (\E a, n : Redeliver(h, a, n))
  BY DEF NoticeRequest, MarkAllRead, SetPreferences, RegisterDevice, RemoveDevice
<1> QED BY <1>3, <1>4, <1>5, <1>6, <1>7, <1>8, <1>9, <1>10, <1>11 DEF NotifyStep, Notifies

\* A request that follows, befriends, blocks, mutes or answers.
LEMMA SocialFresh ==
  ASSUME Inv1, NEW h \in Handlers, Mingles(h), NEW ops, Acts(h, ops)
  PROVE  Freshened(h)
<1> DEFINE j == job[h]
<1>1. j.at \in {"find", "hear"} => Basic(j) BY AtWork
<1>2. ASSUME NEW op, NEW a, NEW b, StartRelation(h, op, a, b) PROVE Freshened(h)
  BY <1>2, RequestsRest DEF StartRelation, Ask, Restful
<1>3. CASE FindFollow(h)
 <2>1. j.at = "find"
       /\ Become(h, IF ActiveRelation("follow", j.who, j.to) # 0 THEN [j EXCEPT !.at = "end"]
                    ELSE Adding(j, Relation("follow", "active", j.who, j.to), "hear"))
   BY <1>3 DEF FindFollow, Doing
 <2>2. CASE ActiveRelation("follow", j.who, j.to) # 0 BY <1>1, <2>1, <2>2, StaysFresh
 <2>3. CASE ActiveRelation("follow", j.who, j.to) = 0
  <3>1. \A n : Free(Claim(Relation("follow", "active", j.who, j.to)), n) BY <2>3, NoRelation
  <3> QED BY <1>1, <2>1, <2>3, <3>1, AddsFresh
 <2> QED BY <2>2, <2>3
<1>4. CASE FindFriend(h)
 <2>1. j.at = "find"
       /\ Become(h, IF FriendRecord(j.who, j.to) # 0 THEN [j EXCEPT !.at = "end"]
                    ELSE Adding(j, Relation("friend", "pending", j.who, j.to), "hear"))
   BY <1>4 DEF FindFriend, Doing
 <2>2. CASE FriendRecord(j.who, j.to) # 0 BY <1>1, <2>1, <2>2, StaysFresh
 <2>3. CASE FriendRecord(j.who, j.to) = 0
  <3>1. \A n : Free(Claim(Relation("friend", "pending", j.who, j.to)), n) BY <2>3, NoFriend
  <3> QED BY <1>1, <2>1, <2>3, <3>1, AddsFresh
 <2> QED BY <2>2, <2>3
<1>5. CASE Hear(h)
 <2>1. j.at = "hear"
       /\ Become(h, [j EXCEPT !.at = IF ActiveRelation("mute", j.to, j.who) # 0 THEN "end" ELSE "notify"])
   BY <1>5 DEF Hear
 <2>2. PICK at : at = (IF ActiveRelation("mute", j.to, j.who) # 0 THEN "end" ELSE "notify") OBVIOUS
 <2>3. at \in {"end", "notify"} BY <2>2
 <2> QED BY <1>1, <2>1, <2>2, <2>3, StaysFresh
<1>6. ASSUME NEW a, NEW i, NEW status \in {"accepted", "rejected"}, Answer(h, a, i, status) PROVE Freshened(h)
 <2> DEFINE q == Ask(status, a, records[i].who, "update")
            todo == {Update(i, [status |-> status])}
 <2>1. PICK then : Begin(h, Updating(q, todo, then)) /\ then \in {"hear", "end"} BY <1>6 DEF Answer
 <2>2. Basic(q) /\ q.op = status /\ q.read = {}
  <3>1. Basic(q) /\ q.op = status BY RequestIs, TellingIs DEF Ask
  <3>2. q.read = {} BY DEF Ask, Telling, Request, Merge
  <3> QED BY <3>1, <3>2
 <2>3. records[i].kind = "friend" /\ records[i].status = "pending" BY <1>6 DEF Answer
 <2>4. Claim(records[i]) # <<>> BY <2>3, ClaimsOfKinds DEF Claimed
 <2>5. \A k : k = Updating(q, todo, then) => k.todo = todo /\ k.read = {} /\ k.at = "update"
  <3>1. todo # {} OBVIOUS
  <3> HIDE DEF todo, q
  <3> QED BY <2>2, <3>1 DEF Updating, Basic
 <2>6. \A u \in todo : u.id = i BY DEF Update
 <2> HIDE DEF q, todo
 <2>7. \A k : k = Updating(q, todo, then) => Fresh(k) BY <2>4, <2>5, <2>6 DEF Fresh
 <2> QED BY <2>1, <2>7, GoesFresh
<1>7. ASSUME NEW kind \in {"block", "mute"}, NEW a, NEW b, Bar(h, kind, a, b) PROVE Freshened(h)
 <2>1. Begin(h, Adding(Request(kind, a, b, "add"), Relation(kind, "active", a, b), "end"))
         /\ ActiveRelation(kind, a, b) = 0
   BY <1>7 DEF Bar
 <2>2. \A n : Free(Claim(Relation(kind, "active", a, b)), n) BY <2>1, NoRelation
 <2>3. Basic(Request(kind, a, b, "add")) BY RequestIs
 <2> QED BY <2>1, <2>2, <2>3, AddsFresh
<1>8. ASSUME NEW op, op \notin Revivers, NEW a, NEW key, NEW todo,
             Begin(h, Updating(Request(op, a, key, "update"), todo, "end"))
      PROVE  Freshened(h)
 <2>1. Basic(Request(op, a, key, "update")) /\ Request(op, a, key, "update").op = op BY RequestIs
 <2> QED BY <1>8, <2>1, UpdatesFresh
<1>9. ASSUME NEW kind, NEW a, NEW b, Lift(h, kind, a, b) PROVE Freshened(h) BY <1>8, <1>9 DEF Lift, Revivers
<1>10. ASSUME NEW a, NEW i, NEW quiet, SetQuiet(h, a, i, quiet) PROVE Freshened(h)
  BY <1>8, <1>10 DEF SetQuiet, Revivers
<1>11. CASE SocialStep(h) BY <1>3, <1>4, <1>5, <1>11 DEF SocialStep
<1>12. CASE SocialRequest(h) BY <1>2, <1>6, <1>7, <1>9, <1>10, <1>12 DEF SocialRequest
<1>13. CASE MuteRequest(h) BY <1>7, <1>9, <1>13 DEF MuteRequest
<1> QED BY <1>2, <1>6, <1>7, <1>9, <1>11, <1>12, <1>13 DEF Mingles
-----------------------------
\* A membership that is found is claimed.
LEMMA OccupantsClaim ==
  ASSUME NEW r, Occupies(r)
  PROVE  Claim(r) = <<"membership", r.who>> /\ Claim(r) # <<>>
  BY ClaimsOfKinds DEF Claimed, Occupies

\* A membership that was found is claimed.
LEMMA MembershipsClaim ==
  ASSUME Inv1, NEW a, NEW i, i # 0,
         \/ i = ActiveMembership(a)
         \/ \E status \in {"joined", "disconnected"} : i = Session(a, status)
  PROVE  i \in Rows /\ Claim(records[i]) # <<>>
<1>1. Len(records) \in Nat BY SequencePlaces DEF Inv1, StoreTyped
<1>2. CASE i = ActiveMembership(a)
 <2>1. Sought({k \in 1..Len(records) : Occupies(records[k]) /\ records[k].who = a}, ActiveMembership(a))
   BY <1>1, ActiveMembershipFound
 <2>2. i \in Rows /\ Occupies(records[i]) BY <1>2, <2>1 DEF Sought, Rows
 <2> QED BY <2>2, OccupantsClaim
<1>3. ASSUME NEW status \in {"joined", "disconnected"}, i = Session(a, status) PROVE i \in Rows
             /\ Claim(records[i]) # <<>>
 <2>1. Sought({k \in 1..Len(records) : records[k].kind = "membership" /\ records[k].who = a
         /\ records[k].status = status},
              Session(a, status))
   BY <1>1, SessionFound
 <2>2. i \in Rows /\ Occupies(records[i]) BY <1>3, <2>1 DEF Sought, Rows, Occupies
 <2> QED BY <2>2, OccupantsClaim
<1> QED BY <1>2, <1>3

\* Who is about to change a record that claims something, and no other.
LEMMA MendingIsFresh ==
  ASSUME Inv1, NEW h \in Handlers, NEW ops, Acts(h, ops), NEW q, Basic(q), q.read = {}, NEW i, NEW patch, NEW then,
         Begin(h, Updating(q, {Update(i, patch)}, then)) \/ Become(h, Updating(q, {Update(i, patch)}, then)),
         Claim(records[i]) # <<>>
  PROVE  Freshened(h)
<1>1. PICK k : k = Updating(q, {Update(i, patch)}, then) OBVIOUS
<1>2. \A todo : todo # {} => Updating(q, todo, then).todo = todo /\ Updating(q, todo, then).read = {}
                             /\ Updating(q, todo, then).at = "update"
  BY DEF Updating, Basic
<1>3. k.todo = {Update(i, patch)} /\ k.read = {} /\ k.at = "update" BY <1>1, <1>2
<1>4. Fresh(k) BY <1>3 DEF Fresh, Update
<1> QED BY <1>1, <1>4, GoesFresh

\* Whatever is done in a room.
LEMMA RoomFresh ==
  ASSUME Inv1, FreshInv, NEW h \in Handlers, Hosts(h), Acts(h, RoomOps)
  PROVE  Freshened(h)
<1> DEFINE j == job[h]
<1>1. j.at \in {"banned", "member", "capacity", "evict", "log"} => Basic(j) /\ Typed(j) /\ Fresh(j) /\ j.read = {}
        /\ j.todo = {}
 <2> SUFFICES ASSUME j.at \in {"banned", "member", "capacity", "evict", "log"} PROVE Basic(j) /\ Typed(j)
                     /\ Fresh(j) /\ j.read = {} /\ j.todo = {}
   OBVIOUS
 <2>1. Typed(j) /\ Basic(j) /\ j # Idle BY AtWork
 <2> QED BY <2>1 DEF Typed, FreshInv
<1>2. CASE CheckBan(h)
 <2>1. j.at = "banned" /\ Become(h, [j EXCEPT !.at = IF ActiveBan(j.who) = 0 THEN "member" ELSE "end"])
   BY <1>2 DEF CheckBan, Doing
 <2>2. PICK at : at = (IF ActiveBan(j.who) = 0 THEN "member" ELSE "end") OBVIOUS
 <2>3. at \in {"member", "end"} BY <2>2
 <2> QED BY <1>1, <2>1, <2>2, <2>3, StaysFresh
<1>3. CASE FindMember(h)
 <2> DEFINE i == ActiveMembership(j.who)
 <2>1. j.at = "member" /\ j.op = "join"
       /\ Become(h, IF i = 0 THEN [j EXCEPT !.at = "capacity"]
                    ELSE IF records[i].status = "joined" THEN [j EXCEPT !.at = "end"]
                    ELSE Updating(j, {Update(i, [status |-> "joined"])}, "end"))
   BY <1>3 DEF FindMember, Doing
 <2>2. CASE i = 0
  <3>1. Become(h, [j EXCEPT !.at = "capacity"]) BY <2>1, <2>2
  <3>2. Free(<<"membership", j.who>>, j.began) BY <2>2, NoMembership
  <3>3. \A k : k = [j EXCEPT !.at = "capacity"] => k.at = "capacity" /\ k.op = j.op /\ k.who = j.who
          /\ k.began = j.began
                                                   /\ k.todo = {} /\ k.read = {}
    BY <1>1, <2>1 DEF Basic
  <3>4. \A k : k = [j EXCEPT !.at = "capacity"] => Fresh(k) BY <3>2, <3>3 DEF Fresh
  <3> QED BY <3>1, <3>4, GoesFresh
 <2>3. CASE i # 0 /\ records[i].status = "joined" BY <1>1, <2>1, <2>3, StaysFresh
 <2>4. CASE i # 0 /\ records[i].status # "joined"
  <3>1. Claim(records[i]) # <<>> BY <2>4, MembershipsClaim
  <3> QED BY <1>1, <2>1, <2>4, <3>1, MendingIsFresh
 <2> QED BY <2>2, <2>3, <2>4
<1>4. CASE CountMembers(h)
 <2>1. j.at = "capacity" /\ j.op = "join"
       /\ Become(h, IF Cardinality(Occupying) >= Capacity THEN [j EXCEPT !.at = "end"] ELSE Adding(j,
            Membership(j.who), "end"))
   BY <1>4 DEF CountMembers, Doing
 <2>2. CASE Cardinality(Occupying) >= Capacity BY <1>1, <2>1, <2>2, StaysFresh
 <2>3. CASE ~(Cardinality(Occupying) >= Capacity)
  <3>1. Free(<<"membership", j.who>>, j.began) BY <1>1, <2>1 DEF Fresh
  <3>2. Claim(Membership(j.who)) = <<"membership", j.who>>
    BY ClaimsOfKinds DEF Claimed, Membership, Occupies
  <3>3. PICK k : k = Adding(j, Membership(j.who), "end") OBVIOUS
  <3>4. k.at = "add" /\ k.new = Membership(j.who) /\ k.began = j.began BY <1>1, <2>1, <3>3, NewOnes
  <3> QED BY <2>1, <2>3, <3>1, <3>2, <3>3, <3>4, GoesFresh
 <2> QED BY <2>2, <2>3
<1>5. CASE Evict(h)
 <2> DEFINE i == ActiveMembership(j.to)
 <2>1. j.at = "evict" /\ j.op = "ban"
       /\ Become(h, IF i = 0 THEN [j EXCEPT !.at = "log"] ELSE Updating(j, {Update(i, [status |-> "kicked"])},
            "log"))
   BY <1>5 DEF Evict, Doing
 <2>2. CASE i = 0 BY <1>1, <2>1, <2>2, StaysFresh
 <2>3. CASE i # 0 BY <1>1, <2>1, <2>3, UpdatesFresh DEF Revivers
 <2> QED BY <2>2, <2>3
<1>6. CASE WriteLog(h)
 <2>1. j.at = "log" /\ Become(h, Adding(j, Logged(j.op, j.to), "end")) BY <1>6 DEF WriteLog
 <2>2. Claim(Logged(j.op, j.to)) = <<>> BY ClaimsOfKinds DEF Claimed, Logged
 <2> QED BY <1>1, <2>1, <2>2, AddsFresh
<1>7. ASSUME NEW a, StartJoin(h, a) PROVE Freshened(h) BY <1>7, RequestsRest DEF StartJoin, Restful
<1>8. ASSUME NEW a, MoveRequest(h, a) PROVE Freshened(h)
 <2>1. PICK i, status :
         /\ StartMove(h, a, i, status)
         /\ i = ActiveMembership(a) \/ \E s \in {"joined", "disconnected"} : i = Session(a, s)
   BY <1>8 DEF MoveRequest
 <2>2. i # 0 /\ Begin(h, Updating(Request("move", a, a, "update"), {Update(i, [status |-> status])}, "end"))
   BY <2>1 DEF StartMove
 <2>3. Claim(records[i]) # <<>> BY <2>1, <2>2, MembershipsClaim
 <2>4. Basic(Request("move", a, a, "update")) /\ Request("move", a, a, "update").read = {}
   BY DEF Request, Basic
 <2> QED BY <2>2, <2>3, <2>4, MendingIsFresh
<1>9. ASSUME NEW op, op \notin Revivers, NEW a, NEW i, NEW patch, NEW then, then \in {"log", "notify", "end"},
             Begin(h, ByOwner(op, a, i, patch, then))
      PROVE  Freshened(h)
 <2> DEFINE q == Telling(Request(op, RoomOwner, a, "update"), a, "room")
 <2>1. Basic(q) /\ q.op = op BY RequestIs, TellingIs
 <2>2. Begin(h, Updating(q, {Update(i, patch)}, then)) BY <1>9 DEF ByOwner
 <2> HIDE DEF q
 <2> QED BY <1>9, <2>1, <2>2, UpdatesFresh
<1>10. ASSUME NEW a, StartBan(h, a) PROVE Freshened(h)
 <2> DEFINE q == Telling(Request("ban", RoomOwner, a, "add"), a, "room")
 <2>1. Begin(h, Adding(q, Ban(a), "evict")) /\ ActiveBan(a) = 0 BY <1>10 DEF StartBan
 <2>2. Basic(q) BY RequestIs, TellingIs
 <2>3. \A n : Free(Claim(Ban(a)), n) BY <2>1, NoBan
 <2> HIDE DEF q
 <2> QED BY <2>1, <2>2, <2>3, AddsFresh
<1>11. ASSUME NEW a, RequestSeat(h, a) PROVE Freshened(h)
 <2>1. Begin(h, Adding(Request("seat", a, a, "add"), Seat(a), "end")) /\ Basic(Request("seat", a, a, "add"))
   BY <1>11, RequestIs DEF RequestSeat
 <2>2. Claim(Seat(a)) = <<>> BY ClaimsOfKinds DEF Claimed, Seat
 <2> QED BY <2>1, <2>2, AddsFresh
<1>12. CASE RoomStep(h) BY <1>2, <1>3, <1>4, <1>5, <1>6, <1>12 DEF RoomStep
<1>13. CASE RoomRequest(h) BY <1>7, <1>8, <1>9, <1>10, <1>13 DEF RoomRequest, Kick, Unban, Revivers
<1>14. ASSUME NEW value, Setting(h, value) PROVE Freshened(h) BY <1>9, <1>14 DEF Setting, Revivers
<1>15. CASE SeatRequest(h)
  BY <1>9, <1>11, <1>14, <1>15 DEF SeatRequest, MuteMember, MuteSeat, AnswerSeat, Revivers
<1> QED BY <1>7, <1>8, <1>12, <1>13, <1>14, <1>15 DEF Hosts
-----------------------------
\* Steps that keep profiles.
LEMMA PrivacyFresh ==
  ASSUME Inv1, NEW h \in Handlers, SaveProfile(h) \/ PrivacyRequest(h) \/ VisibilityRequest(h), NEW ops,
         Acts(h, ops)
  PROVE  Freshened(h)
<1> DEFINE j == job[h]
<1>1. CASE SaveProfile(h)
 <2> DEFINE i == Profile(j.who)
            privacy == Merge(PrivacyOf(i), j.privacy)
            r == [kind |-> "profile", status |-> "kept", who |-> j.who, privacy |-> privacy]
 <2>1. j.op = "privacy" /\ j.at = "profile"
       /\ Become(h, IF i # 0 THEN Updating(j, {Update(i, [privacy |-> privacy])}, "end") ELSE Adding(j, r, "end"))
   BY <1>1 DEF SaveProfile, Doing
 <2>2. Basic(j) BY <2>1, AtWork
 <2>3. CASE i # 0 BY <2>1, <2>2, <2>3, UpdatesFresh DEF Revivers
 <2>4. CASE i = 0
  <3>1. r.kind = "profile" /\ r.who = j.who OBVIOUS
  <3>2. \A n : Free(Claim(r), n) BY <2>4, <3>1, NoProfile
  <3> HIDE DEF r
  <3> QED BY <2>1, <2>2, <2>4, <3>2, AddsFresh
 <2> QED BY <2>3, <2>4
<1>2. ASSUME NEW a, NEW patch, StartPrivacy(h, a, patch) PROVE Freshened(h)
  BY <1>2, RequestsRest DEF StartPrivacy, Restful
<1>3. CASE PrivacyRequest(h) BY <1>2, <1>3 DEF PrivacyRequest
<1>4. CASE VisibilityRequest(h) BY <1>2, <1>4 DEF VisibilityRequest
<1> QED BY <1>1, <1>3, <1>4

\* A request that begins with changing records, and revives none.
LEMMA RequestsMend ==
  ASSUME Inv1, NEW h \in Handlers, NEW ops, Acts(h, ops), NEW op, op \notin Revivers, NEW a, NEW key, NEW todo,
         NEW then \in Restful, Begin(h, Updating(Request(op, a, key, "update"), todo, then))
  PROVE  Freshened(h)
<1>1. Basic(Request(op, a, key, "update")) /\ Request(op, a, key, "update").op = op BY RequestIs
<1>2. then \notin {"add", "capacity"} BY DEF Restful
<1> QED BY <1>1, <1>2, UpdatesFresh

\* Steps of breakout rooms.
LEMMA BreakoutFresh ==
  ASSUME Inv1, NEW h \in Handlers, BreakoutStep(h) \/ BreakoutRequest(h), NEW ops, Acts(h, ops)
  PROVE  Freshened(h)
<1> DEFINE j == job[h]
<1>1. j.at \in {"dismiss", "member", "find", "capacity"} => Basic(j) BY AtWork
<1>2. CASE Dismiss(h) BY <1>1, <1>2, UpdatesFresh DEF Dismiss, Doing, Revivers
<1>3. CASE CheckMember(h)
 <2>1. j.at = "member" /\ Become(h, [j EXCEPT !.at = IF IsRoomMember(j.who) THEN "find" ELSE "end"])
   BY <1>3 DEF CheckMember, Doing
 <2>2. PICK at : at = (IF IsRoomMember(j.who) THEN "find" ELSE "end") OBVIOUS
 <2>3. at \in {"find", "end"} BY <2>2
 <2> QED BY <1>1, <2>1, <2>2, <2>3, StaysFresh
<1>4. CASE FindAttendance(h)
 <2>1. j.op = "attend" /\ j.at = "find"
       /\ Become(h, [j EXCEPT !.at = IF AttendanceOf(j.who, j.key) # 0 THEN "end" ELSE "capacity"])
   BY <1>4 DEF FindAttendance, Doing
 <2>2. PICK at : at = (IF AttendanceOf(j.who, j.key) # 0 THEN "end" ELSE "capacity") OBVIOUS
 <2>3. at \in {"capacity", "end"} BY <2>2
 <2> QED BY <1>1, <2>1, <2>2, <2>3, StaysFresh
<1>5. CASE CountAudience(h)
 <2>1. j.op = "attend" /\ j.at = "capacity"
       /\ Become(h, IF Cardinality(Audience(j.key)) >= BreakoutCapacity THEN [j EXCEPT !.at = "end"]
                    ELSE Adding(j, Attending(j.who, j.key), "end"))
   BY <1>5 DEF CountAudience, Doing
 <2>2. CASE Cardinality(Audience(j.key)) >= BreakoutCapacity BY <1>1, <2>1, <2>2, StaysFresh
 <2>3. CASE ~(Cardinality(Audience(j.key)) >= BreakoutCapacity)
  <3>1. j.op \notin Claimers BY <2>1 DEF Claimers, Players, Controls
  <3> QED BY <1>1, <2>1, <2>3, <3>1, AddsFresh
 <2> QED BY <2>2, <2>3
<1>6. CASE CreateBreakout(h)
 <2> DEFINE q == Request("create", RoomOwner, "breakout", "add")
            r == Breakout(RoomOwner)
 <2>1. Begin(h, Adding(q, r, "end")) /\ Find(LAMBDA s : s = Breakout(RoomOwner)) = 0
   BY <1>6 DEF CreateBreakout
 <2>2. \A n : Free(Claim(r), n) BY <2>1, NoBreakout
 <2>3. Basic(q) BY RequestIs
 <2> HIDE DEF q, r
 <2> QED BY <2>1, <2>2, <2>3, AddsFresh
<1>7. ASSUME NEW b, EndBreakout(h, b) PROVE Freshened(h)
  BY <1>7, RequestsMend DEF EndBreakout, Revivers, Restful
<1>8. ASSUME NEW a, NEW b, StartAttend(h, a, b) PROVE Freshened(h)
  BY <1>8, RequestsRest DEF StartAttend, Restful
<1>9. ASSUME NEW a, NEW b, LeaveBreakout(h, a, b) PROVE Freshened(h)
  BY <1>9, RequestsMend DEF LeaveBreakout, Revivers, Restful
<1>10. CASE BreakoutStep(h) BY <1>2, <1>3, <1>4, <1>5, <1>10 DEF BreakoutStep
<1>11. CASE BreakoutRequest(h) BY <1>6, <1>7, <1>8, <1>9, <1>11 DEF BreakoutRequest
<1> QED BY <1>10, <1>11

\* Steps of support and of moderation.
LEMMA SupportFresh ==
  ASSUME Inv1, NEW h \in Handlers, SupportStep(h) \/ SupportRequest(h), NEW ops, Acts(h, ops)
  PROVE  Freshened(h)
<1> DEFINE j == job[h]
<1>1. j.at \in {"answer", "review", "appeal"} => Basic(j) BY AtWork
<1>2. CASE AnswerReply(h) BY <1>1, <1>2, StaysFresh DEF AnswerReply, Doing
<1>3. CASE FindReview(h)
 <2> DEFINE i == ReviewOf(j.key)
 <2>1. /\ j.op = "review" /\ j.at = "review"
       /\ \E status, decision, patch :
            \/ i = 0 /\ Become(h, Adding(j, Review(j.who, j.key, status, decision), "end"))
            \/ Become(h, [j EXCEPT !.at = "end"])
            \/ Become(h, Updating(j, {Update(i, patch)}, "end"))
  <3>1. j.op = "review" /\ j.at = "review" BY <1>3, Zenon DEF FindReview, Doing
  <3>2. CASE i = 0 BY <1>3, <3>1, <3>2, Zenon DEF FindReview
  <3>3. CASE i # 0 BY <1>3, <3>1, <3>3, Zenon DEF FindReview
  <3> QED BY <3>2, <3>3
 <2>2. PICK status, decision, patch :
         \/ i = 0 /\ Become(h, Adding(j, Review(j.who, j.key, status, decision), "end"))
         \/ Become(h, [j EXCEPT !.at = "end"])
         \/ Become(h, Updating(j, {Update(i, patch)}, "end"))
   BY <2>1
 <2>3. CASE i = 0 /\ Become(h, Adding(j, Review(j.who, j.key, status, decision), "end"))
  <3>1. \A n : Free(Claim(Review(j.who, j.key, status, decision)), n) BY <2>3, NoReview
  <3> QED BY <1>1, <2>1, <2>3, <3>1, AddsFresh
 <2>4. CASE Become(h, [j EXCEPT !.at = "end"]) BY <1>1, <2>1, <2>4, StaysFresh
 <2>5. CASE Become(h, Updating(j, {Update(i, patch)}, "end")) BY <1>1, <2>1, <2>5, UpdatesFresh DEF Revivers
 <2> QED BY <2>2, <2>3, <2>4, <2>5
<1>4. CASE FindAppeal(h)
 <2> DEFINE r == Appeal(j.who, j.key)
            i == Find(LAMBDA s : s.kind = "appeal" /\ s.of = j.key)
 <2>1. j.at = "appeal" /\ Become(h, IF i # 0 THEN [j EXCEPT !.at = "end"] ELSE Adding(j, r, "end"))
   BY <1>4 DEF FindAppeal, Doing
 <2>2. CASE i # 0 BY <1>1, <2>1, <2>2, StaysFresh
 <2>3. CASE i = 0
  <3>1. \A n : Free(Claim(r), n) BY <2>3, NoAppeal
  <3> HIDE DEF r
  <3> QED BY <1>1, <2>1, <2>3, <3>1, AddsFresh
 <2> QED BY <2>2, <2>3
<1>5. CASE ChangeReview(h) BY <1>1, <1>5, UpdatesFresh DEF ChangeReview, Doing, Revivers
<1>6. ASSUME NEW op, op \notin Claimers, NEW a, NEW key, NEW r,
             Begin(h, Adding(Request(op, a, key, "add"), r, "end"))
      PROVE  Freshened(h)
 <2>1. Basic(Request(op, a, key, "add")) /\ Request(op, a, key, "add").op = op BY RequestIs
 <2> QED BY <1>6, <2>1, AddsFresh
<1>7. ASSUME NEW op, op \notin Revivers, NEW a, NEW key, NEW i, NEW patch, NEW then, NEW more,
             Begin(h, Merge(Updating(Request(op, a, key, "update"), {Update(i, patch)}, then), more)),
             {"op", "at"} \cap DOMAIN more = {}
      PROVE  Freshened(h)
 <2>1. \A todo : todo # {} => Updating(Request(op, a, key, "update"), todo, then).at = "update"
                              /\ Updating(Request(op, a, key, "update"), todo, then).op = op
                              /\ {"op", "at"} \subseteq DOMAIN Updating(Request(op, a, key, "update"), todo, then)
   BY DEF Updating, Request
 <2>2. PICK q : q = Updating(Request(op, a, key, "update"), {Update(i, patch)}, then) OBVIOUS
 <2>3. q.at = "update" /\ q.op = op /\ {"op", "at"} \subseteq DOMAIN q BY <2>1, <2>2
 <2>4. Merge(q, more).at = "update" /\ Merge(q, more).op = op BY <1>7, <2>3 DEF Merge
 <2>5. Plain(Merge(q, more)) BY <1>7, <2>4 DEF Plain
 <2> QED BY <1>7, <2>2, <2>5, GoesFresh
<1>8. ASSUME NEW a, NEW b, OpenTicket(h, a) \/ OpenReport(h, a, b) PROVE Freshened(h)
 <2>1. "ticket" \notin Claimers /\ "report" \notin Claimers BY DEF Claimers, Players, Controls
 <2> QED BY <1>6, <1>8, <2>1 DEF OpenTicket, OpenReport
<1>9. ASSUME NEW a, NEW i, Reply(h, a, i) PROVE Freshened(h) BY <1>7, <1>9 DEF Reply, Revivers
<1>10. ASSUME NEW a, NEW i, NEW outcome, DecideAppeal(h, a, i, outcome) PROVE Freshened(h)
  BY <1>7, <1>10 DEF DecideAppeal, Revivers
<1>11. ASSUME NEW i, Attach(h, i) PROVE Freshened(h) BY <1>11, RequestsMend DEF Attach, Revivers, Restful
<1>12. ASSUME NEW a, NEW i, Escalate(h, a, i) \/ AssignAppeal(h, a, i) PROVE Freshened(h)
  BY <1>12, RequestsMend DEF Escalate, AssignAppeal, Revivers, Restful
<1>13. ASSUME NEW a, NEW i, NEW status \in DOMAIN Transitions, SetStatus(h, a, i, status) PROVE Freshened(h)
 <2>1. status \notin Revivers /\ "end" \in Restful BY DEF Transitions, Revivers, Restful
 <2> QED BY <1>13, <2>1, RequestsMend DEF SetStatus
<1>14. ASSUME NEW a, NEW i, NEW outcome, StartReview(h, a, i, outcome) PROVE Freshened(h)
  BY <1>14, RequestsRest DEF StartReview, Restful
<1>15. ASSUME NEW i, StartAppeal(h, i) PROVE Freshened(h) BY <1>15, RequestsRest DEF StartAppeal, Restful
<1>16. CASE SupportStep(h) BY <1>2, <1>3, <1>4, <1>5, <1>16 DEF SupportStep
<1>17. CASE SupportRequest(h)
  BY <1>8, <1>9, <1>10, <1>11, <1>12, <1>13, <1>14, <1>15, <1>17 DEF SupportRequest
<1> QED BY <1>16, <1>17
-----------------------------
\* Steps of the music.
LEMMA MusicStepFresh ==
  ASSUME Inv1, NEW h \in Handlers, MusicStep(h), NEW ops, Acts(h, ops)
  PROVE  Freshened(h)
<1> DEFINE j == job[h]
<1>1. /\ j.at \in {"dj", "count", "may", "reindex", "order", "player", "pause", "volume", "play", "previous",
                   "start", "show", "advance"}
      /\ j.op \in {"grant", "queue", "remove", "reorder"} \/ j.op \in Players
 <2>1. /\ j.at \in {"dj", "count", "may", "reindex", "order", "player", "pause", "volume", "play", "previous",
                    "start", "show", "advance"}
       /\ j.at \in {"dj", "count", "may", "reindex", "order"} => j.op \in {"grant", "queue", "remove", "reorder"}
   BY Zenon DEF MusicStep, GrantDj, QueueTrack, RemoveTrack, Reindex, Reorder, GetPlayer, Pause, SetVolume,
      ChooseTrack, EndPrevious, StartTrack, ShowTrack, Advance, Doing
 <2>2. Fits(j.op, j.at) BY <2>1, AtWork
 <2> QED BY <2>1, <2>2 DEF Fits, Players, Controls
<1>2. Basic(j) /\ Fits(j.op, j.at) /\ j.op \notin Revivers BY <1>1, AtWork DEF Revivers, Players, Controls
<1>3. ASSUME NEW todo, NEW at, at \in Restful, Become(h, Updating(j, todo, at)) PROVE Freshened(h)
 <2>1. at \notin {"add", "capacity"} BY <1>3 DEF Restful
 <2> QED BY <1>2, <1>3, <2>1, UpdatesFresh
<1>4. ASSUME NEW patch, Become(h, Show(j, patch)) PROVE Freshened(h) BY <1>3, <1>4 DEF Show, Restful
<1>5. Become(h, [j EXCEPT !.at = "end"]) => Freshened(h) BY <1>2, StaysFresh
<1>6. CASE GrantDj(h)
 <2>1. Become(h, IF ActiveDj(j.key) # 0 THEN [j EXCEPT !.at = "end"] ELSE Adding(j, Dj(j.key), "end"))
   BY <1>6 DEF GrantDj
 <2>2. CASE ActiveDj(j.key) # 0 BY <1>5, <2>1, <2>2
 <2>3. CASE ActiveDj(j.key) = 0
  <3>1. \A n : Free(Claim(Dj(j.key)), n) BY <2>3, NoDj
  <3> QED BY <1>2, <2>1, <2>3, <3>1, AddsFresh
 <2> QED BY <2>2, <2>3
<1>7. CASE QueueTrack(h)
 <2>1. j.op = "queue" /\ \E r : Become(h, Adding(j, r, "end")) BY <1>7 DEF QueueTrack, Doing
 <2>2. j.op \notin Claimers BY <2>1 DEF Claimers, Players, Controls
 <2> QED BY <1>2, <2>1, <2>2, AddsFresh
<1>8. CASE RemoveTrack(h) \/ Reindex(h) \/ Reorder(h)
 <2>1. \/ Become(h, [j EXCEPT !.at = "end"])
       \/ \E todo : Become(h, Updating(j, todo, "end")) \/ Become(h, Updating(j, todo, "reindex"))
  <3>1. CASE RemoveTrack(h) BY <3>1 DEF RemoveTrack
  <3>2. CASE Reindex(h) BY <3>2 DEF Reindex
  <3>3. CASE Reorder(h) BY <3>3, Zenon DEF Reorder
  <3> QED BY <1>8, <3>1, <3>2, <3>3
 <2> QED BY <1>3, <1>5, <2>1 DEF Restful
<1>9. CASE GetPlayer(h)
 <2> DEFINE i == Find(LAMBDA r : r.kind = "player")
 <2>1. PICK onward : onward = (CASE j.op = "next" -> "previous" [] j.op = "state" -> "end" [] OTHER -> j.op)
   OBVIOUS
 <2>2. Become(h, IF i = 0 THEN Adding(Merge(j, [state |-> NewPlayer]), NewPlayer, onward)
                 ELSE Merge(j, [made |-> i, state |-> records[i], at |-> onward]))
   BY <1>9, <2>1, Zenon DEF GetPlayer
 <2>3. j.op \in Players BY <1>2, <1>9 DEF GetPlayer, Fits
 <2>4. onward \in Restful BY <2>1, <2>3 DEF Players, Controls, Restful
 <2>5. CASE i = 0
  <3>1. PICK k : k = Merge(j, [state |-> NewPlayer]) OBVIOUS
  <3>2. Basic(k) BY <1>2, <3>1 DEF Basic, Merge
  <3>3. \A n : Free(Claim(NewPlayer), n) BY <2>5, NoPlayer
  <3>4. Become(h, Adding(k, NewPlayer, onward)) BY <2>2, <2>5, <3>1
  <3> QED BY <3>2, <3>3, <3>4, AddsFresh
 <2>6. CASE i # 0
  <3>1. PICK k : k = Merge(j, [made |-> i, state |-> records[i], at |-> onward]) OBVIOUS
  <3>2. k.at = onward BY <3>1 DEF Merge
  <3>3. Become(h, k) BY <2>2, <2>6, <3>1
  <3> QED BY <2>4, <3>2, <3>3, RestsFresh
 <2> QED BY <2>5, <2>6
<1>10. CASE Pause(h) BY <1>4, <1>5, <1>10 DEF Pause
<1>11. CASE SetVolume(h) BY <1>4, <1>11 DEF SetVolume
<1>12. CASE ChooseTrack(h)
 <2>1. \/ Become(h, [j EXCEPT !.at = "end"])
       \/ \E track, was : Become(h, Merge(j, [track |-> track, was |-> was, at |-> "previous"]))
   BY <1>12, Zenon DEF ChooseTrack
 <2>2. \A track, was : Merge(j, [track |-> track, was |-> was, at |-> "previous"]).at = "previous"
   BY DEF Merge
 <2> QED BY <1>5, <2>1, <2>2, RestsFresh DEF Restful
<1>13. CASE EndPrevious(h)
 <2>1. \E todo : \E at \in {"start", "advance"} : Become(h, Updating(j, todo, at))
   BY <1>13, Zenon DEF EndPrevious
 <2> QED BY <1>3, <2>1 DEF Restful
<1>14. CASE StartTrack(h) BY <1>3, <1>14 DEF StartTrack, Restful
<1>15. CASE ShowTrack(h) BY <1>4, <1>15 DEF ShowTrack
<1>16. CASE Advance(h)
 <2>1. \/ \E patch : Become(h, Show(j, patch))
       \/ \E track, todo : Become(h, Updating(Merge(j, [track |-> track]), todo, "show"))
   BY <1>16, Zenon DEF Advance
 <2>2. ASSUME NEW track, NEW todo,
              Become(h, Updating(Merge(j, [track |-> track]), todo, "show")) PROVE Freshened(h)
  <3>1. PICK k : k = Merge(j, [track |-> track]) OBVIOUS
  <3>2. Basic(k) /\ k.op = j.op BY <1>2, <3>1 DEF Basic, Merge
  <3> QED BY <1>2, <2>2, <3>1, <3>2, UpdatesFresh
 <2> QED BY <1>4, <2>1, <2>2
<1> QED BY <1>6, <1>7, <1>8, <1>9, <1>10, <1>11, <1>12, <1>13, <1>14, <1>15, <1>16 DEF MusicStep

\* And the requests that begin them.
LEMMA MusicFresh ==
  ASSUME Inv1, NEW h \in Handlers, MusicStep(h) \/ MusicRequest(h), NEW ops, Acts(h, ops)
  PROVE  Freshened(h)
<1>1. CASE MusicStep(h) BY <1>1, MusicStepFresh
<1>2. ASSUME NEW a, StartGrant(h, a) PROVE Freshened(h) BY <1>2, RequestsRest DEF StartGrant, Restful
<1>3. ASSUME NEW a, RevokeDj(h, a) PROVE Freshened(h) BY <1>3, RequestsMend DEF RevokeDj, Revivers, Restful
<1>4. ASSUME NEW a, StartQueue(h, a) PROVE Freshened(h) BY <1>4, RequestsRest DEF StartQueue, Restful
<1>5. ASSUME NEW a, NEW i, StartRemove(h, a, i) PROVE Freshened(h)
  BY <1>5, RequestsRest DEF StartRemove, Restful
<1>6. ASSUME NEW a, NEW i, NEW place, StartReorder(h, a, i, place) PROVE Freshened(h)
  BY <1>6, RequestsRest DEF StartReorder, Restful
<1>7. ASSUME NEW op, NEW a, NEW chosen, StartControl(h, op, a, chosen) PROVE Freshened(h)
  BY <1>7, RequestsRest DEF StartControl, Restful
<1>8. ASSUME NEW a, StartLook(h, a) PROVE Freshened(h) BY <1>8, RequestsRest DEF StartLook, Restful
<1>9. CASE MusicRequest(h) BY <1>2, <1>3, <1>4, <1>5, <1>6, <1>7, <1>8, <1>9 DEF MusicRequest
<1> QED BY <1>1, <1>9
-----------------------------
\* Updates end, or come to a step that adds nothing yet.
LEMMA MendsRest ==
  ASSUME NEW op, NEW kind, NEW patch, NEW then, Mends(op, kind, patch, then)
  PROVE  then \notin {"add", "capacity", "update"}
  BY DEF Mends

\* A record that is added, read or written leaves what was found as it was.
LEMMA StoreFresh ==
  ASSUME Inv1, RowsMove, NEW h \in Handlers, Fresh(job[h]), StoreStep(h)
  PROVE  \A k : k = job'[h] => k = Idle \/ Fresh(k)'
<1> DEFINE j == job[h]
<1>1. StoreTyped /\ DOMAIN job = Handlers BY DEF Inv1, StoreTyped
<1>2. CASE AddRow(h)
 <2>1. j.at = "add" /\ Onward(h, Merge(j, [made |-> Len(records) + 1]), j.then) BY <1>2 DEF AddRow
 <2>2. NewRow(j, j.new, j.then) /\ Basic(j) BY <2>1, AtWork DEF Typed
 <2>3. j.then = "end" \/ (j.op \notin Revivers /\ j.then \notin {"add", "capacity"})
   BY <2>2 DEF NewRow, Players, Controls, Revivers
 <2>4. job'[h] = IF j.then = "end" THEN Idle ELSE [Merge(j, [made |-> Len(records) + 1]) EXCEPT !.at = j.then]
   BY <1>1, <2>1 DEF Onward
 <2> HIDE DEF j
 <2>5. \A k : k = [Merge(j, [made |-> Len(records) + 1]) EXCEPT !.at = j.then] => k.op = j.op /\ k.at = j.then
   BY <2>2 DEF Merge, Basic
 <2>6. ASSUME NEW k, k.op = j.op, k.at = j.then, j.then # "end" PROVE Fresh(k)'
   BY <2>3, <2>6 DEF Fresh, Revivers
 <2> QED BY <2>4, <2>5, <2>6
<1>3. CASE ReadRow(h) \/ WriteRow(h)
 <2>1. PICK p : p = job[h] OBVIOUS
 <2>2. p.at = "update" BY <1>3, <2>1, Zenon DEF ReadRow, WriteRow
 <2>3. Typed(p) /\ Basic(p) /\ Fresh(p) BY <2>1, <2>2, AtWork
 <2>4. Fresh(p)' BY <1>1, <2>3, FreshStays DEF StoreTyped
 <2>5. ASSUME NEW k, k.op = p.op, k.who = p.who, k.began = p.began, k.at \notin {"add", "capacity"},
              k.todo \subseteq p.todo,
              k.read \subseteq p.read
       PROVE  Fresh(k)'
   BY <2>4, <2>5 DEF Fresh
 <2>6. CASE ReadRow(h)
  <3>1. PICK u \in p.todo :
          /\ job' = [job EXCEPT ![h].todo = @ \ {u}, ![h].read = @ \cup {[u |-> u, copy |-> records[u.id]]}]
          /\ records' = records /\ trace' = trace
    BY <2>1, <2>6, Zenon DEF ReadRow
  <3>2. PICK todo, read : todo = p.todo \ {u} /\ read = p.read \cup {[u |-> u, copy |-> records[u.id]]}
    OBVIOUS
  <3>3. job'[h] = [p EXCEPT !.todo = todo, !.read = read] BY <1>1, <2>1, <3>1, <3>2
  <3>4. \A k : k = [p EXCEPT !.todo = todo, !.read = read] =>
          k.op = p.op /\ k.who = p.who /\ k.began = p.began /\ k.at = p.at /\ k.todo = todo /\ k.read = read
    BY <2>3 DEF Basic
  <3>5. ASSUME NEW k, k.op = p.op, k.began = p.began, k.at = p.at, k.todo = todo, k.read = read PROVE Fresh(k)'
   <4>1. ASSUME p.op \in Revivers, NEW r \in read PROVE Claim(r.copy) # <<>> \/ Renewed(r.u.id, p.began)
    <5>1. CASE r \in p.read BY <2>3, <4>1, <5>1 DEF Fresh
    <5>2. CASE r = [u |-> u, copy |-> records[u.id]] BY <2>3, <3>1, <4>1, <5>2 DEF Fresh
    <5> QED BY <3>2, <4>1, <5>1, <5>2
   <4>2. \A i : Renewed(i, p.began)' <=> Renewed(i, p.began) BY <3>1 DEF Renewed
   <4>3. \A v \in todo : p.op \in Revivers => (Claim(records'[v.id]) # <<>>) \/ Renewed(v.id, p.began)'
     BY <2>3, <3>1, <3>2, <4>2 DEF Fresh
   <4> QED BY <2>2, <3>5, <4>1, <4>2, <4>3 DEF Fresh
  <3> QED BY <3>3, <3>4, <3>5
 <2>7. CASE WriteRow(h)
  <3>1. PICK r \in p.read :
          Onward(h, [p EXCEPT !.read = @ \ {r}], IF p.todo = {} /\ p.read = {r} THEN p.then ELSE "update")
    BY <2>1, <2>7, Zenon DEF WriteRow
  <3>2. Mend(p, r.u, p.then) BY <2>2, <2>3 DEF Typed
  <3>3. p.then \notin {"add", "capacity"} BY <3>2, MendsRest DEF Mend
  <3>4. PICK next : next = (IF p.todo = {} /\ p.read = {r} THEN p.then ELSE "update") OBVIOUS
  <3>5. job'[h] = IF next = "end" THEN Idle ELSE [[p EXCEPT !.read = @ \ {r}] EXCEPT !.at = next]
    BY <1>1, <3>1, <3>4 DEF Onward
  <3>6. next \notin {"add", "capacity"} BY <3>3, <3>4
  <3>7. \A k : k = [[p EXCEPT !.read = @ \ {r}] EXCEPT !.at = next] =>
          k.op = p.op /\ k.who = p.who /\ k.began = p.began /\ k.at = next /\ k.todo = p.todo
            /\ k.read = p.read \ {r}
    BY <2>3 DEF Basic
  <3>8. \A k : k = [[p EXCEPT !.read = @ \ {r}] EXCEPT !.at = next] => Fresh(k)' BY <2>5, <3>6, <3>7
  <3> QED BY <3>5, <3>8
 <2> QED BY <1>3, <2>6, <2>7
<1> QED BY <1>2, <1>3 DEF StoreStep

\* What was found stays found.
LEMMA FreshKeeps ==
  ASSUME Inv1, FreshInv, [PlatformNext]_platformVars
  PROVE  FreshInv'
<1>1. RowsMove /\ writes \in Nat BY RowsMoveOn DEF Inv1, StoreTyped
<1>2. ASSUME NEW p, p = Idle \/ (Typed(p) /\ Fresh(p)) PROVE p = Idle \/ Fresh(p)' BY <1>1, <1>2, FreshStays
<1>3. \A g \in Handlers : job[g] = Idle \/ (Typed(job[g]) /\ Fresh(job[g])) BY DEF Inv1, JobsTyped, FreshInv
<1>4. ASSUME \A g \in Handlers : job'[g] = Idle \/ (Typed(job'[g]) /\ Fresh(job'[g])) PROVE FreshInv'
 <2> SUFFICES ASSUME NEW g \in Handlers PROVE (job[g] = Idle \/ Fresh(job[g]))' BY DEF FreshInv
 <2>1. \A p : p = job'[g] => p = Idle \/ Fresh(p)' BY <1>2, <1>4
 <2>2. \A p : p = Idle => p = Idle' BY DEF Idle
 <2> QED BY <2>1, <2>2
<1>5. ASSUME NEW h \in Handlers, NEW ops, Acts(h, ops), Freshened(h) PROVE FreshInv'
 <2>1. \A g \in Handlers : g # h => job'[g] = job[g] BY <1>5 DEF Acts, Turned
 <2>2. job'[h] = Idle \/ (Typed(job'[h]) /\ Fresh(job'[h])) BY <1>5, ActorsAreTyped DEF Freshened
 <2> QED BY <1>3, <1>4, <2>1, <2>2
<1>6. CASE \E h \in Handlers : Mingles(h)
 <2>1. PICK h \in Handlers : Mingles(h) BY <1>6
 <2>2. Acts(h, SocialOps \cup {"send"}) BY <2>1, SocialActs DEF Mingles, Inv1
 <2> QED BY <1>5, <2>1, <2>2, SocialFresh
<1>7. CASE \E h \in Handlers : Notifies(h)
 <2>1. PICK h \in Handlers : Notifies(h) BY <1>7
 <2>2. Acts(h, NoticeOps) BY <2>1, NoticesAct DEF Notifies, Inv1
 <2> QED BY <1>5, <2>1, <2>2, NoticeFresh
<1>8. CASE \E h \in Handlers : Chats(h)
 <2>1. PICK h \in Handlers : Chats(h) BY <1>8
 <2>2. Acts(h, ChatOps) BY <2>1, ChatActs DEF Chats, Inv1
 <2>3. ChatOps \cap (Claimers \cup Revivers) = {} BY DEF ChatOps, Claimers, Revivers, Players, Controls
 <2> QED BY <1>5, <2>2, <2>3, OtherKindsAreFresh
<1>9. CASE \E h \in Handlers : Hosts(h) /\ Acts(h, RoomOps) BY <1>5, <1>9, RoomFresh
<1>10. CASE \E h \in Handlers : Owns(h) /\ Acts(h, OwnOps)
 <2>1. PICK h \in Handlers : Owns(h) /\ Acts(h, OwnOps) BY <1>10
 <2>2. CASE Acts(h, ViewOps \cup SessionOps \cup AdminOps)
  <3>1. (ViewOps \cup SessionOps \cup AdminOps) \cap (Claimers \cup Revivers) = {}
    BY DEF ViewOps, SessionOps, AdminOps, Lists, Tabs, Claimers, Revivers, Players, Controls
  <3> QED BY <1>5, <2>2, <3>1, OtherKindsAreFresh
 <2>3. CASE SaveProfile(h) \/ PrivacyRequest(h) \/ VisibilityRequest(h) BY <1>5, <2>1, <2>3, PrivacyFresh
 <2>4. CASE BreakoutStep(h) \/ BreakoutRequest(h) BY <1>5, <2>1, <2>4, BreakoutFresh
 <2>5. CASE MusicStep(h) \/ MusicRequest(h) BY <1>5, <2>1, <2>5, MusicFresh
 <2>6. CASE SupportStep(h) \/ SupportRequest(h) BY <1>5, <2>1, <2>6, SupportFresh
 <2> QED BY <2>1, <2>2, <2>3, <2>4, <2>5, <2>6 DEF Owns
<1>11. CASE \E h \in Handlers : StoreStep(h) \/ CutOff(h)
 <2>1. PICK h \in Handlers : StoreStep(h) \/ CutOff(h) BY <1>11
 <2>2. \A g \in Handlers : g # h => job'[g] = job[g]
  <3>1. DOMAIN job = Handlers BY DEF Inv1, StoreTyped
  <3>2. CASE AddRow(h) BY <3>1, <3>2 DEF AddRow, Onward
  <3>3. CASE ReadRow(h) BY <3>1, <3>3 DEF ReadRow
  <3>4. CASE WriteRow(h) BY <3>1, <3>4 DEF WriteRow, Onward
  <3>5. CASE CutOff(h) BY <3>1, <3>5 DEF CutOff
  <3> QED BY <2>1, <3>2, <3>3, <3>4, <3>5 DEF StoreStep
 <2>3. \A p : p = job'[h] => p = Idle \/ Fresh(p)'
  <3>1. CASE StoreStep(h)
   <4>1. job[h].at \in {"add", "update"} BY <3>1, Zenon DEF StoreStep, AddRow, ReadRow, WriteRow
   <4>2. job[h] # Idle BY <4>1 DEF Idle
   <4>3. Fresh(job[h]) BY <4>2 DEF FreshInv
   <4> QED BY <1>1, <3>1, <4>3, StoreFresh
  <3>2. CASE CutOff(h) BY <3>2 DEF CutOff, Inv1, StoreTyped
  <3> QED BY <2>1, <3>1, <3>2
 <2>4. ASSUME NEW g \in Handlers PROVE (job[g] = Idle \/ Fresh(job[g]))'
  <3>1. \A p : p = job'[g] => p = Idle \/ Fresh(p)' BY <1>2, <1>3, <2>2, <2>3
  <3>2. \A p : p = Idle => p = Idle' BY DEF Idle
  <3> QED BY <3>1, <3>2
 <2> QED BY <2>4 DEF FreshInv
<1>12. CASE UNCHANGED storeVars BY <1>3, <1>4, <1>12 DEF storeVars, handlerVars
<1> QED BY <1>6, <1>7, <1>8, <1>9, <1>10, <1>11, <1>12, StepKinds

\* At first nobody has begun, and what there is was made by requests that did
\* not overlap.
LEMMA InitFresh ==
  ASSUME PlatformInit
  PROVE  FreshInv /\ OneRecord
<1>1. \A h \in Handlers : job[h] = Idle BY DEF PlatformInit, HandlersInit
<1>2. PICK seed \in Seeds[serving] : StoreInit(seed) BY DEF PlatformInit
<1>3. \A i, k \in 1..Len(seed) : i < k /\ Claim(seed[i]) = Claim(seed[k]) => Claim(seed[i]) = <<>>
  BY <1>2, SettledAssumption DEF PlatformInit
<1> QED BY <1>1, <1>2, <1>3 DEF FreshInv, OneRecord, StoreInit

\* There is one record of what is looked for before it is added, unless the
\* requests that wrote two of them were at work at the same time.
THEOREM RecordsAreSingle == PlatformSpec => []OneRecord
<1> DEFINE I == PlatformInv /\ FreshInv /\ OneRecord
<1>1. PlatformInit => I BY InitPlatform, InitFresh
<1>2. I /\ [PlatformNext]_platformVars => I' BY PlatformKeeps, FreshKeeps, OneRecordKeeps DEF PlatformInv
<1>3. I => OneRecord OBVIOUS
<1> QED BY <1>1, <1>2, <1>3, PTL DEF PlatformSpec
-----------------------------
(* What one step does to one row: nothing, or it patches the row as it is,
   or it undoes what others wrote, and then the row is disordered. *)

\* The updates that are not written yet.
Pending(j) == j.todo \cup {r.u : r \in j.read}
\* An update that is pending is to be read, or was.
LEMMA PendingIs ==
  ASSUME NEW j, NEW u
  PROVE  u \in Pending(j) <=> (u \in j.todo \/ \E r \in j.read : u = r.u)
  BY DEF Pending

\* What a merged record has in its fields.
LEMMA FieldsOf ==
  ASSUME NEW r, NEW p, NEW m, m = Merge(r, p)
  PROVE  /\ \A f \in DOMAIN p : m[f] = p[f]
         /\ \A f \in DOMAIN r : f \notin DOMAIN p => m[f] = r[f]
  BY DEF Merge

\* k is request j further on.
Later(k, j) ==
  /\ Basic(k) /\ k.op = j.op /\ k.key = j.key /\ k.who = j.who /\ k.began = j.began /\ k.then = j.then
  /\ "entry" \in DOMAIN j => k.entry = j.entry
  /\ "outcome" \in DOMAIN j => k.outcome = j.outcome
  /\ "to" \in DOMAIN j => k.to = j.to

\* A request after it has added its record.
LEMMA AddGoesOn ==
  ASSUME Inv1, [PlatformNext]_platformVars, NEW h \in Handlers, AddRow(h)
  PROVE  /\ Adds1(h) /\ writes' = writes + 1 /\ \A g \in Handlers : g # h => job'[g] = job[g]
         /\ \A k : k = job'[h] =>
              \/ k = Idle
              \/ Later(k, job[h]) /\ k.at = job[h].then /\ k.at # "end" /\ k.todo = {} /\ k.read = {}
<1>1. StoreTyped /\ DOMAIN job = Handlers BY DEF Inv1, StoreTyped
<1>2. PICK p : p = job[h] OBVIOUS
<1>3. p.at = "add" BY <1>2 DEF AddRow
<1>4. Typed(p) /\ Basic(p) /\ p # Idle BY <1>2, <1>3, AtWork
<1>5. Adds1(h) /\ writes' = writes + 1
 <2>1. serving' = serving BY StepShape
 <2> QED BY <1>1, <1>2, <1>3, <1>4, <2>1, AddRowKeeps DEF Adds1, Inv1, AddRow
<1>6. Onward(h, Merge(p, [made |-> Len(records) + 1]), p.then) BY <1>2 DEF AddRow
<1>7. \A k : k = [Merge(p, [made |-> Len(records) + 1]) EXCEPT !.at = p.then] =>
        Later(k, p) /\ k.at = p.then /\ k.todo = p.todo /\ k.read = p.read
  BY <1>4 DEF Merge, Basic, Later
<1>8. p.todo = {} /\ p.read = {} BY <1>3, <1>4 DEF Typed
<1>9. /\ \A g \in Handlers : g # h => job'[g] = job[g]
      /\ job'[h] = IF p.then = "end" THEN Idle ELSE [Merge(p, [made |-> Len(records) + 1]) EXCEPT !.at = p.then]
  BY <1>1, <1>6 DEF Onward
<1> QED BY <1>2, <1>5, <1>7, <1>8, <1>9

\* A request after it has read a row.
LEMMA ReadGoesOn ==
  ASSUME Inv1, NEW h \in Handlers, ReadRow(h)
  PROVE  /\ UNCHANGED <<records, trace, writes, dropped>> /\ \A g \in Handlers : g # h => job'[g] = job[g]
         /\ Typed(job[h]) /\ job[h].at = "update" /\ job[h] # Idle
         /\ \A k : k = job'[h] =>
              /\ Later(k, job[h]) /\ k.at = "update" /\ Pending(k) = Pending(job[h])
              /\ \E u \in job[h].todo : /\ k.todo = job[h].todo \ {u}
                                        /\ k.read = job[h].read \cup {[u |-> u, copy |-> records[u.id]]}
<1>1. StoreTyped /\ DOMAIN job = Handlers BY DEF Inv1, StoreTyped
<1>2. PICK p : p = job[h] OBVIOUS
<1>3. p.at = "update" BY <1>2 DEF ReadRow
<1>4. Typed(p) /\ Basic(p) /\ p # Idle BY <1>2, <1>3, AtWork
<1>5. PICK u \in p.todo :
        job' = [job EXCEPT ![h].todo = @ \ {u}, ![h].read = @ \cup {[u |-> u, copy |-> records[u.id]]}]
  BY <1>2, Zenon DEF ReadRow
<1>51. PICK copied : copied = [u |-> u, copy |-> records[u.id]] OBVIOUS
<1>6. PICK todo, read : todo = p.todo \ {u} /\ read = p.read \cup {copied} OBVIOUS
<1>61. PICK e : e = [p EXCEPT !.todo = todo, !.read = read] OBVIOUS
<1>7. job'[h] = e /\ \A g \in Handlers : g # h => job'[g] = job[g] BY <1>1, <1>2, <1>5, <1>51, <1>6, <1>61
<1>8. Later(e, p) /\ e.at = p.at /\ e.todo = todo /\ e.read = read BY <1>4, <1>61 DEF Basic, Later
<1>9. Pending(e) = Pending(p)
 <2>1. copied.u = u BY <1>51
 <2>2. \A v : v \in Pending(e) <=> v \in Pending(p) BY <1>5, <1>6, <1>8, <2>1, PendingIs
 <2>3. Pending(e) \subseteq Pending(p) /\ Pending(p) \subseteq Pending(e) BY <2>2
 <2> QED BY <2>3
<1>10. UNCHANGED <<records, trace, writes, dropped>> BY DEF ReadRow
<1>11. ASSUME NEW k, k = job'[h]
       PROVE  /\ Later(k, job[h]) /\ k.at = "update" /\ Pending(k) = Pending(job[h])
              /\ \E v \in job[h].todo : /\ k.todo = job[h].todo \ {v}
                                        /\ k.read = job[h].read \cup {[u |-> v, copy |-> records[v.id]]}
 <2>1. k = e BY <1>7, <1>11
 <2> QED BY <1>2, <1>3, <1>5, <1>51, <1>6, <1>8, <1>9, <2>1
<1> QED BY <1>2, <1>3, <1>4, <1>7, <1>10, <1>11

\* h has written row r.u.id from the copy r, and goes on.
Written(h, r) ==
  /\ job[h] # Idle /\ Typed(job[h]) /\ job[h].at = "update"
  /\ r \in job[h].read /\ r.u.id \in Rows /\ Mend(job[h], r.u, job[h].then) /\ Copied(r)
  /\ Dated(r, job[h].began)
  /\ records' = [records EXCEPT ![r.u.id] = Merge(r.copy, r.u.patch)]
  /\ trace' = [trace EXCEPT ![r.u.id] = @ \cup {Span(h)}]
  /\ writes' = writes + 1 /\ dropped' = dropped
  /\ \A g \in Handlers : g # h => job'[g] = job[g]
  /\ \A k : k = job'[h] =>
       \/ job[h].todo = {} /\ job[h].read = {r} /\ job[h].then = "end" /\ k = Idle
       \/ /\ Later(k, job[h]) /\ k.todo = job[h].todo /\ k.read = job[h].read \ {r}
          /\ \/ job[h].todo = {} /\ job[h].read = {r} /\ k.at = job[h].then /\ k.at # "end"
             \/ k.at = "update" /\ ~(job[h].todo = {} /\ job[h].read = {r})

\* A request after it has written a row.
LEMMA WriteGoesOn ==
  ASSUME Inv1, NEW h \in Handlers, WriteRow(h)
  PROVE  \E r \in job[h].read : Written(h, r)
<1>1. StoreTyped /\ DOMAIN job = Handlers BY DEF Inv1, StoreTyped
<1>2. PICK p : p = job[h] OBVIOUS
<1>3. p.at = "update" BY <1>2 DEF WriteRow
<1>4. Typed(p) /\ Basic(p) /\ p # Idle BY <1>2, <1>3, AtWork
<1>5. PICK r \in p.read :
        /\ records' = [records EXCEPT ![r.u.id] = Merge(r.copy, r.u.patch)]
        /\ trace' = [trace EXCEPT ![r.u.id] = @ \cup {Span(h)}]
        /\ Onward(h, [p EXCEPT !.read = @ \ {r}], IF p.todo = {} /\ p.read = {r} THEN p.then ELSE "update")
  BY <1>2, Zenon DEF WriteRow
<1>6. Mend(p, r.u, p.then) /\ Copied(r) /\ Dated(r, p.began) BY <1>3, <1>4, <1>5 DEF Typed
<1>7. writes' = writes + 1 /\ dropped' = dropped BY DEF WriteRow
<1>8. r.u.id \in Rows BY <1>6 DEF Mend
<1>9. PICK next : next = (IF p.todo = {} /\ p.read = {r} THEN p.then ELSE "update") OBVIOUS
<1>91. PICK e : e = [[p EXCEPT !.read = @ \ {r}] EXCEPT !.at = next] OBVIOUS
<1>10. /\ job'[h] = IF next = "end" THEN Idle ELSE e
       /\ \A g \in Handlers : g # h => job'[g] = job[g]
  BY <1>1, <1>5, <1>9, <1>91 DEF Onward
<1>11. Later(e, p) /\ e.at = next /\ e.todo = p.todo /\ e.read = p.read \ {r}
  BY <1>4, <1>91 DEF Basic, Later
<1>12. \A k : k = job'[h] =>
         \/ p.todo = {} /\ p.read = {r} /\ p.then = "end" /\ k = Idle
         \/ /\ Later(k, p) /\ k.todo = p.todo /\ k.read = p.read \ {r}
            /\ \/ p.todo = {} /\ p.read = {r} /\ k.at = p.then /\ k.at # "end"
               \/ k.at = "update" /\ ~(p.todo = {} /\ p.read = {r})
 <2>1. CASE p.todo = {} /\ p.read = {r}
  <3>1. next = p.then BY <1>9, <2>1
  <3> QED BY <1>10, <1>11, <2>1, <3>1
 <2>2. CASE ~(p.todo = {} /\ p.read = {r})
  <3>1. next = "update" BY <1>9, <2>2
  <3> QED BY <1>10, <1>11, <2>2, <3>1
 <2> QED BY <2>1, <2>2
<1>13. job[h] # Idle /\ Typed(job[h]) /\ job[h].at = "update" /\ r \in job[h].read BY <1>2, <1>3, <1>4, <1>5
<1>14. Mend(job[h], r.u, job[h].then) /\ Dated(r, job[h].began) BY <1>2, <1>6
<1>15. \A k : k = job'[h] =>
         \/ job[h].todo = {} /\ job[h].read = {r} /\ job[h].then = "end" /\ k = Idle
         \/ /\ Later(k, job[h]) /\ k.todo = job[h].todo /\ k.read = job[h].read \ {r}
            /\ \/ job[h].todo = {} /\ job[h].read = {r} /\ k.at = job[h].then /\ k.at # "end"
               \/ k.at = "update" /\ ~(job[h].todo = {} /\ job[h].read = {r})
  BY <1>2, <1>12
<1> QED BY <1>5, <1>6, <1>7, <1>8, <1>10, <1>13, <1>14, <1>15, Zenon DEF Written
-----------------------------
\* h has written row i, and found it as nobody had written it since.
Patches(h, i, r) ==
  /\ Written(h, r) /\ r.u.id = i /\ ~Renewed(i, job[h].began) /\ r.u \in Pending(job[h])
  /\ records'[i] = Merge(records[i], r.u.patch) /\ trace'[i] = trace[i] \cup {Span(h)}

\* A row that is written from an old copy is disordered.
LEMMA WrittenIs ==
  ASSUME Inv1, RowsMove, NEW h \in Handlers, NEW r, Written(h, r)
  PROVE  Disordered(r.u.id)' \/ Patches(h, r.u.id, r)
<1> DEFINE i == r.u.id
<1>1. i \in Rows /\ DOMAIN trace = Rows /\ DOMAIN records = Rows
  BY SequencePlaces DEF Written, Inv1, StoreTyped, Rows
<1>2. trace'[i] = trace[i] \cup {Span(h)} /\ records'[i] = Merge(r.copy, r.u.patch) BY <1>1 DEF Written
<1>3. CASE Renewed(i, job[h].began)
 <2>1. Span(h) \in trace'[i] /\ Typed(job[h]) /\ \A n \in Rows : trace[n] \subseteq trace'[n]
   BY <1>2 DEF RowsMove, Written
 <2>2. Overlap(i, i)' BY <1>1, <1>3, <2>1, WriterOvertakes
 <2> QED BY <2>2 DEF Disordered
<1>4. CASE ~Renewed(i, job[h].began)
 <2>1. r.copy = records[i] BY <1>4 DEF Written, Dated
 <2>2. r.u \in Pending(job[h]) BY DEF Written, Pending
 <2> QED BY <1>2, <1>4, <2>1, <2>2 DEF Patches
<1> QED BY <1>3, <1>4

\* Rows change by statements of requests that are at work.
LEMMA Statements ==
  ASSUME Inv1, [PlatformNext]_platformVars
  PROVE  \/ records' = records /\ trace' = trace
         \/ \E h \in Handlers : AddRow(h) \/ \E r \in job[h].read : Written(h, r)
<1>1. CASE \E h \in Handlers : Acts(h, AllOps) BY <1>1 DEF Acts, Turned
<1>2. CASE \E h \in Handlers : StoreStep(h) \/ CutOff(h)
 <2>1. PICK h \in Handlers : StoreStep(h) \/ CutOff(h) BY <1>2
 <2>2. CASE ReadRow(h) \/ CutOff(h) BY <2>2 DEF ReadRow, CutOff
 <2> QED BY <2>1, <2>2, WriteGoesOn DEF StoreStep
<1>3. CASE UNCHANGED storeVars BY <1>3 DEF storeVars
<1> QED BY <1>1, <1>2, <1>3, StepShape DEF Inv1

\* What a step does to a row that is there.
LEMMA RowMoves ==
  ASSUME Inv1, [PlatformNext]_platformVars, NEW i \in Rows
  PROVE  \/ records'[i] = records[i] /\ trace'[i] = trace[i]
         \/ Disordered(i)'
         \/ \E h \in Handlers : \E r : Patches(h, i, r)
<1>1. RowsMove /\ DOMAIN trace = Rows /\ DOMAIN records = Rows
  BY RowsMoveOn, SequencePlaces DEF Inv1, StoreTyped, Rows
<1>2. CASE records' = records /\ trace' = trace BY <1>2
<1>3. ASSUME NEW h \in Handlers, AddRow(h)
      PROVE  records'[i] = records[i] /\ trace'[i] = trace[i]
  BY <1>3, AddGoesOn DEF Adds1
<1>4. ASSUME NEW h \in Handlers, NEW r, Written(h, r)
      PROVE  \/ records'[i] = records[i] /\ trace'[i] = trace[i]
             \/ Disordered(i)'
             \/ Patches(h, i, r)
 <2>1. CASE r.u.id = i BY <1>1, <1>4, <2>1, WrittenIs
 <2>2. CASE r.u.id # i BY <1>1, <1>4, <2>2 DEF Written
 <2> QED BY <2>1, <2>2
<1> QED BY <1>2, <1>3, <1>4, Statements

\* And a row that was not there has been added.
LEMMA NewRowIs ==
  ASSUME Inv1, [PlatformNext]_platformVars, NEW i \in Rows', i \notin Rows
  PROVE  \E h \in Handlers : /\ AddRow(h) /\ Adds1(h) /\ writes' = writes + 1 /\ i = Len(records) + 1
                             /\ records'[i] = job[h].new /\ trace'[i] = {Span(h)}
<1>1. Len(records) \in Nat /\ DOMAIN records = Rows /\ Len(trace) = Len(records) /\ Inv1'
  BY Inv1Keeps, SequencePlaces DEF Inv1, StoreTyped, Rows
<1>2. CASE records' = records /\ trace' = trace BY <1>2 DEF Rows
<1>3. ASSUME NEW h \in Handlers, AddRow(h)
      PROVE  /\ Adds1(h) /\ writes' = writes + 1 /\ i = Len(records) + 1
             /\ records'[i] = job[h].new /\ trace'[i] = {Span(h)}
 <2>1. Adds1(h) /\ writes' = writes + 1 BY <1>3, AddGoesOn
 <2> QED BY <1>1, <2>1 DEF Adds1, Rows
<1>4. ASSUME NEW h \in Handlers, NEW r, Written(h, r) PROVE FALSE
 <2>1. DOMAIN records' = Rows BY <1>1, <1>4 DEF Written
 <2>2. DOMAIN records' = Rows' BY <1>1, SequencePlaces DEF Inv1, StoreTyped, Rows
 <2> QED BY <2>1, <2>2
<1> QED BY <1>2, <1>3, <1>4, Statements
-----------------------------
\* Requests that share no record with those of breakouts, music and support.
OtherOps == SocialOps \cup NoticeOps \cup ChatOps \cup PrivacyOps \cup RoomOps \cup ViewOps \cup SessionOps \cup AdminOps

\* Who takes a step, and of which service.
LEMMA ServiceSteps ==
  ASSUME Inv1, [PlatformNext]_platformVars
  PROVE  \/ \E h \in Handlers : Hosts(h) /\ Acts(h, RoomOps)
         \/ \E h \in Handlers : (BreakoutStep(h) \/ BreakoutRequest(h)) /\ Acts(h, BreakoutOps)
         \/ \E h \in Handlers : (MusicStep(h) \/ MusicRequest(h)) /\ Acts(h, MusicOps)
         \/ \E h \in Handlers : (SupportStep(h) \/ SupportRequest(h)) /\ Acts(h, SupportOps)
         \/ \E h \in Handlers : Acts(h, OtherOps \ RoomOps) \/ Acts(h, NoticeOps)
         \/ \E h \in Handlers : StoreStep(h) \/ CutOff(h)
         \/ UNCHANGED storeVars
<1>1. StoreTyped /\ JobsTyped BY DEF Inv1
<1>2. ASSUME NEW h \in Handlers, NEW S, S \subseteq OtherOps \ RoomOps, Acts(h, S) PROVE Acts(h, OtherOps \ RoomOps)
  BY <1>2, MoreActs
<1>3. /\ SocialOps \cup {"send"} \subseteq OtherOps \ RoomOps
      /\ ChatOps \subseteq OtherOps \ RoomOps
      /\ PrivacyOps \subseteq OtherOps \ RoomOps
      /\ ViewOps \cup SessionOps \cup AdminOps \subseteq OtherOps \ RoomOps
  BY DEF OtherOps, SocialOps, ChatOps, PrivacyOps, ViewOps, SessionOps, AdminOps, RoomOps, Lists, Tabs
<1>4. CASE \E h \in Handlers : Mingles(h)
 <2>1. PICK h \in Handlers : Mingles(h) BY <1>4
 <2>2. Acts(h, SocialOps \cup {"send"}) BY <2>1, SocialActs DEF Mingles, Inv1
 <2> QED BY <1>2, <1>3, <2>2
<1>5. CASE \E h \in Handlers : Notifies(h) BY <1>5, NoticesAct DEF Notifies, Inv1
<1>6. CASE \E h \in Handlers : Chats(h) BY <1>2, <1>3, <1>6, ChatActs DEF Chats, Inv1
<1>7. CASE \E h \in Handlers : Owns(h) /\ Acts(h, OwnOps)
 <2>1. PICK h \in Handlers : Owns(h) /\ Acts(h, OwnOps) BY <1>7
 <2>2. CASE Acts(h, ViewOps \cup SessionOps \cup AdminOps) BY <1>2, <1>3, <2>2
 <2>3. CASE SaveProfile(h) \/ PrivacyRequest(h) \/ VisibilityRequest(h)
   BY <1>1, <1>2, <1>3, <2>3, PrivacyActs
 <2>4. CASE BreakoutStep(h) \/ BreakoutRequest(h) BY <1>1, <2>4, BreakoutActs
 <2>5. CASE MusicStep(h) \/ MusicRequest(h) BY <1>1, <2>5, MusicActs
 <2>6. CASE SupportStep(h) \/ SupportRequest(h) BY <1>1, <2>6, SupportActs
 <2> QED BY <2>1, <2>2, <2>3, <2>4, <2>5, <2>6 DEF Owns
<1> QED BY <1>4, <1>5, <1>6, <1>7, StepKinds

\* Everybody else's request stays what it is.
LEMMA OneActs ==
  ASSUME NEW h, NEW ops, Acts(h, ops)
  PROVE  \A g \in Handlers : g # h => job'[g] = job[g]
  BY DEF Acts, Turned
-----------------------------
(* Support: replies, tickets that are closed, appeals. *)
\* A reply is in its ticket.
ReplyIn(i, entry) == Disordered(i) \/ entry \in records[i].replies

\* A ticket that was closed before stays so.
ClosedBefore(i, n) == \A s \in trace[i] : s.op = "closed" => Disordered(i) \/ n < s.wrote

\* What a request of support has found, and is about to write.
Helped(j) ==
  /\ j.op = "reply" =>
       /\ j.key \in Rows /\ records[j.key].kind = "ticket"
       /\ \A u \in Pending(j) : /\ u.id = j.key /\ j.entry \in u.patch.replies
                                /\ records[j.key].replies \subseteq u.patch.replies \/ Renewed(j.key, j.began)
       /\ j.at = "answer" => ReplyIn(j.key, j.entry)
  /\ \A u \in Pending(j) : records[u.id].kind = "ticket" => ClosedBefore(u.id, j.began)
  /\ j.op = "appeal" => Disordered(j.key) \/ records[j.key].status = "resolved"
  /\ j.op = "review" => \A u \in Pending(j) : records[u.id].status # "resolved" \/ Renewed(u.id, j.began)
  /\ j.op = "decide" /\ j.at = "update" /\ j.then = "review" =>
       /\ \A u \in Pending(j) : u.id = j.key /\ u.patch.outcome = j.outcome
       /\ (\E u : j.todo = {u} /\ j.read = {}) \/ (\E r : j.todo = {} /\ j.read = {r})
  /\ j.op = "decide" /\ j.at = "update" /\ j.then = "end" =>
       \A u \in Pending(j) : /\ u.id = records[j.key].of
                             /\ j.outcome = "overturned" => "decision" \in DOMAIN u.patch
                                  /\ u.patch.decision = "overturned"

\* Every request of support has found what it has to.
HelpInv == \A h \in Handlers : job[h] = Idle \/ Helped(job[h])

\* Replies that were answered, tickets that were closed.
Replied == \A x \in answered : x.ticket \in Rows /\ records[x.ticket].kind = "ticket" /\ ReplyIn(x.ticket, x.entry)
\* Ticket i, if it was closed, is closed, and was not written by a request that began later.
StaysClosed(i) ==
  \A s \in trace[i] : s.op = "closed" =>
    Disordered(i) \/ (records[i].status = "closed" /\ \A t \in trace[i] : t.began < s.wrote)
\* All tickets that were closed.
TicketsClosed == \A i \in Rows : records[i].kind = "ticket" => StaysClosed(i)

\* A request that will change the review appeal i is about.
Overturns(h, i) ==
  /\ job[h] # Idle /\ job[h].op = "decide" /\ job[h].key = i /\ job[h].outcome = "overturned"
  /\ job[h].at = "review" \/ (job[h].at = "update" /\ job[h].then = "end")

\* An appeal is about a resolved review, and its outcome is or will be that of the review.
AppealRight(i) ==
  LET k == records[i].of IN
  \/ Disordered(i) \/ Disordered(k)
  \/ /\ records[k].status = "resolved"
     /\ records[i].outcome = "overturned" =>
          records[k].decision = "overturned" \/ WasCutOff("decide", i) \/ \E h \in Handlers : Overturns(h, i)
\* All appeals.
AppealsRight == \A i \in Rows : records[i].kind = "appeal" => AppealRight(i)

\* What is kept right of support.
HelpDesk == HelpInv /\ Replied /\ TicketsClosed /\ AppealsRight
-----------------------------
\* What patches a ticket.
LEMMA TicketPatches ==
  ASSUME NEW op, NEW patch, NEW then, Mends(op, "ticket", patch, then)
  PROVE  /\ "replies" \in DOMAIN patch => op = "reply"
         /\ op = "closed" => patch = [status |-> "closed"]
  BY DEF Mends, Reached

\* What patches a review.
LEMMA ReviewPatches ==
  ASSUME NEW op, NEW patch, NEW then, Mends(op, "review", patch, then)
  PROVE  \/ op = "review"
         \/ op = "decide" /\ then = "end" /\ "status" \notin DOMAIN patch
            /\ ("decision" \in DOMAIN patch => patch.decision = "overturned")
  BY DEF Mends

\* What patches an appeal.
LEMMA AppealPatches ==
  ASSUME NEW op, NEW patch, NEW then, Mends(op, "appeal", patch, then)
  PROVE  \/ "outcome" \notin DOMAIN patch
         \/ op = "decide" /\ then = "review" /\ "outcome" \in DOMAIN patch
  BY DEF Mends

\* No reply is lost from a ticket that is not disordered.
LEMMA RepliesStay ==
  ASSUME Inv1, HelpInv, [PlatformNext]_platformVars, NEW i \in Rows, records[i].kind = "ticket"
  PROVE  Disordered(i)' \/ records[i].replies \subseteq records'[i].replies
<1> SUFFICES ASSUME NEW h \in Handlers, NEW r, Patches(h, i, r)
             PROVE  records[i].replies \subseteq records'[i].replies
  BY RowMoves
<1>1. /\ Mend(job[h], r.u, job[h].then) /\ r.u.id = i /\ r.u \in Pending(job[h]) /\ ~Renewed(i, job[h].began)
      /\ Helped(job[h]) /\ records'[i] = Merge(records[i], r.u.patch)
  BY DEF Patches, Written, HelpInv
<1>2. Mends(job[h].op, "ticket", r.u.patch, job[h].then) BY <1>1 DEF Mend
<1>3. "replies" \in DOMAIN records[i] BY DEF Inv1, StoreTyped, WellFormed
<1>31. /\ \A f \in DOMAIN r.u.patch : records'[i][f] = r.u.patch[f]
      /\ \A f \in DOMAIN records[i] : f \notin DOMAIN r.u.patch => records'[i][f] = records[i][f]
  BY <1>1, FieldsOf
<1>4. CASE "replies" \notin DOMAIN r.u.patch
 <2>1. records'[i].replies = records[i].replies BY <1>3, <1>31, <1>4
 <2> QED BY <2>1
<1>5. CASE "replies" \in DOMAIN r.u.patch
 <2>1. job[h].op = "reply" BY <1>2, <1>5, TicketPatches
 <2>2. records[i].replies \subseteq r.u.patch.replies BY <1>1, <2>1 DEF Helped
 <2>3. records'[i].replies = r.u.patch.replies BY <1>31, <1>5
 <2> QED BY <2>2, <2>3
<1> QED BY <1>4, <1>5

\* A review that is resolved stays so, and so does one that is overturned.
LEMMA ReviewsStay ==
  ASSUME Inv1, HelpInv, [PlatformNext]_platformVars, NEW i \in Rows, records[i].kind = "review",
         records[i].status = "resolved"
  PROVE  \/ Disordered(i)'
         \/ /\ records'[i].status = "resolved"
            /\ records[i].decision = "overturned" => records'[i].decision = "overturned"
<1> SUFFICES ASSUME NEW h \in Handlers, NEW r, Patches(h, i, r)
             PROVE  /\ records'[i].status = "resolved"
                    /\ records[i].decision = "overturned" => records'[i].decision = "overturned"
  BY RowMoves
<1>1. /\ Mend(job[h], r.u, job[h].then) /\ r.u.id = i /\ r.u \in Pending(job[h]) /\ ~Renewed(i, job[h].began)
      /\ Helped(job[h]) /\ records'[i] = Merge(records[i], r.u.patch)
  BY DEF Patches, Written, HelpInv
<1>2. Mends(job[h].op, "review", r.u.patch, job[h].then) BY <1>1 DEF Mend
<1>3. {"status", "decision"} \subseteq DOMAIN records[i] BY DEF Inv1, StoreTyped, WellFormed
<1>31. /\ \A f \in DOMAIN r.u.patch : records'[i][f] = r.u.patch[f]
      /\ \A f \in DOMAIN records[i] : f \notin DOMAIN r.u.patch => records'[i][f] = records[i][f]
  BY <1>1, FieldsOf
<1>4. job[h].op # "review" BY <1>1 DEF Helped
<1>5. "status" \notin DOMAIN r.u.patch /\ ("decision" \in DOMAIN r.u.patch => r.u.patch.decision = "overturned")
  BY <1>2, <1>4, ReviewPatches
<1>6. records'[i].status = records[i].status BY <1>3, <1>31, <1>5
<1>7. CASE "decision" \in DOMAIN r.u.patch BY <1>31, <1>5, <1>6, <1>7
<1>8. CASE "decision" \notin DOMAIN r.u.patch BY <1>3, <1>31, <1>6, <1>8
<1> QED BY <1>7, <1>8
-----------------------------
\* What a request has found stays right while others take steps.
LEMMA HelpedStays ==
  ASSUME Inv1, HelpInv, [PlatformNext]_platformVars, NEW j, Typed(j), Helped(j)
  PROVE  Helped(j)'
<1>1. /\ RowsMove /\ writes \in Nat /\ writes' \in {writes, writes + 1}
      /\ \A i \in Rows : i \in Rows' /\ SameRow(records'[i], records[i])
  BY RowsMoveOn, Inv1Keeps DEF RowsKept, Inv1, StoreTyped
<1>2. j.began \in 0..writes /\ j.began \in Nat BY <1>1 DEF Typed
<1>3. \A i \in Rows : /\ Renewed(i, j.began) => Renewed(i, j.began)'
                      /\ Disordered(i) => Disordered(i)'
                      /\ records'[i].kind = records[i].kind
  BY <1>1, HistoryGrows DEF SameRow
<1>4. \A i \in Rows : records'[i] = records[i] \/ Renewed(i, j.began)' BY <1>1, <1>2 DEF RowsMove
<1>5. ASSUME NEW u \in Pending(j) PROVE u.id \in Rows
 <2>1. j.at = "update" BY <1>5 DEF Pending, Typed
 <2> QED BY <1>5, <2>1 DEF Pending, Typed, Mend
<1>6. ASSUME j.op = "reply"
      PROVE  /\ j.key \in Rows' /\ records'[j.key].kind = "ticket"
             /\ \A u \in Pending(j) : /\ u.id = j.key /\ j.entry \in u.patch.replies
                                      /\ records'[j.key].replies \subseteq u.patch.replies \/ Renewed(j.key,
                                           j.began)'
             /\ j.at = "answer" => ReplyIn(j.key, j.entry)'
 <2>1. j.key \in Rows /\ records[j.key].kind = "ticket" /\ (j.at = "answer" => ReplyIn(j.key, j.entry))
   BY <1>6 DEF Helped
 <2>2. j.at = "answer" => ReplyIn(j.key, j.entry)' BY <1>3, <2>1, RepliesStay DEF ReplyIn
 <2>3. \A u \in Pending(j) : /\ u.id = j.key /\ j.entry \in u.patch.replies
                             /\ records[j.key].replies \subseteq u.patch.replies \/ Renewed(j.key, j.began)
   BY <1>6 DEF Helped
 <2>4. (Renewed(j.key, j.began) => Renewed(j.key, j.began)')
       /\ (records'[j.key] = records[j.key] \/ Renewed(j.key, j.began)')
   BY <1>3, <1>4, <2>1
 <2> QED BY <1>1, <1>3, <2>1, <2>2, <2>3, <2>4
<1>7. ASSUME NEW u \in Pending(j), records'[u.id].kind = "ticket" PROVE ClosedBefore(u.id, j.began)'
 <2>1. u.id \in Rows /\ ClosedBefore(u.id, j.began) BY <1>3, <1>5, <1>7 DEF Helped
 <2>2. CASE Disordered(u.id)' BY <2>2 DEF ClosedBefore
 <2>3. CASE trace'[u.id] = trace[u.id] BY <1>3, <2>1, <2>3 DEF ClosedBefore
 <2>4. ASSUME NEW h \in Handlers, NEW r, Patches(h, u.id, r) PROVE ClosedBefore(u.id, j.began)'
  <3>1. trace'[u.id] = trace[u.id] \cup {Span(h)} /\ Span(h).wrote = writes + 1 /\ writes + 1 > j.began
    BY <1>1, <1>2, <2>4 DEF Patches, Span
  <3> QED BY <1>3, <2>1, <3>1 DEF ClosedBefore
 <2> QED BY <2>1, <2>2, <2>3, <2>4, RowMoves
<1>8. ASSUME j.op = "appeal" PROVE Disordered(j.key)' \/ records'[j.key].status = "resolved"
 <2>1. j.key \in Rows /\ records[j.key].kind = "review" BY <1>8 DEF Typed, Carries, CarriesKey, IsReview
 <2>2. Disordered(j.key) \/ records[j.key].status = "resolved" BY <1>8 DEF Helped
 <2> QED BY <1>3, <2>1, <2>2, ReviewsStay
<1>9. ASSUME j.op = "review", NEW u \in Pending(j) PROVE records'[u.id].status # "resolved" \/ Renewed(u.id,
             j.began)'
 <2>1. u.id \in Rows /\ (records[u.id].status # "resolved" \/ Renewed(u.id, j.began))
   BY <1>5, <1>9 DEF Helped
 <2> QED BY <1>3, <1>4, <2>1
<1>10. j.op = "decide" => records'[j.key].of = records[j.key].of
  BY <1>1 DEF Typed, Carries, CarriesKey, SameRow
<1>11. j.op = "decide" /\ j.at = "update" /\ j.then = "end" =>
         \A u \in Pending(j) :
           /\ u.id = records'[j.key].of
           /\ j.outcome = "overturned" => "decision" \in DOMAIN u.patch /\ u.patch.decision = "overturned"
  BY <1>10 DEF Helped
<1>12. j.op = "decide" /\ j.at = "update" /\ j.then = "review" =>
         /\ \A u \in Pending(j) : u.id = j.key /\ u.patch.outcome = j.outcome
         /\ (\E u : j.todo = {u} /\ j.read = {}) \/ (\E r : j.todo = {} /\ j.read = {r})
  BY DEF Helped
<1> QED BY <1>6, <1>7, <1>8, <1>9, <1>11, <1>12 DEF Helped

\* Requests that have nothing to do with it.
Unconcerned(j) == j.op \notin {"reply", "appeal", "review", "decide"} /\ j.todo = {} /\ j.read = {}

\* They have nothing to find.
LEMMA UnconcernedIsHelped ==
  ASSUME NEW j, Unconcerned(j)
  PROVE  Helped(j)
  BY DEF Unconcerned, Helped, Pending

\* What a request of another kind changes is no ticket.
LEMMA OthersHelpNobody ==
  ASSUME NEW j, Typed(j), j.op \notin SupportOps
  PROVE  Helped(j)
<1>1. j.op \notin {"reply", "appeal", "review", "decide", "attach", "escalate"} /\ j.op \notin Reached
  BY DEF SupportOps
<1>2. ASSUME NEW u \in Pending(j) PROVE records[u.id].kind # "ticket"
 <2>1. j.at = "update" BY <1>2 DEF Pending, Typed
 <2>2. Mend(j, u, j.then) BY <1>2, <2>1 DEF Pending, Typed
 <2>3. Mends(j.op, records[u.id].kind, u.patch, j.then) BY <2>2 DEF Mend
 <2> QED BY <1>1, <2>3 DEF Mends
<1> QED BY <1>1, <1>2 DEF Helped

\* h is idle then, or has found what it has to.
Helps(h) == job'[h] = Idle \/ Helped(job'[h])

\* Steps of other services leave it so.
LEMMA OthersHelp ==
  ASSUME Inv1, HelpInv, NEW h \in Handlers, NEW ops, Acts(h, ops), ops \cap SupportOps = {}
  PROVE  Helps(h)
<1>1. CASE job'[h] = Idle \/ job'[h] = job[h] BY <1>1 DEF HelpInv, Helps
<1>2. CASE Typed(job'[h]) /\ job'[h].op \in ops
 <2>1. PICK k : k = job'[h] OBVIOUS
 <2>2. Typed(k) /\ k.op \notin SupportOps BY <1>2, <2>1
 <2> QED BY <2>1, <2>2, OthersHelpNobody DEF Helps
<1> QED BY <1>1, <1>2 DEF Acts, Turned

\* Tickets that are not closed have not been closed, unless they are disordered.
LEMMA OpenTicketIs ==
  ASSUME TicketsClosed, NEW i \in Rows, records[i].kind = "ticket", records[i].status # "closed", NEW n
  PROVE  ClosedBefore(i, n)
  BY DEF TicketsClosed, StaysClosed, ClosedBefore

\* A request that patches a ticket, but for a reply.
LEMMA PatcherHelps ==
  ASSUME Inv1, NEW h \in Handlers, NEW op, op \notin {"reply", "appeal", "review", "decide"}, NEW a, NEW i,
         NEW patch,
         records[i].kind = "ticket" => \A n : ClosedBefore(i, n),
         Begin(h, Updating(Request(op, a, i, "update"), {Update(i, patch)}, "end"))
  PROVE  Helps(h)
<1>1. PICK j, k : j = Request(op, a, i, "update") /\ k = Updating(j, {Update(i, patch)}, "end") OBVIOUS
<1>2. Basic(j) /\ j.op = op /\ j.read = {} BY <1>1, RequestIs DEF Request
<1>3. k.op = op /\ k.todo = {Update(i, patch)} /\ k.read = {} /\ k.then = "end"
  BY <1>1, <1>2 DEF Updating, Basic
<1>4. Pending(k) = {Update(i, patch)} BY <1>3 DEF Pending
<1>5. Helped(k) BY <1>3, <1>4 DEF Helped, Update
<1> QED BY <1>1, <1>5, BecomesThat DEF Helps
-----------------------------
\* What a step of support finds.
LEMMA SupportHelps ==
  ASSUME Inv1, HelpInv, TicketsClosed, NEW h \in Handlers, SupportStep(h) \/ SupportRequest(h)
  PROVE  Helps(h)
<1>1. PICK p : p = job[h] OBVIOUS
<1>2. ASSUME NEW k, Unconcerned(k), Begin(h, k) \/ Become(h, k) PROVE Helps(h)
  BY <1>2, BecomesThat, UnconcernedIsHelped DEF Helps
<1>3. ASSUME NEW k, Helped(k), Begin(h, k) \/ Become(h, k) PROVE Helps(h) BY <1>3, BecomesThat DEF Helps
<1>4. ASSUME NEW k, k.at = "end", Become(h, k) PROVE Helps(h) BY <1>4 DEF Become, Helps, Inv1, StoreTyped
<1>5. p.at \in {"answer", "review", "appeal"} => Basic(p) /\ Typed(p) /\ Helped(p) /\ p.todo = {} /\ p.read = {}
  BY <1>1, AtWork DEF Typed, HelpInv
<1>6. CASE AnswerReply(h)
 <2>1. Become(h, [p EXCEPT !.at = "end"]) /\ Basic(p) BY <1>1, <1>5, <1>6 DEF AnswerReply, Doing
 <2>2. [p EXCEPT !.at = "end"].at = "end" BY <2>1 DEF Basic
 <2> QED BY <1>4, <2>1, <2>2
<1>7. CASE FindReview(h)
 <2>1. p.op = "review" /\ p.at = "review" BY <1>1, <1>7 DEF FindReview, Doing
 <2> DEFINE i == ReviewOf(p.key)
 <2>2. \/ \E status, decision : Become(h, Adding(p, Review(p.who, p.key, status, decision), "end"))
       \/ Become(h, [p EXCEPT !.at = "end"])
       \/ /\ i # 0 /\ records[i].status # "resolved"
          /\ Become(h, Updating(p, {Update(i, [status |-> "resolved", decision |-> p.outcome])}, "end"))
   BY <1>1, <1>7 DEF FindReview
 <2>3. ASSUME NEW status, NEW decision, Become(h, Adding(p, Review(p.who, p.key, status, decision), "end"))
       PROVE  Helps(h)
  <3>1. PICK k : k = Adding(p, Review(p.who, p.key, status, decision), "end") OBVIOUS
  <3>2. k.op = "review" /\ k.todo = {} /\ k.read = {} BY <1>5, <2>1, <3>1 DEF Adding, Merge, Basic
  <3>3. Helped(k) BY <3>2 DEF Helped, Pending
  <3> QED BY <1>3, <2>3, <3>1, <3>3
 <2>4. CASE Become(h, [p EXCEPT !.at = "end"])
  <3>1. [p EXCEPT !.at = "end"].at = "end" BY <1>5, <2>1 DEF Basic
  <3> QED BY <1>4, <2>4, <3>1
 <2>5. ASSUME i # 0, records[i].status # "resolved",
              Become(h, Updating(p, {Update(i, [status |-> "resolved", decision |-> p.outcome])}, "end"))
       PROVE  Helps(h)
  <3>1. PICK k : k = Updating(p, {Update(i, [status |-> "resolved", decision |-> p.outcome])}, "end")
    OBVIOUS
  <3>2. /\ k.op = "review" /\ k.read = {}
        /\ k.todo = {Update(i, [status |-> "resolved", decision |-> p.outcome])}
    BY <1>5, <2>1, <3>1 DEF Updating, Basic
  <3>3. i \in Rows /\ records[i].kind = "review"
   <4>1. Sought({n \in 1..Len(records) : records[n].kind = "review" /\ records[n].of = p.key}, ReviewOf(p.key))
     BY ReviewOfFound, SequencePlaces DEF Inv1, StoreTyped
   <4> QED BY <2>5, <4>1 DEF Sought, Rows
  <3>4. \A u \in Pending(k) : u.id = i BY <3>2 DEF Pending, Update
  <3>5. Helped(k) BY <2>5, <3>2, <3>3, <3>4 DEF Helped
  <3> QED BY <1>3, <2>5, <3>1, <3>5
 <2> QED BY <2>2, <2>3, <2>4, <2>5
<1>8. CASE FindAppeal(h)
 <2>1. p.op = "appeal" /\ p.at = "appeal"
       /\ (Become(h, [p EXCEPT !.at = "end"]) \/ Become(h, Adding(p, Appeal(p.who, p.key), "end")))
   BY <1>1, <1>8 DEF FindAppeal, Doing
 <2>2. CASE Become(h, [p EXCEPT !.at = "end"])
  <3>1. [p EXCEPT !.at = "end"].at = "end" BY <1>5, <2>1 DEF Basic
  <3> QED BY <1>4, <2>2, <3>1
 <2>3. CASE Become(h, Adding(p, Appeal(p.who, p.key), "end"))
  <3>1. PICK k : k = Adding(p, Appeal(p.who, p.key), "end") OBVIOUS
  <3>2. k.op = "appeal" /\ k.key = p.key /\ k.todo = {} /\ k.read = {}
    BY <1>5, <2>1, <3>1 DEF Adding, Merge, Basic
  <3>3. Helped(k) BY <1>5, <2>1, <3>2 DEF Helped, Pending
  <3> QED BY <1>3, <2>3, <3>1, <3>3
 <2> QED BY <2>1, <2>2, <2>3
<1>9. CASE ChangeReview(h)
 <2>1. PICK patch : /\ p.op = "decide" /\ p.at = "review"
                    /\ patch = IF p.outcome = "overturned" THEN [appealed |-> TRUE, decision |-> "overturned"]
                               ELSE [appealed |-> TRUE]
                    /\ Become(h, Updating(p, {Update(records[p.key].of, patch)}, "end"))
   BY <1>1, <1>9 DEF ChangeReview, Doing
 <2>2. PICK k : k = Updating(p, {Update(records[p.key].of, patch)}, "end") OBVIOUS
 <2>3. "outcome" \in DOMAIN p /\ p.key \in Rows /\ records[p.key].kind = "appeal"
   BY <1>5, <2>1 DEF Typed, Carries, CarriesMore, CarriesKey
 <2>4. /\ k.op = "decide" /\ k.key = p.key /\ k.read = {} /\ k.then = "end" /\ k.outcome = p.outcome
       /\ k.todo = {Update(records[p.key].of, patch)}
   BY <1>5, <2>1, <2>2, <2>3 DEF Updating, Basic
 <2>5. Pending(k) = {Update(records[p.key].of, patch)} BY <2>4 DEF Pending
 <2>6. p.outcome = "overturned" => "decision" \in DOMAIN patch /\ patch.decision = "overturned" BY <2>1
 <2>7. records[records[p.key].of].kind = "review" BY <2>3 DEF Inv1, StoreTyped, Refers, IsReview
 <2>8. \A u \in Pending(k) : u.id = records[p.key].of /\ u.patch = patch BY <2>5 DEF Update
 <2>9. Helped(k) BY <2>4, <2>6, <2>7, <2>8 DEF Helped
 <2> QED BY <1>3, <2>1, <2>2, <2>9
<1>10. ASSUME NEW a, OpenTicket(h, a) \/ \E b : OpenReport(h, a, b) PROVE Helps(h)
 <2>1. PICK op, key, new : op \in {"ticket", "report"} /\ Begin(h, Adding(Request(op, a, key, "add"), new, "end"))
   BY <1>10 DEF OpenTicket, OpenReport
 <2>2. Unconcerned(Adding(Request(op, a, key, "add"), new, "end"))
   BY <2>1 DEF Unconcerned, Adding, Request, Merge
 <2> QED BY <1>2, <2>1, <2>2
<1>11. ASSUME NEW i \in Rows, Attach(h, i) PROVE Helps(h)
 <2>1. PICK a, patch : Begin(h, Updating(Request("attach", a, i, "update"), {Update(i, patch)}, "end"))
   BY <1>11 DEF Attach
 <2>2. records[i].kind = "ticket" /\ records[i].status # "closed" BY <1>11 DEF Attach
 <2> QED BY <2>1, <2>2, OpenTicketIs, PatcherHelps
<1>12. ASSUME NEW a, NEW i \in Rows, NEW status, SetStatus(h, a, i, status) PROVE Helps(h)
 <2>1. /\ Begin(h, Updating(Request(status, a, i, "update"), {Update(i, [status |-> status])}, "end"))
       /\ records[i].kind = "ticket" /\ status \in Transitions[records[i].status]
   BY <1>12 DEF SetStatus
 <2>2. records[i].status \in DOMAIN Transitions BY <2>1 DEF Inv1, StoreTyped, WellFormed
 <2>3. records[i].status # "closed" /\ status \notin {"reply", "appeal", "review", "decide"}
   BY <2>1, <2>2 DEF Transitions
 <2> QED BY <2>1, <2>3, OpenTicketIs, PatcherHelps
<1>13. ASSUME NEW a, NEW i \in Rows, Escalate(h, a, i) PROVE Helps(h)
 <2>1. /\ Begin(h, Updating(Request("escalate", a, i, "update"), {Update(i, [status |-> "escalated"])}, "end"))
       /\ records[i].kind = "ticket" /\ records[i].status # "closed"
   BY <1>13 DEF Escalate
 <2> QED BY <2>1, OpenTicketIs, PatcherHelps
<1>14. ASSUME NEW a, NEW i \in Rows, AssignAppeal(h, a, i) PROVE Helps(h)
 <2>1. PICK patch : Begin(h, Updating(Request("assign", a, i, "update"), {Update(i, patch)}, "end"))
                    /\ records[i].kind = "appeal"
   BY <1>14 DEF AssignAppeal, MayDecide
 <2> QED BY <2>1, PatcherHelps
<1>15. ASSUME NEW a, NEW i \in Rows, Reply(h, a, i) PROVE Helps(h)
 <2>1. PICK e, j, patch, up :
         /\ e = Entry(a) /\ j = Request("reply", a, i, "update")
              /\ patch = [replies |-> records[i].replies \cup {e}]
         /\ up = Updating(j, {Update(i, patch)}, "answer")
         /\ Begin(h, Merge(up, [entry |-> e])) /\ records[i].kind = "ticket" /\ records[i].status # "closed"
   BY <1>15 DEF Reply
 <2>2. Basic(j) /\ j.op = "reply" /\ j.key = i /\ j.read = {} BY <2>1, RequestIs DEF Request
 <2>3. up.op = "reply" /\ up.key = i /\ up.todo = {Update(i, patch)} /\ up.read = {} /\ up.at = "update"
         /\ Basic(up)
   BY <2>1, <2>2 DEF Updating, Basic
 <2>4. PICK k : k = Merge(up, [entry |-> e]) OBVIOUS
 <2>5. /\ k.op = "reply" /\ k.key = i /\ k.todo = {Update(i, patch)} /\ k.read = {} /\ k.at = "update"
       /\ k.entry = e
   BY <2>3, <2>4 DEF Merge, Basic
 <2>6. \A u \in Pending(k) : u.id = i /\ u.patch = patch BY <2>5 DEF Pending, Update
 <2>7. patch.replies = records[i].replies \cup {e} BY <2>1
 <2>8. \A n : ClosedBefore(i, n) BY <2>1, OpenTicketIs
 <2>9. Helped(k) BY <2>1, <2>5, <2>6, <2>7, <2>8 DEF Helped
 <2> QED BY <1>3, <2>1, <2>4, <2>9
<1>16. ASSUME NEW a, NEW i, NEW outcome, StartReview(h, a, i, outcome) PROVE Helps(h)
 <2>1. PICK k : k = Merge(Request("review", a, i, "review"), [outcome |-> outcome]) /\ Begin(h, k)
   BY <1>16 DEF StartReview
 <2>2. k.op = "review" /\ k.todo = {} /\ k.read = {} BY <2>1 DEF Merge, Request
 <2>3. Helped(k) BY <2>2 DEF Helped, Pending
 <2> QED BY <1>3, <2>1, <2>3
<1>17. ASSUME NEW i \in Rows, StartAppeal(h, i) PROVE Helps(h)
 <2>1. PICK a, k : k = Request("appeal", a, i, "appeal") /\ Begin(h, k) /\ records[i].status = "resolved"
   BY <1>17 DEF StartAppeal
 <2>2. k.op = "appeal" /\ k.key = i /\ k.todo = {} /\ k.read = {} BY <2>1 DEF Request
 <2>3. Helped(k) BY <2>1, <2>2 DEF Helped, Pending
 <2> QED BY <1>3, <2>1, <2>3
<1>18. ASSUME NEW a, NEW i \in Rows, NEW outcome, DecideAppeal(h, a, i, outcome) PROVE Helps(h)
 <2>1. PICK j, patch, up, k :
         /\ j = Request("decide", a, i, "update")
         /\ patch = [status |-> "resolved", reviewer |-> a, outcome |-> outcome]
         /\ up = Updating(j, {Update(i, patch)}, "review") /\ k = Merge(up, [outcome |-> outcome])
         /\ Begin(h, k) /\ records[i].kind = "appeal"
   BY <1>18 DEF DecideAppeal, MayDecide
 <2>2. Basic(j) /\ j.op = "decide" /\ j.key = i /\ j.read = {} BY <2>1, RequestIs DEF Request
 <2>3. up.op = "decide" /\ up.key = i /\ up.todo = {Update(i, patch)} /\ up.read = {} /\ up.then = "review"
         /\ Basic(up)
   BY <2>1, <2>2 DEF Updating, Basic
 <2>4. /\ k.op = "decide" /\ k.key = i /\ k.todo = {Update(i, patch)} /\ k.read = {} /\ k.then = "review"
       /\ k.outcome = outcome
   BY <2>1, <2>3 DEF Merge, Basic
 <2>5. \A u \in Pending(k) : u.id = i /\ u.patch = patch BY <2>4 DEF Pending, Update
 <2>6. patch.outcome = outcome BY <2>1
 <2>7. Helped(k) BY <2>1, <2>4, <2>5, <2>6 DEF Helped
 <2> QED BY <1>3, <2>1, <2>7
<1>19. CASE SupportStep(h) BY <1>6, <1>7, <1>8, <1>9, <1>19 DEF SupportStep
<1>20. CASE SupportRequest(h)
  BY <1>10, <1>11, <1>12, <1>13, <1>14, <1>15, <1>16, <1>17, <1>18, <1>20 DEF SupportRequest, Rows
<1> QED BY <1>19, <1>20

\* What a request has found stays right when it adds, reads or writes a row.
LEMMA StoreHelps ==
  ASSUME Inv1, HelpInv, [PlatformNext]_platformVars, NEW h \in Handlers, StoreStep(h)
  PROVE  \A k : k = job'[h] => k = Idle \/ Helped(k)'
<1>1. PICK p : p = job[h] OBVIOUS
<1>2. p.at \in {"add", "update"} BY <1>1, Zenon DEF StoreStep, AddRow, ReadRow, WriteRow
<1>3. Typed(p) /\ Basic(p) /\ p # Idle /\ Helped(p) BY <1>1, <1>2, AtWork DEF HelpInv
<1>4. Helped(p)' BY <1>3, HelpedStays
<1>5. CASE AddRow(h)
 <2>1. p.at = "add" BY <1>1, <1>5 DEF AddRow
 <2>2. NewRow(p, p.new, p.then) BY <1>3, <2>1 DEF Typed
 <2>3. p.then = "end" \/ p.op \notin SupportOps
   BY <2>2 DEF NewRow, SupportOps, Reached, Transitions, Players, Controls
 <2>4. \A k : k = job'[h] =>
         \/ k = Idle
         \/ Later(k, p) /\ k.at = p.then /\ k.at # "end" /\ k.todo = {} /\ k.read = {}
   BY <1>1, <1>5, AddGoesOn
 <2>5. ASSUME NEW k, Later(k, p), p.op \notin SupportOps, k.todo = {}, k.read = {} PROVE Helped(k)'
  <3>1. k.op \notin {"reply", "appeal", "review", "decide"} BY <2>5 DEF Later, SupportOps
  <3> QED BY <2>5, <3>1 DEF Helped, Pending
 <2> QED BY <2>3, <2>4, <2>5
<1>6. CASE ReadRow(h)
 <2>1. SUFFICES ASSUME NEW k, k = job'[h] PROVE Helped(k)' OBVIOUS
 <2>2. /\ Later(k, p) /\ k.at = "update" /\ Pending(k) = Pending(p)
       /\ \E u \in p.todo : k.todo = p.todo \ {u} /\ k.read = p.read \cup {[u |-> u, copy |-> records[u.id]]}
   BY <1>1, <1>6, <2>1, ReadGoesOn
 <2>3. p.at = "update" /\ Carries(p, p.at) BY <1>1, <1>3, <1>6 DEF ReadRow, Typed
 <2>4. (p.op = "reply" => k.entry = p.entry) /\ (p.op \in {"review", "decide"} => k.outcome = p.outcome)
   BY <2>2, <2>3 DEF Carries, CarriesMore, Later
 <2>5. ASSUME (\E u : p.todo = {u} /\ p.read = {}) \/ (\E r : p.todo = {} /\ p.read = {r})
       PROVE  \E r : k.todo = {} /\ k.read = {r}
   BY <2>2, <2>5
 <2> QED BY <1>4, <2>2, <2>3, <2>4, <2>5 DEF Helped, Later
<1>7. CASE WriteRow(h)
 <2>1. PICK r : Written(h, r) BY <1>7, WriteGoesOn
 <2>2. SUFFICES ASSUME NEW k, k = job'[h], k # Idle PROVE Helped(k)' OBVIOUS
 <2>3. /\ Later(k, p) /\ k.todo = p.todo /\ k.read = p.read \ {r}
       /\ \/ p.todo = {} /\ p.read = {r} /\ k.at = p.then /\ k.at # "end"
          \/ k.at = "update" /\ ~(p.todo = {} /\ p.read = {r})
   BY <1>1, <2>1, <2>2 DEF Written
 <2>4. p.at = "update" /\ Carries(p, p.at) /\ r \in p.read /\ r.u.id \in Rows /\ Mend(p, r.u, p.then)
   BY <1>1, <1>3, <2>1 DEF Written, Typed
 <2>5. (p.op = "reply" => k.entry = p.entry) /\ (p.op \in {"review", "decide"} => k.outcome = p.outcome)
   BY <2>3, <2>4 DEF Carries, CarriesMore, Later
 <2>6. Pending(k) \subseteq Pending(p) BY <2>3 DEF Pending
 <2>7. ASSUME p.op = "reply" PROVE ReplyIn(p.key, p.entry)'
  <3>1. r.u.id = p.key /\ p.entry \in r.u.patch.replies BY <1>3, <2>4, <2>7 DEF Helped, Pending
  <3>2. records'[p.key] = Merge(r.copy, r.u.patch)
   <4>1. DOMAIN records = Rows BY SequencePlaces DEF Inv1, StoreTyped, Rows
   <4> QED BY <2>1, <3>1, <4>1 DEF Written
  <3>3. "replies" \in DOMAIN r.u.patch BY <2>4, <2>7 DEF Mend, Mends, Reached, Transitions
  <3>4. records'[p.key].replies = r.u.patch.replies BY <3>2, <3>3, FieldsOf
  <3> QED BY <3>1, <3>4 DEF ReplyIn
 <2>8. k.at = "update" =>
         ~((\E u : p.todo = {u} /\ p.read = {}) \/ (\E q : p.todo = {} /\ p.read = {q}))
  <3>1. p.then # "update" BY <2>4 DEF Mend, Mends
  <3>2. \A q : p.read = {q} => q = r BY <2>4
  <3> QED BY <2>3, <2>4, <3>1, <3>2
 <2>9. k.then = p.then /\ k.op = p.op /\ k.key = p.key /\ k.began = p.began BY <2>3 DEF Later
 <2>10. k.at = "answer" /\ k.op = "reply" => ReplyIn(k.key, k.entry)' BY <2>5, <2>7, <2>9
 <2> QED BY <1>4, <2>4, <2>5, <2>6, <2>8, <2>9, <2>10 DEF Helped
<1> QED BY <1>5, <1>6, <1>7 DEF StoreStep
-----------------------------
\* Requests of support share no kind with those of other services.
LEMMA SupportApart ==
  /\ RoomOps \cap SupportOps = {} /\ BreakoutOps \cap SupportOps = {} /\ MusicOps \cap SupportOps = {}
  /\ NoticeOps \cap SupportOps = {} /\ (OtherOps \ RoomOps) \cap SupportOps = {}
<1>1. OtherOps \cap SupportOps = {}
  BY DEF OtherOps, SupportOps, Reached, Transitions, SocialOps, NoticeOps, ChatOps, PrivacyOps, RoomOps,
     ViewOps, SessionOps, AdminOps, Lists, Tabs
<1>2. BreakoutOps \cap SupportOps = {} /\ MusicOps \cap SupportOps = {}
  BY DEF SupportOps, Reached, Transitions, BreakoutOps, MusicOps, Players, Controls
<1> QED BY <1>1, <1>2 DEF OtherOps

\* So a step is one of support, or leaves it alone.
LEMMA SupportSteps ==
  ASSUME Inv1, [PlatformNext]_platformVars
  PROVE  \/ \E h \in Handlers : \E ops : Acts(h, ops) /\ ops \cap SupportOps = {}
         \/ \E h \in Handlers : (SupportStep(h) \/ SupportRequest(h)) /\ Acts(h, SupportOps)
         \/ \E h \in Handlers : StoreStep(h) \/ CutOff(h)
         \/ UNCHANGED storeVars
<1>1. CASE \E h \in Handlers : \E ops \in {RoomOps, BreakoutOps, MusicOps, NoticeOps, OtherOps \ RoomOps} : Acts(h,
             ops)
  BY <1>1, SupportApart
<1> QED BY <1>1, ServiceSteps

\* A step of the store concerns one request.
LEMMA OneInStore ==
  ASSUME Inv1, NEW h \in Handlers, StoreStep(h) \/ CutOff(h)
  PROVE  /\ \A g \in Handlers : g # h => job'[g] = job[g]
         /\ CutOff(h) => job'[h] = Idle /\ dropped' = dropped \cup {<<job[h].op, job[h].key>>}
         /\ StoreStep(h) => dropped' = dropped
<1>1. DOMAIN job = Handlers BY DEF Inv1, StoreTyped
<1>2. ASSUME AddRow(h) PROVE \A g \in Handlers : g # h => job'[g] = job[g] BY <1>1, <1>2 DEF AddRow, Onward
<1>3. ASSUME ReadRow(h) PROVE \A g \in Handlers : g # h => job'[g] = job[g] BY <1>1, <1>3 DEF ReadRow
<1>4. ASSUME WriteRow(h) PROVE \A g \in Handlers : g # h => job'[g] = job[g]
  BY <1>1, <1>4 DEF WriteRow, Onward
<1>5. ASSUME CutOff(h) PROVE \A g \in Handlers : g # h => job'[g] = job[g] BY <1>1, <1>5 DEF CutOff
<1>6. CutOff(h) => job'[h] = Idle /\ dropped' = dropped \cup {<<job[h].op, job[h].key>>} BY <1>1 DEF CutOff
<1>7. StoreStep(h) => dropped' = dropped BY DEF StoreStep, AddRow, ReadRow, WriteRow
<1> QED BY <1>2, <1>3, <1>4, <1>5, <1>6, <1>7 DEF StoreStep

\* What requests have found is right.
LEMMA HelpKeeps ==
  ASSUME Inv1, HelpInv, TicketsClosed, [PlatformNext]_platformVars
  PROVE  HelpInv'
<1>1. ASSUME NEW p, p = Idle \/ (Typed(p) /\ Helped(p)) PROVE p = Idle \/ Helped(p)' BY <1>1, HelpedStays
<1>2. \A g \in Handlers : job[g] = Idle \/ (Typed(job[g]) /\ Helped(job[g])) BY DEF Inv1, JobsTyped, HelpInv
<1>3. ASSUME \A g \in Handlers : \A p : p = job'[g] => p = Idle \/ Helped(p)' PROVE HelpInv'
 <2> SUFFICES ASSUME NEW g \in Handlers PROVE (job[g] = Idle \/ Helped(job[g]))' BY DEF HelpInv
 <2>1. \A p : p = job'[g] => p = Idle \/ Helped(p)' BY <1>3
 <2>2. \A p : p = Idle => p = Idle' BY DEF Idle
 <2> QED BY <2>1, <2>2
<1>4. ASSUME NEW h \in Handlers, NEW ops, Acts(h, ops), Helps(h) PROVE HelpInv'
 <2>1. \A g \in Handlers : g # h => job'[g] = job[g] BY <1>4, OneActs
 <2>2. job'[h] = Idle \/ (Typed(job'[h]) /\ Helped(job'[h])) BY <1>4, ActorsAreTyped DEF Helps
 <2> QED BY <1>1, <1>2, <1>3, <2>1, <2>2
<1>5. CASE \E h \in Handlers : \E ops : Acts(h, ops) /\ ops \cap SupportOps = {} BY <1>4, <1>5, OthersHelp
<1>6. CASE \E h \in Handlers : (SupportStep(h) \/ SupportRequest(h)) /\ Acts(h, SupportOps)
  BY <1>4, <1>6, SupportHelps
<1>7. CASE \E h \in Handlers : StoreStep(h) \/ CutOff(h)
 <2>1. PICK h \in Handlers : StoreStep(h) \/ CutOff(h) BY <1>7
 <2>2. \A g \in Handlers : g # h => job'[g] = job[g] BY <2>1, OneInStore
 <2>3. \A p : p = job'[h] => p = Idle \/ Helped(p)' BY <2>1, OneInStore, StoreHelps
 <2> QED BY <1>1, <1>2, <1>3, <2>2, <2>3
<1>8. CASE UNCHANGED storeVars BY <1>1, <1>2, <1>3, <1>8 DEF storeVars, handlerVars
<1> QED BY <1>5, <1>6, <1>7, <1>8, SupportSteps

\* A ticket that was closed stays closed, and was not written by requests that
\* began afterwards.
LEMMA TicketsClosedKeeps ==
  ASSUME Inv1, HelpInv, TicketsClosed, [PlatformNext]_platformVars
  PROVE  TicketsClosed'
<1> SUFFICES ASSUME NEW i \in Rows', records'[i].kind = "ticket", NEW s \in trace'[i], s.op = "closed",
                    ~Disordered(i)'
             PROVE  records'[i].status = "closed" /\ \A t \in trace'[i] : t.began < s.wrote
  BY DEF TicketsClosed, StaysClosed
<1>1. CASE i \notin Rows
 <2>1. PICK h \in Handlers : /\ AddRow(h) /\ Adds1(h) /\ writes' = writes + 1 /\ i = Len(records) + 1
                             /\ records'[i] = job[h].new /\ trace'[i] = {Span(h)}
   BY <1>1, NewRowIs
 <2>2. NewRow(job[h], job[h].new, job[h].then) /\ job[h].new.kind = "ticket" /\ job[h].op = "closed"
   BY <2>1 DEF Adds1, Typed, Span
 <2> QED BY <2>2 DEF NewRow, Players, Controls
<1>2. CASE i \in Rows
 <2>1. /\ RowsMove /\ records[i].kind = "ticket" /\ writes \in Nat
   BY <1>2, RowsMoveOn, Inv1Keeps DEF RowsKept, SameRow, Inv1, StoreTyped
 <2>2. ~Disordered(i) /\ (\A t \in trace[i] : t.began < t.wrote /\ t.wrote <= writes /\ t.began \in Nat
         /\ t.wrote \in Nat)
   BY <1>2, <2>1, HistoryGrows DEF Inv1, StoreTyped
 <2>3. StaysClosed(i) BY <1>2, <2>1 DEF TicketsClosed
 <2>4. CASE records'[i] = records[i] /\ trace'[i] = trace[i] BY <2>2, <2>3, <2>4 DEF StaysClosed
 <2>5. ASSUME NEW h \in Handlers, NEW r, Patches(h, i, r)
       PROVE  records'[i].status = "closed" /\ \A t \in trace'[i] : t.began < s.wrote
  <3>1. /\ trace'[i] = trace[i] \cup {Span(h)} /\ records'[i] = Merge(records[i], r.u.patch)
        /\ Mend(job[h], r.u, job[h].then) /\ r.u.id = i /\ r.u \in Pending(job[h]) /\ Helped(job[h])
        /\ job[h].began \in Nat /\ job[h].began <= writes
    BY <2>5 DEF Patches, Written, HelpInv, Typed
  <3>2. Span(h).began = job[h].began /\ Span(h).wrote = writes + 1 /\ Span(h).op = job[h].op BY DEF Span
  <3>3. s \notin trace[i]
   <4>1. SUFFICES ASSUME s \in trace[i] PROVE FALSE OBVIOUS
   <4>2. job[h].began < s.wrote BY <2>1, <2>2, <3>1, <4>1 DEF Helped, ClosedBefore
   <4>3. Overtook(Span(h), s) BY <2>1, <2>2, <3>2, <4>1, <4>2 DEF Overtook
   <4> QED BY <3>1, <4>1, <4>3 DEF Disordered, Overlap
  <3>4. s = Span(h) BY <3>1, <3>3
  <3>5. Mends("closed", "ticket", r.u.patch, job[h].then) BY <2>1, <3>1, <3>2, <3>4 DEF Mend
  <3>6. r.u.patch = [status |-> "closed"] BY <3>5, TicketPatches
  <3>7. records'[i].status = "closed" BY <3>1, <3>6, FieldsOf
  <3> QED BY <2>1, <2>2, <3>1, <3>2, <3>4, <3>7
 <2> QED BY <1>2, <2>4, <2>5, RowMoves
<1> QED BY <1>1, <1>2

\* Replies are answered by the requests that have made them.
LEMMA AnsweredBy ==
  ASSUME [PlatformNext]_platformVars
  PROVE  answered' = answered \/ \E h \in Handlers : AnswerReply(h)
<1>1. ASSUME NEW h \in Handlers, SupportRequest(h) PROVE answered' = answered
  BY <1>1 DEF SupportRequest, OpenTicket, OpenReport, Attach, StartAppeal, Reply, Escalate, AssignAppeal,
     SetStatus, StartReview, DecideAppeal
<1>2. ASSUME NEW h \in Handlers, SupportStep(h) PROVE answered' = answered \/ AnswerReply(h)
  BY <1>2 DEF SupportStep, FindReview, FindAppeal, ChangeReview
<1>3. CASE Supporting BY <1>1, <1>2, <1>3 DEF Supporting
<1>4. CASE UNCHANGED platformVars BY <1>4 DEF platformVars
<1>5. CASE \/ Viewing \/ Hiding \/ Administering \/ Happening \/ Staying
           \/ Records \/ Notices \/ Socializing \/ Chatting \/ KeepingAway
           \/ Rooming \/ BreakingOut \/ PlayingMusic \/ LoggingIn
  BY <1>5 DEF Viewing, Hiding, Administering, Happening, Staying, Records, Notices, Socializing, Chatting,
     KeepingAway, Rooming, BreakingOut, PlayingMusic, LoggingIn
<1> QED BY <1>3, <1>4, <1>5 DEF PlatformNext

\* Replies that were answered stay.
LEMMA RepliedKeeps ==
  ASSUME Inv1, HelpInv, Replied, [PlatformNext]_platformVars
  PROVE  Replied'
<1>1. RowsMove /\ \A i \in Rows : i \in Rows' /\ records'[i].kind = records[i].kind
  BY RowsMoveOn, Inv1Keeps DEF RowsKept, SameRow
<1>2. ASSUME NEW x, x.ticket \in Rows, records[x.ticket].kind = "ticket", ReplyIn(x.ticket, x.entry)
      PROVE  x.ticket \in Rows' /\ records'[x.ticket].kind = "ticket" /\ ReplyIn(x.ticket, x.entry)'
  BY <1>1, <1>2, RepliesStay, HistoryGrows DEF ReplyIn
<1>3. ASSUME NEW h \in Handlers, AnswerReply(h), NEW x \in answered', x \notin answered
      PROVE  x.ticket \in Rows /\ records[x.ticket].kind = "ticket" /\ ReplyIn(x.ticket, x.entry)
 <2>1. job[h].op = "reply" /\ job[h].at = "answer" /\ x = [ticket |-> job[h].key, entry |-> job[h].entry]
   BY <1>3 DEF AnswerReply, Doing
 <2>2. Helped(job[h]) BY <2>1 DEF HelpInv, Idle
 <2> QED BY <2>1, <2>2 DEF Helped
<1>4. \A x \in answered' : x.ticket \in Rows /\ records[x.ticket].kind = "ticket" /\ ReplyIn(x.ticket, x.entry)
  BY <1>3, AnsweredBy DEF Replied
<1> QED BY <1>2, <1>4 DEF Replied
-----------------------------
\* Who begins with a request of support was idle.
LEMMA RequestersAreIdle ==
  ASSUME NEW h \in Handlers, SupportRequest(h)
  PROVE  job[h] = Idle
<1>1. \E k : Begin(h, k)
  BY DEF SupportRequest, OpenTicket, OpenReport, Attach, StartAppeal, Reply, Escalate, AssignAppeal,
     SetStatus, StartReview, DecideAppeal
<1> QED BY <1>1 DEF Begin, Accept, Ready

\* A request that has overturned an appeal overturns the review, or is cut off.
LEMMA OverturnGoesOn ==
  ASSUME Inv1, HelpInv, [PlatformNext]_platformVars, NEW i \in Rows, records[i].kind = "appeal",
         NEW h \in Handlers, Overturns(h, i)
  PROVE  \/ Overturns(h, i)'
         \/ WasCutOff("decide", i)'
         \/ records'[records[i].of].decision = "overturned"
<1>1. PICK p : p = job[h] OBVIOUS
<1>2. /\ p # Idle /\ p.op = "decide" /\ p.key = i /\ p.outcome = "overturned"
      /\ p.at = "review" \/ (p.at = "update" /\ p.then = "end")
  BY <1>1 DEF Overturns
<1>3. Typed(p) /\ Basic(p) /\ Helped(p) /\ "outcome" \in DOMAIN p
  BY <1>1, <1>2 DEF Inv1, JobsTyped, Typed, Carries, CarriesMore, HelpInv
<1>4. ASSUME NEW k, k = job'[h], k.op = "decide", k.key = i, k.outcome = "overturned",
             k.at = "review" \/ (k.at = "update" /\ k.then = "end")
      PROVE  Overturns(h, i)'
  BY <1>4 DEF Overturns, Idle
<1>5. ASSUME job'[h] = p PROVE Overturns(h, i)' BY <1>2, <1>4, <1>5
<1>6. ASSUME NEW g \in Handlers, NEW ops, Acts(g, ops), ops \cap SupportOps = {} PROVE job'[h] = p
 <2>1. p.op \notin ops BY <1>2, <1>6 DEF SupportOps
 <2>2. g # h BY <1>1, <1>2, <1>6, <2>1 DEF Acts, Works
 <2> QED BY <1>1, <1>6, <2>2, OneActs
<1>7. ASSUME NEW g \in Handlers, SupportStep(g) \/ SupportRequest(g), Acts(g, SupportOps)
      PROVE  Overturns(h, i)'
 <2>1. CASE g # h BY <1>1, <1>5, <1>7, <2>1, OneActs
 <2>2. CASE g = h
  <3>1. ChangeReview(h)
    BY <1>1, <1>2, <1>7, <2>2, RequestersAreIdle DEF SupportStep, AnswerReply, FindReview, FindAppeal, Doing
  <3>2. PICK patch, k : k = Updating(p, {Update(records[p.key].of, patch)}, "end") /\ Become(h, k)
    BY <1>1, <3>1 DEF ChangeReview
  <3>3. k.op = "decide" /\ k.key = i /\ k.outcome = "overturned" /\ k.at = "update" /\ k.then = "end"
    BY <1>2, <1>3, <3>2 DEF Updating, Basic
  <3>4. job'[h] = k BY <3>2, <3>3, BecomesThat
  <3> QED BY <1>4, <3>3, <3>4
 <2> QED BY <2>1, <2>2
<1>8. ASSUME NEW g \in Handlers, StoreStep(g) \/ CutOff(g), g # h PROVE job'[h] = p
  BY <1>1, <1>8, OneInStore
<1>9. CASE AddRow(h) BY <1>1, <1>2, <1>9 DEF AddRow
<1>10. CASE ReadRow(h)
 <2>1. PICK k : k = job'[h] OBVIOUS
 <2>2. Later(k, p) /\ k.at = "update" /\ p.at = "update" BY <1>1, <1>10, <2>1, ReadGoesOn
 <2>3. k.op = "decide" /\ k.key = i /\ k.outcome = "overturned" /\ k.then = "end"
   BY <1>2, <1>3, <2>2 DEF Later
 <2> QED BY <1>4, <2>1, <2>2, <2>3
<1>11. CASE WriteRow(h)
 <2>1. PICK r \in p.read : Written(h, r) BY <1>1, <1>11, WriteGoesOn
 <2>2. p.at = "update" /\ p.then = "end" BY <1>1, <1>2, <2>1 DEF Written
 <2>3. PICK k : k = job'[h] OBVIOUS
 <2>4. CASE k = Idle
  <3>1. r.u \in Pending(p) BY <2>1, PendingIs
  <3>2. r.u.id = records[i].of /\ "decision" \in DOMAIN r.u.patch /\ r.u.patch.decision = "overturned"
    BY <1>2, <1>3, <2>2, <3>1 DEF Helped
  <3>3. DOMAIN records = Rows /\ r.u.id \in Rows BY <2>1, SequencePlaces DEF Inv1, StoreTyped, Rows, Written
  <3>4. records'[r.u.id] = Merge(r.copy, r.u.patch) BY <2>1, <3>3 DEF Written
  <3>5. records'[r.u.id].decision = "overturned" BY <3>2, <3>4, FieldsOf
  <3> QED BY <3>2, <3>5
 <2>5. CASE k # Idle
  <3>1. Later(k, p) /\ k.at = "update" BY <1>1, <2>1, <2>2, <2>3, <2>5 DEF Written
  <3>2. k.op = "decide" /\ k.key = i /\ k.outcome = "overturned" /\ k.then = "end"
    BY <1>2, <1>3, <2>2, <3>1 DEF Later
  <3> QED BY <1>4, <2>3, <3>1, <3>2
 <2> QED BY <2>4, <2>5
<1>12. CASE CutOff(h)
 <2>1. <<p.op, p.key>> \in dropped' BY <1>1, <1>12, OneInStore
 <2> QED BY <1>2, <2>1 DEF WasCutOff
<1>13. CASE UNCHANGED storeVars BY <1>1, <1>5, <1>13 DEF storeVars, handlerVars
<1>14. CASE \E g \in Handlers : \E ops : Acts(g, ops) /\ ops \cap SupportOps = {} BY <1>5, <1>6, <1>14
<1>15. CASE \E g \in Handlers : (SupportStep(g) \/ SupportRequest(g)) /\ Acts(g, SupportOps) BY <1>7, <1>15
<1>16. CASE \E g \in Handlers : StoreStep(g) \/ CutOff(g)
 <2>1. PICK g \in Handlers : StoreStep(g) \/ CutOff(g) BY <1>16
 <2>2. CASE g # h BY <1>5, <1>8, <2>1, <2>2
 <2>3. CASE g = h BY <1>9, <1>10, <1>11, <1>12, <2>1, <2>3 DEF StoreStep
 <2> QED BY <2>2, <2>3
<1> QED BY <1>13, <1>14, <1>15, <1>16, SupportSteps

\* Who adds an appeal.
LEMMA AppealIsAdded ==
  ASSUME NEW j, NEW new, NEW then, NewRow(j, new, then), new.kind = "appeal"
  PROVE  j.op = "appeal" /\ new = Appeal(j.who, j.key)
  BY DEF NewRow, Relation, Membership, Seat, Ban, Logged, Breakout, Attending, Dj, Track, NewPlayer, Ticket,
     Report, Review

\* An appeal becomes overturned by a request that overturns its review next.
LEMMA OverturnBegins ==
  ASSUME Inv1, HelpInv, NEW i \in Rows, records[i].kind = "appeal", records[i].outcome # "overturned",
         NEW h \in Handlers, NEW r, Patches(h, i, r), records'[i].outcome = "overturned"
  PROVE  Overturns(h, i)'
<1>1. PICK p : p = job[h] OBVIOUS
<1>2. /\ Mend(p, r.u, p.then) /\ r.u.id = i /\ r.u \in Pending(p) /\ Typed(p) /\ p # Idle /\ p.at = "update"
      /\ r \in p.read /\ records'[i] = Merge(records[i], r.u.patch)
  BY <1>1 DEF Patches, Written
<1>3. Helped(p) /\ "outcome" \in DOMAIN records[i] BY <1>1, <1>2 DEF HelpInv, Inv1, StoreTyped, WellFormed
<1>4. /\ \A f \in DOMAIN r.u.patch : records'[i][f] = r.u.patch[f]
      /\ \A f \in DOMAIN records[i] : f \notin DOMAIN r.u.patch => records'[i][f] = records[i][f]
  BY <1>2, FieldsOf
<1>5. "outcome" \in DOMAIN r.u.patch BY <1>3, <1>4
<1>6. Mends(p.op, "appeal", r.u.patch, p.then) BY <1>2 DEF Mend
<1>7. p.op = "decide" /\ p.then = "review" BY <1>5, <1>6, AppealPatches
<1>8. p.key = i /\ p.outcome = "overturned" BY <1>2, <1>3, <1>4, <1>5, <1>7 DEF Helped
<1>9. p.todo = {} /\ p.read = {r} BY <1>2, <1>3, <1>7 DEF Helped
<1>10. "outcome" \in DOMAIN p BY <1>2, <1>7 DEF Typed, Carries, CarriesMore
<1>11. PICK k : k = job'[h] OBVIOUS
<1>12. Later(k, p) /\ k.at = "review" BY <1>1, <1>7, <1>9, <1>11 DEF Patches, Written
<1>13. k.op = "decide" /\ k.key = i /\ k.outcome = "overturned" BY <1>7, <1>8, <1>10, <1>12 DEF Later
<1> QED BY <1>11, <1>12, <1>13 DEF Overturns, Idle

\* An appeal is about a resolved review, and is overturned with it.
LEMMA AppealsKeep ==
  ASSUME Inv1, HelpInv, AppealsRight, [PlatformNext]_platformVars
  PROVE  AppealsRight'
<1> SUFFICES ASSUME NEW i \in Rows', records'[i].kind = "appeal", NEW k, k = records'[i].of,
                    ~Disordered(i)', ~Disordered(k)'
             PROVE  /\ records'[k].status = "resolved"
                    /\ records'[i].outcome = "overturned" =>
                         records'[k].decision = "overturned" \/ WasCutOff("decide",
                           i)' \/ \E h \in Handlers : Overturns(h, i)'
  BY DEF AppealsRight, AppealRight
<1>1. RowsMove /\ dropped \subseteq dropped' /\ \A n \in Rows : SameRow(records'[n], records[n])
  BY RowsMoveOn, DroppedGrows, Inv1Keeps DEF RowsKept
<1>2. CASE i \notin Rows
 <2>1. PICK h \in Handlers : /\ AddRow(h) /\ Adds1(h) /\ writes' = writes + 1 /\ i = Len(records) + 1
                             /\ records'[i] = job[h].new /\ trace'[i] = {Span(h)}
   BY <1>2, NewRowIs
 <2>2. NewRow(job[h], job[h].new, job[h].then) /\ job[h].new.kind = "appeal" /\ Helped(job[h])
         /\ Carries(job[h], job[h].at)
   BY <2>1 DEF Adds1, Typed, HelpInv
 <2>3. job[h].op = "appeal" /\ job[h].new = Appeal(job[h].who, job[h].key) BY <2>2, AppealIsAdded
 <2>4. k = job[h].key /\ records'[i].outcome = "none" BY <2>1, <2>3 DEF Appeal
 <2>5. k \in Rows /\ (Disordered(k) \/ records[k].status = "resolved")
   BY <2>2, <2>3, <2>4 DEF Helped, Carries, CarriesKey, IsReview
 <2>6. records'[k] = records[k] BY <2>1, <2>5 DEF Adds1
 <2> QED BY <1>1, <2>4, <2>5, <2>6, HistoryGrows
<1>3. CASE i \in Rows
 <2>1. records[i].kind = "appeal" /\ k = records[i].of BY <1>1, <1>3 DEF SameRow
 <2>2. k \in Rows /\ records[k].kind = "review" BY <1>3, <2>1 DEF Inv1, StoreTyped, Refers, IsReview
 <2>3. ~Disordered(i) /\ ~Disordered(k) BY <1>1, <1>3, <2>2, HistoryGrows
 <2>4. /\ records[k].status = "resolved"
       /\ records[i].outcome = "overturned" =>
            records[k].decision = "overturned" \/ WasCutOff("decide", i) \/ \E h \in Handlers : Overturns(h, i)
   BY <1>3, <2>1, <2>3 DEF AppealsRight, AppealRight
 <2>5. records'[k].status = "resolved"
         /\ (records[k].decision = "overturned" => records'[k].decision = "overturned")
   BY <2>2, <2>4, ReviewsStay
 <2>6. ASSUME records'[i].outcome = "overturned"
       PROVE  records'[k].decision = "overturned" \/ WasCutOff("decide", i)' \/ \E h \in Handlers : Overturns(h,
                i)'
  <3>1. CASE records[i].outcome = "overturned"
   <4>1. CASE records[k].decision = "overturned" BY <2>5, <4>1
   <4>2. CASE WasCutOff("decide", i) BY <1>1, <4>2 DEF WasCutOff
   <4>3. CASE \E h \in Handlers : Overturns(h, i) BY <1>3, <2>1, <4>3, OverturnGoesOn
   <4> QED BY <2>4, <3>1, <4>1, <4>2, <4>3
  <3>2. CASE records[i].outcome # "overturned"
   <4>1. \E h \in Handlers : \E r : Patches(h, i, r) BY <1>3, <2>6, <3>2, RowMoves
   <4> QED BY <1>3, <2>1, <2>6, <3>2, <4>1, OverturnBegins
  <3> QED BY <3>1, <3>2
 <2> QED BY <2>5, <2>6
<1> QED BY <1>2, <1>3
-----------------------------
\* At first nobody has begun, and appeals are what an earlier use left.
LEMMA InitHelp ==
  ASSUME PlatformInit
  PROVE  HelpDesk
<1>1. (\A h \in Handlers : job[h] = Idle) /\ answered = {} BY DEF PlatformInit, HandlersInit, SupportInit
<1>2. PICK seed \in Seeds[serving] : StoreInit(seed) BY DEF PlatformInit
<1>3. serving \in Services BY DEF PlatformInit
<1>4. records = seed /\ \A i \in Rows : trace[i] = {} BY <1>2 DEF StoreInit, Rows
<1>5. \A i \in OfKind(seed, "appeal") :
        seed[seed[i].of].status = "resolved"
          /\ (seed[i].outcome = "overturned" => seed[seed[i].of].decision = "overturned")
  BY <1>2, <1>3, SettledAssumption
<1>6. HelpInv /\ Replied BY <1>1 DEF HelpInv, Replied
<1>7. TicketsClosed BY <1>4 DEF TicketsClosed, StaysClosed
<1>8. AppealsRight BY <1>4, <1>5 DEF AppealsRight, AppealRight, OfKind, Rows
<1> QED BY <1>6, <1>7, <1>8 DEF HelpDesk

\* That is what support promises.
LEMMA HelpDeskIsSound ==
  ASSUME HelpDesk
  PROVE  SupportSound
<1>1. \A x \in answered : Disordered(x.ticket) \/ x.entry \in records[x.ticket].replies
  BY DEF HelpDesk, Replied, ReplyIn
<1>2. \A i \in Kind("ticket") : \A s \in trace[i] : s.op = "closed" /\ ~Disordered(i) =>
        records[i].status = "closed" /\ \A t \in trace[i] : t.began < s.wrote
  BY DEF HelpDesk, TicketsClosed, StaysClosed, Kind, Where, Rows
<1>3. ASSUME NEW i, \E h \in Handlers : Overturns(h, i) PROVE InFlight("decide", i, {"update", "review"})
  BY <1>3 DEF Overturns, InFlight
<1>4. \A i \in Kind("appeal") : i \in Rows /\ records[i].kind = "appeal" BY DEF Kind, Where, Rows
<1>5. \A i \in Kind("appeal") : AppealRight(i) BY <1>4 DEF HelpDesk, AppealsRight
<1> QED BY <1>1, <1>2, <1>3, <1>5, Zenon DEF SupportSound, AppealRight

\* Replies that were answered stay, tickets that were closed stay closed, and
\* overturned appeals overturn what they are about.
THEOREM SupportIsSound == PlatformSpec => []SupportSound
<1> DEFINE I == PlatformInv /\ HelpDesk
<1>1. PlatformInit => I BY InitPlatform, InitHelp
<1>2. I /\ [PlatformNext]_platformVars => I'
  BY PlatformKeeps, HelpKeeps, TicketsClosedKeeps, RepliedKeeps, AppealsKeep DEF PlatformInv, HelpDesk
<1>3. I => SupportSound BY HelpDeskIsSound
<1> QED BY <1>1, <1>2, <1>3, PTL DEF PlatformSpec
-----------------------------
(* How many there are: a set of rows of which some have raced as soon as
   they are too many. *)

\* Of any of them that are more than cap, two have raced or one is disordered.
Crowded(S, cap) ==
  \A X \in SUBSET S : Cardinality(X) > cap => \E i, k \in X : Raced(i, k) /\ (i # k \/ Disordered(i))

\* It is true of fewer rows, whatever happens.
LEMMA CrowdShrinks ==
  ASSUME RowsMove, NEW S \in SUBSET Rows, NEW cap, Crowded(S, cap), NEW T, \A i \in T : i \in S \/ Disordered(i)',
         IsFiniteSet(T), cap \in Nat
  PROVE  Crowded(T, cap)'
<1> SUFFICES ASSUME NEW X \in SUBSET T, Cardinality(X) > cap
             PROVE  \E i, k \in X : Raced(i, k)' /\ (i # k \/ Disordered(i)')
  BY DEF Crowded
<1>1. CASE \E i \in X : Disordered(i)' BY <1>1 DEF Raced
<1>2. CASE X \in SUBSET S
 <2>1. PICK i, k \in X : Raced(i, k) /\ (i # k \/ Disordered(i)) BY <1>2 DEF Crowded
 <2>2. i \in Rows /\ k \in Rows BY <1>2
 <2>3. Raced(i, k)' /\ (i # k \/ Disordered(i)') BY <2>1, <2>2, HistoryGrows DEF Raced
 <2> QED BY <2>3
<1> QED BY <1>1, <1>2

\* And of one more, which h writes when it has found that there is room for one
\* beside those that were renewed since.
LEMMA CrowdGrows ==
  ASSUME Inv1, RowsMove, NEW S \in SUBSET Rows, NEW cap \in Nat, Crowded(S, cap), NEW T, IsFiniteSet(T),
         NEW h \in Handlers, Typed(job[h]), NEW new, Span(h) \in trace'[new],
         \A i \in T : i = new \/ i \in S \/ Disordered(i)',
         NEW U, IsFiniteSet(U), Cardinality(U) < cap,
           \A i \in T \ {new} : Renewed(i, job[h].began) \/ i \in U \/ Disordered(i)'
  PROVE  Crowded(T, cap)'
<1> SUFFICES ASSUME NEW X \in SUBSET T, Cardinality(X) > cap
             PROVE  \E i, k \in X : Raced(i, k)' /\ (i # k \/ Disordered(i)')
  BY DEF Crowded
<1>1. CASE \E i \in X : Disordered(i)' BY <1>1 DEF Raced
<1>2. CASE \A i \in X : ~Disordered(i)'
 <2>1. CASE new \notin X
  <3>1. X \in SUBSET S BY <1>2, <2>1
  <3>2. PICK i, k \in X : Raced(i, k) /\ (i # k \/ Disordered(i)) BY <3>1 DEF Crowded
  <3>3. i \in Rows /\ k \in Rows BY <3>1
  <3>4. Raced(i, k)' /\ (i # k \/ Disordered(i)') BY <3>2, <3>3, HistoryGrows DEF Raced
  <3> QED BY <3>4
 <2>2. CASE new \in X /\ \E i \in X \ {new} : Renewed(i, job[h].began)
  <3>1. PICK i \in X \ {new} : Renewed(i, job[h].began) BY <2>2
  <3>2. i \in Rows BY <1>2, <3>1
  <3>3. Overlap(i, new)' BY <3>1, <3>2, WriterOvertakes DEF RowsMove
  <3> QED BY <2>2, <3>1, <3>3 DEF Raced
 <2>3. CASE new \in X /\ \A i \in X \ {new} : ~Renewed(i, job[h].began)
  <3>1. X \ {new} \subseteq U BY <1>2, <2>3
  <3>2. IsFiniteSet(X) /\ IsFiniteSet(X \ {new}) /\ Cardinality(X \ {new}) <= Cardinality(U)
   <4>1. IsFiniteSet(X) BY FS_Subset
   <4>2. IsFiniteSet(X \ {new}) /\ Cardinality(X \ {new}) <= Cardinality(U) BY <3>1, FS_Subset
   <4> QED BY <4>1, <4>2
  <3>3. Cardinality(X \ {new}) = Cardinality(X) - 1 BY <2>3, <3>2, FS_RemoveElement
  <3>4. Cardinality(X) \in Nat /\ Cardinality(U) \in Nat /\ Cardinality(X \ {new}) \in Nat
    BY <3>2, FS_CardinalityType
  <3> QED BY <3>2, <3>3, <3>4
 <2> QED BY <2>1, <2>2, <2>3
<1> QED BY <1>1, <1>2
-----------------------------
(* Breakout rooms: who attends, and closing them. *)

\* Those who attend b and were there before n writes.
Steady(b, n) == {i \in Audience(b) : ~Renewed(i, n)}

\* What a request about breakouts has found, and is about to write.
Ushers(j) ==
  /\ j.op = "attend" =>
       /\ j.key \in Rows /\ records[j.key].kind = "breakout"
       /\ records[j.key].status = "open" \/ Renewed(j.key, j.began)
       /\ j.at = "add" => Cardinality(Steady(j.key, j.began)) < BreakoutCapacity
  /\ j.op = "close" /\ j.at = "update" /\ j.then = "dismiss" =>
       /\ \A u \in Pending(j) : u.id = j.key
       /\ (\E u : j.todo = {u} /\ j.read = {}) \/ (\E r : j.todo = {} /\ j.read = {r})

\* All of them.
UshersInv == \A h \in Handlers : job[h] = Idle \/ Ushers(job[h])

\* Who attends, attends a breakout.
AttendedInv == \A i \in Rows : records[i].kind = "attendance" => records[i].in \in Rows
  /\ records[records[i].in].kind = "breakout"

\* A request that is to dismiss i from b.
Clears(h, b, i) ==
  /\ job[h] # Idle /\ job[h].op = "close" /\ job[h].key = b
  /\ \/ job[h].at = "dismiss"
     \/ job[h].at = "update" /\ job[h].then = "end" /\ \E u \in Pending(job[h]) : u.id = i

\* Nobody stays in a breakout that is closed.
ClosedInv ==
  \A b \in Rows : records[b].kind = "breakout" /\ records[b].status = "closed" =>
    \A i \in Audience(b) : Raced(i, b) \/ WasCutOff("close", b) \/ \E h \in Handlers : Clears(h, b, i)

\* No breakout is too full.
SpaceInv == \A b \in Rows : records[b].kind = "breakout" => Crowded(Audience(b), BreakoutCapacity)

\* What is kept right of breakouts.
BreakoutInv == UshersInv /\ AttendedInv /\ ClosedInv /\ SpaceInv

\* Rows that say who attends.
LEMMA AudienceIs ==
  ASSUME Inv1, NEW b
  PROVE  /\ \A i : i \in Audience(b) <=>
               i \in Rows /\ records[i].kind = "attendance" /\ records[i].in = b /\ records[i].status = "joined"
         /\ IsFiniteSet(Audience(b)) /\ Audience(b) \in SUBSET Rows
<1>1. Audience(b) = {i \in Rows : records[i].kind = "attendance" /\ records[i].in = b
        /\ records[i].status = "joined"}
  BY Zenon DEF Audience, Where, Rows
<1>2. Audience(b) \subseteq 1..Len(records) /\ IsFiniteSet(1..Len(records))
 <2>1. Len(records) \in Nat BY SequencePlaces DEF Inv1, StoreTyped
 <2>2. IsFiniteSet(1..Len(records)) BY <2>1, FS_Interval
 <2> QED BY <1>1, <2>2 DEF Rows
<1>3. IsFiniteSet(Audience(b)) BY <1>2, FS_Subset
<1> QED BY <1>1, <1>2, <1>3 DEF Rows

\* Those who attended before, and were not written since, are no more than they were.
LEMMA SteadyShrinks ==
  ASSUME Inv1, Inv1', RowsMove, NEW b, NEW n \in 0..writes
  PROVE  Steady(b, n)' \subseteq Steady(b, n)
<1> SUFFICES ASSUME NEW i \in Steady(b, n)' PROVE i \in Steady(b, n) OBVIOUS
<1>1. i \in Audience(b)' /\ ~Renewed(i, n)' BY DEF Steady
<1>2. i \in Rows' /\ records'[i].kind = "attendance" /\ records'[i].in = b /\ records'[i].status = "joined"
  BY <1>1, Zenon DEF Audience, Where, Rows
<1>3. i \in Rows /\ records'[i] = records[i] /\ trace'[i] = trace[i] BY <1>1, <1>2 DEF RowsMove
<1>4. i \in Audience(b) BY <1>2, <1>3, AudienceIs
<1> QED BY <1>1, <1>3, <1>4 DEF Steady, Renewed

\* There is no more room taken by them, either.
LEMMA SteadyCounts ==
  ASSUME Inv1, NEW b, NEW n
  PROVE  IsFiniteSet(Steady(b, n)) /\ Cardinality(Steady(b, n)) \in Nat
           /\ Cardinality(Steady(b, n)) <= Cardinality(Audience(b))
<1>1. IsFiniteSet(Audience(b)) /\ Steady(b, n) \subseteq Audience(b) BY AudienceIs DEF Steady
<1>2. IsFiniteSet(Steady(b, n)) /\ Cardinality(Steady(b, n)) <= Cardinality(Audience(b)) BY <1>1, FS_Subset
<1> QED BY <1>2, FS_CardinalityType

\* What is written of an attendance ends it.
LEMMA AttendancePatches ==
  ASSUME NEW op, NEW patch, NEW then, Mends(op, "attendance", patch, then)
  PROVE  /\ patch = [status |-> "ended"] \/ patch = [status |-> "left"]
         /\ (op = "close" /\ then = "end") \/ op = "quit"
  BY DEF Mends

\* What is written of a breakout closes it.
LEMMA BreakoutPatches ==
  ASSUME NEW op, NEW patch, NEW then, Mends(op, "breakout", patch, then)
  PROVE  op = "close" /\ then = "dismiss" /\ patch = [status |-> "closed"]
  BY DEF Mends

\* Who adds an attendance.
LEMMA AttendanceIsAdded ==
  ASSUME NEW j, NEW new, NEW then, NewRow(j, new, then), new.kind = "attendance"
  PROVE  j.op = "attend" /\ new = Attending(j.who, j.key)
  BY DEF NewRow, Relation, Membership, Seat, Ban, Logged, Breakout, Attending, Dj, Track, NewPlayer, Ticket,
     Report, Review, Appeal
-----------------------------
\* Requests about breakouts share no kind with those of other services.
LEMMA BreakoutsApart ==
  \A ops \in {RoomOps, MusicOps, SupportOps, NoticeOps, OtherOps \ RoomOps} : ops \cap BreakoutOps = {}
<1>1. OtherOps \cap BreakoutOps = {}
  BY DEF OtherOps, BreakoutOps, SocialOps, NoticeOps, ChatOps, PrivacyOps, RoomOps, ViewOps, SessionOps,
     AdminOps, Lists, Tabs
<1>2. (MusicOps \cup SupportOps) \cap BreakoutOps = {}
  BY DEF SupportOps, Reached, Transitions, BreakoutOps, MusicOps, Players, Controls
<1> QED BY <1>1, <1>2 DEF OtherOps

\* So a step is about breakouts, or leaves them alone.
LEMMA BreakoutSteps ==
  ASSUME Inv1, [PlatformNext]_platformVars
  PROVE  \/ \E h \in Handlers : \E ops : Acts(h, ops) /\ ops \cap BreakoutOps = {}
         \/ \E h \in Handlers : (BreakoutStep(h) \/ BreakoutRequest(h)) /\ Acts(h, BreakoutOps)
         \/ \E h \in Handlers : StoreStep(h) \/ CutOff(h)
         \/ UNCHANGED storeVars
<1>1. CASE \E h \in Handlers : \E ops \in {RoomOps, MusicOps, SupportOps, NoticeOps, OtherOps \ RoomOps} : Acts(h,
             ops)
  BY <1>1, BreakoutsApart
<1> QED BY <1>1, ServiceSteps

\* What a request has found stays right while others take steps.
LEMMA UshersStay ==
  ASSUME Inv1, [PlatformNext]_platformVars, NEW j, Typed(j), Ushers(j)
  PROVE  Ushers(j)'
<1>1. RowsMove /\ Inv1' /\ writes \in Nat /\ \A i \in Rows : i \in Rows' /\ SameRow(records'[i], records[i])
  BY RowsMoveOn, Inv1Keeps DEF RowsKept, Inv1, StoreTyped
<1>2. j.began \in 0..writes BY <1>1 DEF Typed
<1>3. ASSUME j.op = "attend"
      PROVE  /\ j.key \in Rows' /\ records'[j.key].kind = "breakout"
             /\ records'[j.key].status = "open" \/ Renewed(j.key, j.began)'
 <2>1. j.key \in Rows /\ records[j.key].kind = "breakout"
         /\ (records[j.key].status = "open" \/ Renewed(j.key, j.began))
   BY <1>3 DEF Ushers
 <2>2. records'[j.key] = records[j.key] \/ Renewed(j.key, j.began)' BY <1>1, <1>2, <2>1 DEF RowsMove
 <2>3. Renewed(j.key, j.began) => Renewed(j.key, j.began)' BY <1>1, <2>1, HistoryGrows
 <2> QED BY <1>1, <2>1, <2>2, <2>3 DEF SameRow
<1>4. ASSUME j.op = "attend", j.at = "add" PROVE (Cardinality(Steady(j.key, j.began)) < BreakoutCapacity)'
 <2>1. PICK S, T : S = Steady(j.key, j.began) /\ T = Steady(j.key, j.began)' OBVIOUS
 <2>2. T \subseteq S /\ IsFiniteSet(S) /\ Cardinality(S) \in Nat /\ Cardinality(S) < BreakoutCapacity
   BY <1>1, <1>2, <1>4, <2>1, SteadyShrinks, SteadyCounts DEF Ushers
 <2>3. Cardinality(T) <= Cardinality(S) /\ IsFiniteSet(T) BY <2>2, FS_Subset
 <2>4. Cardinality(T) \in Nat BY <2>3, FS_CardinalityType
 <2>5. Cardinality(T) < BreakoutCapacity BY <2>2, <2>3, <2>4, CapacityAssumption
 <2> QED BY <2>1, <2>5
<1> QED BY <1>3, <1>4 DEF Ushers

\* h is idle then, or has found what it has to.
Seats(h) == job'[h] = Idle \/ Ushers(job'[h])

\* Of the other kinds of requests there is nothing to find.
LEMMA OthersUsher ==
  ASSUME NEW j, j.op \notin {"attend", "close"}
  PROVE  Ushers(j)
  BY DEF Ushers

\* Steps of other services leave it so.
LEMMA OthersSeat ==
  ASSUME UshersInv, NEW h \in Handlers, NEW ops, Acts(h, ops), ops \cap BreakoutOps = {}
  PROVE  Seats(h)
<1>1. CASE job'[h] = Idle \/ job'[h] = job[h] BY <1>1 DEF UshersInv, Seats
<1>2. CASE job'[h].op \in ops BY <1>2, OthersUsher DEF Seats, BreakoutOps
<1> QED BY <1>1, <1>2 DEF Acts, Turned

\* What a step about breakouts finds.
LEMMA BreakoutSeats ==
  ASSUME Inv1, UshersInv, NEW h \in Handlers, BreakoutStep(h) \/ BreakoutRequest(h)
  PROVE  Seats(h)
<1>1. PICK p : p = job[h] OBVIOUS
<1>2. ASSUME NEW k, Ushers(k), Begin(h, k) \/ Become(h, k) PROVE Seats(h) BY <1>2, BecomesThat DEF Seats
<1>3. p.at # "none" => Basic(p) /\ Typed(p) /\ Ushers(p) BY <1>1, AtWork DEF UshersInv
<1>4. CASE Dismiss(h)
 <2>1. PICK todo, k : k = Updating(p, todo, "end") /\ Become(h, k) /\ p.op = "close" /\ p.at = "dismiss"
   BY <1>1, <1>4 DEF Dismiss, Doing
 <2>2. k.op = "close" /\ k.then = "end" BY <1>3, <2>1 DEF Updating, Basic
 <2> QED BY <1>2, <2>1, <2>2 DEF Ushers
<1>5. CASE CheckMember(h) \/ FindAttendance(h)
 <2>1. PICK at, k : /\ k = [p EXCEPT !.at = at] /\ Become(h, k) /\ p.op = "attend" /\ p.at \in {"member", "find"}
                    /\ at \in {"find", "capacity", "end"}
   BY <1>1, <1>5 DEF CheckMember, FindAttendance, Doing
 <2>2. k.op = "attend" /\ k.key = p.key /\ k.began = p.began /\ k.at = at BY <1>3, <2>1 DEF Basic
 <2>3. Ushers(k) BY <1>3, <2>1, <2>2 DEF Ushers
 <2> QED BY <1>2, <2>1, <2>3
<1>6. CASE CountAudience(h)
 <2>1. p.op = "attend" /\ p.at = "capacity" BY <1>1, <1>6 DEF CountAudience, Doing
 <2>2. CASE Cardinality(Audience(p.key)) >= BreakoutCapacity
  <3>1. PICK k : k = [p EXCEPT !.at = "end"] /\ Become(h, k) BY <1>1, <1>6, <2>2 DEF CountAudience
  <3>2. k.op = "attend" /\ k.key = p.key /\ k.began = p.began /\ k.at = "end" BY <1>3, <2>1, <3>1 DEF Basic
  <3>3. Ushers(k) BY <1>3, <2>1, <3>2 DEF Ushers
  <3> QED BY <1>2, <3>1, <3>3
 <2>3. CASE ~(Cardinality(Audience(p.key)) >= BreakoutCapacity)
  <3>1. PICK k : k = Adding(p, Attending(p.who, p.key), "end") /\ Become(h, k)
    BY <1>1, <1>6, <2>3 DEF CountAudience
  <3>2. k.op = "attend" /\ k.key = p.key /\ k.began = p.began BY <1>3, <2>1, <3>1 DEF Adding, Merge, Basic
  <3>3. IsFiniteSet(Audience(p.key)) BY AudienceIs
  <3>4. Cardinality(Audience(p.key)) \in Nat BY <3>3, FS_CardinalityType
  <3>5. Cardinality(Steady(p.key, p.began)) < BreakoutCapacity
    BY <2>3, <3>4, SteadyCounts, CapacityAssumption
  <3>6. Ushers(k) BY <1>3, <2>1, <3>2, <3>5 DEF Ushers
  <3> QED BY <1>2, <3>1, <3>6
 <2> QED BY <2>2, <2>3
<1>7. CASE CreateBreakout(h)
 <2>1. PICK k : k = Adding(Request("create", RoomOwner, "breakout", "add"), Breakout(RoomOwner), "end")
         /\ Begin(h, k)
   BY <1>7 DEF CreateBreakout
 <2>2. k.op = "create" BY <2>1 DEF Adding, Request, Merge
 <2> QED BY <1>2, <2>1, <2>2, OthersUsher
<1>8. ASSUME NEW b \in Rows, EndBreakout(h, b) PROVE Seats(h)
 <2>1. PICK j, u, k : /\ j = Request("close", RoomOwner, b, "update") /\ u = Update(b, [status |-> "closed"])
                      /\ k = Updating(j, {u}, "dismiss") /\ Begin(h, k)
   BY <1>8 DEF EndBreakout
 <2>2. Basic(j) /\ j.op = "close" /\ j.key = b /\ j.read = {} BY <2>1, RequestIs DEF Request
 <2>3. k.op = "close" /\ k.key = b /\ k.todo = {u} /\ k.read = {} BY <2>1, <2>2 DEF Updating, Basic
 <2>4. \A v \in Pending(k) : v.id = k.key BY <2>1, <2>3 DEF Pending, Update
 <2>5. Ushers(k) BY <2>3, <2>4 DEF Ushers
 <2> QED BY <1>2, <2>1, <2>5
<1>9. ASSUME NEW b \in Rows, NEW a, StartAttend(h, a, b) PROVE Seats(h)
 <2>1. PICK k : k = Request("attend", a, b, "member") /\ Begin(h, k) BY <1>9 DEF StartAttend
 <2>2. k.op = "attend" /\ k.key = b /\ k.at = "member" BY <2>1 DEF Request
 <2>3. records[b].kind = "breakout" /\ records[b].status = "open" BY <1>9 DEF StartAttend, IsBreakout
 <2>4. Ushers(k) BY <2>2, <2>3 DEF Ushers
 <2> QED BY <1>2, <2>1, <2>4
<1>10. ASSUME NEW b, NEW a, LeaveBreakout(h, a, b) PROVE Seats(h)
 <2>1. PICK i, j, k : /\ j = Request("quit", a, b, "update")
         /\ k = Updating(j, {Update(i, [status |-> "left"])}, "end")
                      /\ Begin(h, k)
   BY <1>10 DEF LeaveBreakout
 <2>2. Basic(j) /\ j.op = "quit" BY <2>1, RequestIs
 <2>3. k.op = "quit" BY <2>1, <2>2 DEF Updating, Basic
 <2> QED BY <1>2, <2>1, <2>3, OthersUsher
<1>11. CASE BreakoutStep(h) BY <1>4, <1>5, <1>6, <1>11 DEF BreakoutStep
<1>12. CASE BreakoutRequest(h) BY <1>7, <1>8, <1>9, <1>10, <1>12 DEF BreakoutRequest, Rows
<1> QED BY <1>11, <1>12

\* What a request has found stays right when it adds, reads or writes a row.
LEMMA StoreSeats ==
  ASSUME Inv1, UshersInv, [PlatformNext]_platformVars, NEW h \in Handlers, StoreStep(h)
  PROVE  \A k : k = job'[h] => k = Idle \/ Ushers(k)'
<1> SUFFICES ASSUME NEW k, k = job'[h], k # Idle PROVE Ushers(k)' OBVIOUS
<1>1. PICK p : p = job[h] OBVIOUS
<1>2. p.at \in {"add", "update"} BY <1>1, Zenon DEF StoreStep, AddRow, ReadRow, WriteRow
<1>3. Typed(p) /\ Basic(p) /\ p # Idle /\ Ushers(p) BY <1>1, <1>2, AtWork DEF UshersInv
<1>4. ASSUME k.op \notin {"attend", "close"} PROVE Ushers(k)' BY <1>4 DEF Ushers
<1>5. CASE AddRow(h)
 <2>1. p.at = "add" BY <1>1, <1>5 DEF AddRow
 <2>2. NewRow(p, p.new, p.then) BY <1>3, <2>1 DEF Typed
 <2>3. p.then = "end" \/ p.op \notin {"attend", "close"} BY <2>2 DEF NewRow, Players, Controls
 <2>4. Later(k, p) /\ k.at = p.then /\ k.at # "end" BY <1>1, <1>5, AddGoesOn
 <2> QED BY <1>4, <2>3, <2>4 DEF Later
<1>6. CASE ReadRow(h)
 <2>1. /\ Later(k, p) /\ k.at = "update" /\ Pending(k) = Pending(p) /\ p.at = "update"
       /\ \E u \in p.todo : k.todo = p.todo \ {u} /\ k.read = p.read \cup {[u |-> u, copy |-> records[u.id]]}
   BY <1>1, <1>6, ReadGoesOn
 <2>2. k.op = p.op /\ k.key = p.key /\ k.then = p.then BY <2>1 DEF Later
 <2>3. p.op # "attend" BY <1>3, <2>1 DEF Typed, Mend, Mends, Reached, Transitions
 <2>4. ASSUME (\E u : p.todo = {u} /\ p.read = {}) \/ (\E r : p.todo = {} /\ p.read = {r})
       PROVE  \E r : k.todo = {} /\ k.read = {r}
  <3>1. PICK u \in p.todo :
          k.todo = p.todo \ {u} /\ k.read = p.read \cup {[u |-> u, copy |-> records[u.id]]}
    BY <2>1
  <3>2. p.todo = {u} /\ p.read = {} BY <2>4, <3>1
  <3>3. k.todo = {} /\ k.read = {[u |-> u, copy |-> records[u.id]]} BY <3>1, <3>2
  <3> QED BY <3>3
 <2> QED BY <1>3, <2>1, <2>2, <2>3, <2>4 DEF Ushers
<1>7. CASE WriteRow(h)
 <2>1. PICK r : Written(h, r) BY <1>7, WriteGoesOn
 <2>2. /\ Later(k, p) /\ k.todo = p.todo /\ k.read = p.read \ {r}
       /\ \/ p.todo = {} /\ p.read = {r} /\ k.at = p.then /\ k.at # "end"
          \/ k.at = "update" /\ ~(p.todo = {} /\ p.read = {r})
   BY <1>1, <2>1 DEF Written
 <2>3. p.at = "update" /\ r \in p.read /\ Mend(p, r.u, p.then) BY <1>1, <2>1 DEF Written
 <2>4. k.op = p.op /\ k.key = p.key /\ k.then = p.then BY <2>2 DEF Later
 <2>5. p.op # "attend" /\ p.then # "update" BY <2>3 DEF Mend, Mends, Reached, Transitions
 <2>6. Pending(k) \subseteq Pending(p) BY <2>2 DEF Pending
 <2>7. k.at = "update" =>
         ~((\E u : p.todo = {u} /\ p.read = {}) \/ (\E q : p.todo = {} /\ p.read = {q}))
   BY <2>2, <2>3, <2>5
 <2> QED BY <1>3, <2>3, <2>4, <2>5, <2>6, <2>7 DEF Ushers
<1> QED BY <1>5, <1>6, <1>7 DEF StoreStep

\* What requests have found is right.
LEMMA UshersKeep ==
  ASSUME Inv1, UshersInv, [PlatformNext]_platformVars
  PROVE  UshersInv'
<1>1. ASSUME NEW p, p = Idle \/ (Typed(p) /\ Ushers(p)) PROVE p = Idle \/ Ushers(p)' BY <1>1, UshersStay
<1>2. \A g \in Handlers : job[g] = Idle \/ (Typed(job[g]) /\ Ushers(job[g]))
  BY DEF Inv1, JobsTyped, UshersInv
<1>3. ASSUME \A g \in Handlers : \A p : p = job'[g] => p = Idle \/ Ushers(p)' PROVE UshersInv'
 <2> SUFFICES ASSUME NEW g \in Handlers PROVE (job[g] = Idle \/ Ushers(job[g]))' BY DEF UshersInv
 <2>1. \A p : p = job'[g] => p = Idle \/ Ushers(p)' BY <1>3
 <2>2. \A p : p = Idle => p = Idle' BY DEF Idle
 <2> QED BY <2>1, <2>2
<1>4. ASSUME NEW h \in Handlers, NEW ops, Acts(h, ops), Seats(h) PROVE UshersInv'
 <2>1. \A g \in Handlers : g # h => job'[g] = job[g] BY <1>4, OneActs
 <2>2. job'[h] = Idle \/ (Typed(job'[h]) /\ Ushers(job'[h])) BY <1>4, ActorsAreTyped DEF Seats
 <2> QED BY <1>1, <1>2, <1>3, <2>1, <2>2
<1>5. CASE \E h \in Handlers : \E ops : Acts(h, ops) /\ ops \cap BreakoutOps = {} BY <1>4, <1>5, OthersSeat
<1>6. CASE \E h \in Handlers : (BreakoutStep(h) \/ BreakoutRequest(h)) /\ Acts(h, BreakoutOps)
  BY <1>4, <1>6, BreakoutSeats
<1>7. CASE \E h \in Handlers : StoreStep(h) \/ CutOff(h)
 <2>1. PICK h \in Handlers : StoreStep(h) \/ CutOff(h) BY <1>7
 <2>2. \A g \in Handlers : g # h => job'[g] = job[g] BY <2>1, OneInStore
 <2>3. \A p : p = job'[h] => p = Idle \/ Ushers(p)' BY <2>1, OneInStore, StoreSeats
 <2> QED BY <1>1, <1>2, <1>3, <2>2, <2>3
<1>8. CASE UNCHANGED storeVars BY <1>1, <1>2, <1>3, <1>8 DEF storeVars, handlerVars
<1> QED BY <1>5, <1>6, <1>7, <1>8, BreakoutSteps
-----------------------------
\* Who begins with a request about breakouts was idle.
LEMMA GuestsAreIdle ==
  ASSUME NEW h \in Handlers, BreakoutRequest(h)
  PROVE  job[h] = Idle
<1>1. \E k : Begin(h, k) BY DEF BreakoutRequest, CreateBreakout, EndBreakout, StartAttend, LeaveBreakout
<1> QED BY <1>1 DEF Begin, Accept, Ready

\* A row that says who attends was there, is disordered, or is new.
LEMMA AudienceMoves ==
  ASSUME Inv1, UshersInv, [PlatformNext]_platformVars, NEW b, NEW i \in Audience(b)'
  PROVE  \/ i \in Audience(b) /\ records'[i] = records[i]
         \/ Disordered(i)'
         \/ \E h \in Handlers : /\ Adds1(h) /\ Typed(job[h]) /\ Ushers(job[h]) /\ i = Len(records) + 1
                                /\ Span(h) \in trace'[i] /\ job[h].op = "attend" /\ job[h].at = "add"
                                     /\ job[h].key = b
<1>1. Inv1' /\ RowsMove /\ \A n \in Rows : SameRow(records'[n], records[n])
  BY RowsMoveOn, Inv1Keeps DEF RowsKept
<1>2. i \in Rows' /\ records'[i].kind = "attendance" /\ records'[i].in = b /\ records'[i].status = "joined"
  BY Zenon DEF Audience, Where, Rows
<1>3. CASE i \notin Rows
 <2>1. PICK h \in Handlers : /\ AddRow(h) /\ Adds1(h) /\ i = Len(records) + 1
                             /\ records'[i] = job[h].new /\ trace'[i] = {Span(h)}
   BY <1>2, <1>3, NewRowIs
 <2>2. NewRow(job[h], job[h].new, job[h].then) /\ job[h].new.kind = "attendance" /\ Typed(job[h]) /\ Ushers(job[h])
       /\ job[h].at = "add"
   BY <1>2, <2>1 DEF Adds1, Typed, UshersInv
 <2>3. job[h].op = "attend" /\ job[h].new = Attending(job[h].who, job[h].key) BY <2>2, AttendanceIsAdded
 <2>4. job[h].key = b BY <1>2, <2>1, <2>3 DEF Attending
 <2> QED BY <2>1, <2>2, <2>3, <2>4
<1>4. CASE i \in Rows
 <2>1. records[i].kind = "attendance" BY <1>1, <1>2, <1>4 DEF SameRow
 <2>2. ASSUME records'[i] = records[i] PROVE i \in Audience(b) BY <1>2, <1>4, <2>2, AudienceIs
 <2>3. ASSUME NEW h \in Handlers, NEW r, Patches(h, i, r) PROVE FALSE
  <3>1. Mends(job[h].op, "attendance", r.u.patch, job[h].then) /\ records'[i] = Merge(records[i], r.u.patch)
    BY <2>1, <2>3 DEF Patches, Written, Mend
  <3>2. "status" \in DOMAIN r.u.patch /\ r.u.patch.status # "joined" BY <3>1, AttendancePatches
  <3>3. records'[i].status = r.u.patch.status BY <3>1, <3>2, FieldsOf
  <3> QED BY <1>2, <3>2, <3>3
 <2> QED BY <1>4, <2>2, <2>3, RowMoves
<1> QED BY <1>3, <1>4

\* Who attends, attends a breakout.
LEMMA AttendedKeeps ==
  ASSUME Inv1, UshersInv, AttendedInv, [PlatformNext]_platformVars
  PROVE  AttendedInv'
<1>1. \A n \in Rows : n \in Rows' /\ SameRow(records'[n], records[n]) BY Inv1Keeps DEF RowsKept
<1> SUFFICES ASSUME NEW i \in Rows', records'[i].kind = "attendance"
             PROVE  records'[i].in \in Rows' /\ records'[records'[i].in].kind = "breakout"
  BY DEF AttendedInv
<1>2. CASE i \in Rows BY <1>1, <1>2 DEF AttendedInv, SameRow
<1>3. CASE i \notin Rows
 <2>1. PICK h \in Handlers : Adds1(h) /\ records'[i] = job[h].new BY <1>3, NewRowIs
 <2>2. NewRow(job[h], job[h].new, job[h].then) /\ Ushers(job[h]) BY <2>1 DEF Adds1, Typed, UshersInv
 <2>3. job[h].op = "attend" /\ job[h].new = Attending(job[h].who, job[h].key)
   BY <2>1, <2>2, AttendanceIsAdded
 <2>4. records'[i].in = job[h].key /\ job[h].key \in Rows /\ records[job[h].key].kind = "breakout"
   BY <2>1, <2>2, <2>3 DEF Attending, Ushers
 <2> QED BY <1>1, <2>4 DEF SameRow
<1> QED BY <1>2, <1>3

\* Nobody attends what is not there yet.
LEMMA NoneAttendNew ==
  ASSUME Inv1, UshersInv, AttendedInv, [PlatformNext]_platformVars, NEW b \in Rows', b \notin Rows,
         NEW i \in Audience(b)'
  PROVE  FALSE
<1>1. \A n \in Rows : n \in Rows' /\ SameRow(records'[n], records[n]) BY Inv1Keeps DEF RowsKept
<1>2. i \in Rows' /\ records'[i].kind = "attendance" /\ records'[i].in = b
  BY Zenon DEF Audience, Where, Rows
<1>3. CASE i \in Rows BY <1>1, <1>2, <1>3 DEF AttendedInv, SameRow
<1>4. CASE i \notin Rows
 <2>1. PICK h \in Handlers : Adds1(h) /\ records'[i] = job[h].new BY <1>2, <1>4, NewRowIs
 <2>2. NewRow(job[h], job[h].new, job[h].then) /\ Ushers(job[h]) BY <2>1 DEF Adds1, Typed, UshersInv
 <2>3. job[h].op = "attend" /\ job[h].new = Attending(job[h].who, job[h].key)
   BY <1>2, <2>1, <2>2, AttendanceIsAdded
 <2> QED BY <1>2, <2>1, <2>2, <2>3 DEF Attending, Ushers
<1> QED BY <1>3, <1>4

\* No breakout becomes too full.
LEMMA SpaceKeeps ==
  ASSUME Inv1, UshersInv, AttendedInv, SpaceInv, [PlatformNext]_platformVars
  PROVE  SpaceInv'
<1>1. Inv1' /\ RowsMove /\ \A n \in Rows : n \in Rows' /\ SameRow(records'[n], records[n])
  BY RowsMoveOn, Inv1Keeps DEF RowsKept
<1> SUFFICES ASSUME NEW b \in Rows', records'[b].kind = "breakout", NEW T, T = Audience(b)'
             PROVE  Crowded(T, BreakoutCapacity)'
  BY DEF SpaceInv, Crowded
<1>2. IsFiniteSet(T)
 <2>1. Audience(b)' = {n \in Rows' : records'[n].kind = "attendance" /\ records'[n].in = b
         /\ records'[n].status = "joined"}
   BY Zenon DEF Audience, Where, Rows
 <2>2. Len(records') \in Nat BY <1>1, SequencePlaces DEF Inv1, StoreTyped
 <2>3. IsFiniteSet(1..Len(records')) BY <2>2, FS_Interval
 <2>4. T \subseteq 1..Len(records') BY <2>1 DEF Rows
 <2> QED BY <2>3, <2>4, FS_Subset
<1>3. CASE b \notin Rows
 <2>1. T = {} BY <1>3, NoneAttendNew
 <2>2. Crowded({}, BreakoutCapacity) BY FS_EmptySet, CapacityAssumption DEF Crowded
 <2> QED BY <1>1, <1>2, <2>1, <2>2, CrowdShrinks, CapacityAssumption
<1>4. CASE b \in Rows
 <2>1. PICK S : S = Audience(b) OBVIOUS
 <2>2. S \in SUBSET Rows /\ Crowded(S, BreakoutCapacity)
   BY <1>1, <1>4, <2>1, AudienceIs DEF SameRow, SpaceInv
 <2>3. CASE \E i \in T : \E h \in Handlers :
              /\ Adds1(h) /\ Typed(job[h]) /\ Ushers(job[h]) /\ i = Len(records) + 1
              /\ Span(h) \in trace'[i] /\ job[h].op = "attend" /\ job[h].at = "add" /\ job[h].key = b
  <3>1. PICK new \in T, h \in Handlers :
             /\ Adds1(h) /\ Typed(job[h]) /\ Ushers(job[h]) /\ new = Len(records) + 1
             /\ Span(h) \in trace'[new] /\ job[h].op = "attend" /\ job[h].at = "add" /\ job[h].key = b
    BY <2>3
  <3>2. \A i \in T : i = new \/ i \in S \/ Disordered(i)' BY <2>1, <3>1, AudienceMoves
  <3>3. PICK U : U = Steady(b, job[h].began) OBVIOUS
  <3>4. IsFiniteSet(U) /\ Cardinality(U) < BreakoutCapacity BY <3>1, <3>3, SteadyCounts DEF Ushers
  <3>5. \A i \in T \ {new} : Renewed(i, job[h].began) \/ i \in U \/ Disordered(i)'
    BY <2>1, <3>2, <3>3 DEF Steady
  <3>6. PICK cap \in Nat : cap = BreakoutCapacity BY CapacityAssumption
  <3>7. S \in SUBSET Rows /\ Crowded(S, cap) /\ Cardinality(U) < cap BY <2>2, <3>4, <3>6
  <3>8. RowsMove /\ Typed(job[h]) /\ Span(h) \in trace'[new] /\ IsFiniteSet(U) BY <1>1, <3>1, <3>4
  <3>9. Crowded(T, cap)' BY <1>2, <3>2, <3>5, <3>7, <3>8, CrowdGrows
  <3> QED BY <3>6, <3>9 DEF Crowded
 <2>4. CASE \A i \in T : i \in S \/ Disordered(i)'
   BY <1>1, <1>2, <2>2, <2>4, CrowdShrinks, CapacityAssumption
 <2> QED BY <2>1, <2>3, <2>4, AudienceMoves
<1> QED BY <1>3, <1>4

\* A request that is to dismiss i from b does so, or is cut off.
LEMMA ClearGoesOn ==
  ASSUME Inv1, UshersInv, [PlatformNext]_platformVars, NEW b, NEW i \in Audience(b), i \in Audience(b)',
         NEW h \in Handlers, Clears(h, b, i)
  PROVE  Clears(h, b, i)' \/ WasCutOff("close", b)'
<1>1. PICK p : p = job[h] OBVIOUS
<1>2. /\ p # Idle /\ p.op = "close" /\ p.key = b
      /\ p.at = "dismiss" \/ (p.at = "update" /\ p.then = "end" /\ \E u \in Pending(p) : u.id = i)
  BY <1>1 DEF Clears
<1>3. Typed(p) /\ Basic(p) BY <1>1, <1>2 DEF Inv1, JobsTyped, Typed
<1>4. ASSUME NEW k, k = job'[h], k.op = "close", k.key = b,
             k.at = "dismiss" \/ (k.at = "update" /\ k.then = "end" /\ \E u \in Pending(k) : u.id = i)
      PROVE  Clears(h, b, i)'
 <2>1. \A g : Pending(g)' = Pending(g) BY DEF Pending
 <2> QED BY <1>4, <2>1 DEF Clears, Idle, Pending
<1>5. ASSUME job'[h] = p PROVE Clears(h, b, i)' BY <1>2, <1>4, <1>5
<1>6. ASSUME NEW g \in Handlers, NEW ops, Acts(g, ops), ops \cap BreakoutOps = {} PROVE job'[h] = p
 <2>1. p.op \notin ops BY <1>2, <1>6 DEF BreakoutOps
 <2>2. g # h BY <1>1, <1>2, <1>6, <2>1 DEF Acts, Works
 <2> QED BY <1>1, <1>6, <2>2, OneActs
<1>7. ASSUME NEW g \in Handlers, BreakoutStep(g) \/ BreakoutRequest(g), Acts(g, BreakoutOps)
      PROVE  Clears(h, b, i)'
 <2>1. CASE g # h BY <1>1, <1>5, <1>7, <2>1, OneActs
 <2>2. CASE g = h
  <3>1. Dismiss(h)
    BY <1>1, <1>2, <1>7, <2>2, GuestsAreIdle DEF BreakoutStep, CheckMember, FindAttendance, CountAudience, Doing
  <3>2. PICK todo, k : /\ todo = {Update(n, [status |-> "ended"]) : n \in Audience(b)}
                       /\ k = Updating(p, todo, "end") /\ Become(h, k)
    BY <1>1, <1>2, <3>1 DEF Dismiss
  <3>3. PICK u \in todo : u.id = i
   <4>1. Update(i, [status |-> "ended"]) \in todo /\ Update(i, [status |-> "ended"]).id = i
     BY <3>2 DEF Update
   <4> QED BY <4>1
  <3>4. k.op = "close" /\ k.key = b /\ k.at = "update" /\ k.then = "end" /\ k.todo = todo
    BY <1>2, <1>3, <3>2, <3>3 DEF Updating, Basic
  <3>5. job'[h] = k /\ u \in Pending(k) BY <3>2, <3>3, <3>4, BecomesThat DEF Pending
  <3> QED BY <1>4, <3>3, <3>4, <3>5
 <2> QED BY <2>1, <2>2
<1>8. ASSUME NEW g \in Handlers, StoreStep(g) \/ CutOff(g), g # h PROVE job'[h] = p
  BY <1>1, <1>8, OneInStore
<1>9. CASE AddRow(h) BY <1>1, <1>2, <1>9 DEF AddRow
<1>10. CASE ReadRow(h)
 <2>1. PICK k : k = job'[h] OBVIOUS
 <2>2. Later(k, p) /\ k.at = "update" /\ p.at = "update" /\ Pending(k) = Pending(p)
   BY <1>1, <1>10, <2>1, ReadGoesOn
 <2>3. k.op = "close" /\ k.key = b /\ k.then = "end" BY <1>2, <2>2 DEF Later
 <2> QED BY <1>2, <1>4, <2>1, <2>2, <2>3
<1>11. CASE WriteRow(h)
 <2>1. PICK r \in p.read : Written(h, r) BY <1>1, <1>11, WriteGoesOn
 <2>2. p.at = "update" /\ p.then = "end" BY <1>1, <1>2, <2>1 DEF Written
 <2>3. PICK u \in Pending(p) : u.id = i BY <1>2, <2>2
 <2>4. r.u.id # i
  <3>1. SUFFICES ASSUME r.u.id = i PROVE FALSE OBVIOUS
  <3>2. i \in Rows /\ records[i].kind = "attendance" /\ DOMAIN records = Rows
    BY AudienceIs, SequencePlaces DEF Inv1, StoreTyped, Rows
  <3>3. Mends("close", "attendance", r.u.patch, p.then) /\ records'[i] = Merge(r.copy, r.u.patch)
    BY <1>1, <1>2, <2>1, <3>1, <3>2 DEF Written, Mend
  <3>4. "status" \in DOMAIN r.u.patch /\ r.u.patch.status # "joined" BY <3>3, AttendancePatches
  <3>5. records'[i].status = r.u.patch.status BY <3>3, <3>4, FieldsOf
  <3>6. records'[i].status = "joined" BY Zenon DEF Audience, Where
  <3> QED BY <3>4, <3>5, <3>6
 <2>5. PICK k : k = job'[h] OBVIOUS
 <2>6. u \in p.todo \/ \E q \in p.read \ {r} : u = q.u BY <2>3, <2>4, PendingIs
 <2>7. k # Idle /\ Later(k, p) /\ k.todo = p.todo /\ k.read = p.read \ {r} /\ k.at = "update"
  <3>1. ~(p.todo = {} /\ p.read = {r}) BY <2>6
  <3>2. \/ p.todo = {} /\ p.read = {r} /\ p.then = "end" /\ k = Idle
        \/ /\ Later(k, p) /\ k.todo = p.todo /\ k.read = p.read \ {r}
           /\ \/ p.todo = {} /\ p.read = {r} /\ k.at = p.then /\ k.at # "end"
              \/ k.at = "update" /\ ~(p.todo = {} /\ p.read = {r})
    BY <1>1, <2>1, <2>5, Zenon DEF Written
  <3> QED BY <3>1, <3>2 DEF Later, Idle
 <2>8. u \in Pending(k) /\ k.op = "close" /\ k.key = b /\ k.then = "end"
   BY <1>2, <2>2, <2>6, <2>7 DEF Later, Pending
 <2> QED BY <1>4, <2>3, <2>5, <2>7, <2>8
<1>12. CASE CutOff(h)
 <2>1. <<p.op, p.key>> \in dropped' BY <1>1, <1>12, OneInStore
 <2> QED BY <1>2, <2>1 DEF WasCutOff
<1>13. CASE UNCHANGED storeVars BY <1>1, <1>5, <1>13 DEF storeVars, handlerVars
<1>14. CASE \E g \in Handlers : StoreStep(g) \/ CutOff(g)
 <2>1. PICK g \in Handlers : StoreStep(g) \/ CutOff(g) BY <1>14
 <2>2. CASE g # h BY <1>5, <1>8, <2>1, <2>2
 <2>3. CASE g = h BY <1>9, <1>10, <1>11, <1>12, <2>1, <2>3 DEF StoreStep
 <2> QED BY <2>2, <2>3
<1>15. CASE \E g \in Handlers : \E ops : Acts(g, ops) /\ ops \cap BreakoutOps = {} BY <1>5, <1>6, <1>15
<1> QED BY <1>7, <1>13, <1>14, <1>15, BreakoutSteps
-----------------------------
\* Nobody stays in a breakout that is closed.
LEMMA ClosedKeeps ==
  ASSUME Inv1, UshersInv, AttendedInv, ClosedInv, [PlatformNext]_platformVars
  PROVE  ClosedInv'
<1> SUFFICES ASSUME NEW b \in Rows', records'[b].kind = "breakout", records'[b].status = "closed",
                    NEW i \in Audience(b)'
             PROVE  Raced(i, b)' \/ WasCutOff("close", b)' \/ \E h \in Handlers : Clears(h, b, i)'
  BY DEF ClosedInv
<1>1. Inv1' /\ RowsMove /\ dropped \subseteq dropped' /\ \A n \in Rows : n \in Rows'
        /\ SameRow(records'[n], records[n])
  BY RowsMoveOn, DroppedGrows, Inv1Keeps DEF RowsKept
<1>2. b \in Rows /\ records[b].kind = "breakout" BY <1>1, NoneAttendNew DEF SameRow
<1>3. CASE Disordered(i)' \/ Disordered(b)' BY <1>3 DEF Raced
<1>4. ASSUME NEW h \in Handlers, Adds1(h), Typed(job[h]), Ushers(job[h]), Span(h) \in trace'[i],
             job[h].op = "attend", job[h].key = b
      PROVE  Raced(i, b)'
 <2>1. records'[b] = records[b] BY <1>2, <1>4 DEF Adds1
 <2>2. Renewed(b, job[h].began) BY <1>4, <2>1 DEF Ushers
 <2>3. Overlap(i, b)' BY <1>1, <1>2, <1>4, <2>2, WriterOvertakes DEF RowsMove
 <2> QED BY <2>3 DEF Raced
<1>5. CASE i \in Audience(b) /\ records'[b] = records[b]
 <2>1. i \in Rows BY <1>5, AudienceIs
 <2>2. Raced(i, b) \/ WasCutOff("close", b) \/ \E h \in Handlers : Clears(h, b, i)
   BY <1>2, <1>5 DEF ClosedInv
 <2>3. CASE Raced(i, b) BY <1>1, <1>2, <2>1, <2>3, HistoryGrows DEF Raced
 <2>4. CASE WasCutOff("close", b) BY <1>1, <2>4 DEF WasCutOff
 <2>5. CASE \E h \in Handlers : Clears(h, b, i) BY <1>5, <2>5, ClearGoesOn
 <2> QED BY <2>2, <2>3, <2>4, <2>5
<1>6. ASSUME NEW h \in Handlers, NEW r, Patches(h, b, r) PROVE Clears(h, b, i)'
 <2>1. PICK p : p = job[h] OBVIOUS
 <2>2. Mend(p, r.u, p.then) /\ r.u.id = b /\ r.u \in Pending(p) /\ p # Idle /\ p.at = "update" /\ r \in p.read
         /\ Typed(p)
   BY <1>6, <2>1 DEF Patches, Written
 <2>3. p.op = "close" /\ p.then = "dismiss" BY <1>2, <2>2, BreakoutPatches DEF Mend
 <2>4. p.key = b /\ p.todo = {} /\ p.read = {r} BY <2>1, <2>2, <2>3 DEF UshersInv, Ushers
 <2>5. PICK k : k = job'[h] OBVIOUS
 <2>6. Later(k, p) /\ k.at = "dismiss" BY <1>6, <2>1, <2>3, <2>4, <2>5 DEF Patches, Written
 <2> QED BY <2>3, <2>4, <2>5, <2>6 DEF Clears, Later, Idle
<1>7. i \in Audience(b) \/ Disordered(i)'
      \/ \E h \in Handlers : /\ Adds1(h) /\ Typed(job[h]) /\ Ushers(job[h]) /\ Span(h) \in trace'[i]
                             /\ job[h].op = "attend" /\ job[h].key = b
  BY AudienceMoves
<1>8. records'[b] = records[b] \/ Disordered(b)' \/ \E h \in Handlers : \E r : Patches(h, b, r)
  BY <1>2, RowMoves
<1> QED BY <1>3, <1>4, <1>5, <1>6, <1>7, <1>8
-----------------------------
\* At first nobody has begun, and breakouts are what an earlier use left.
LEMMA InitBreakouts ==
  ASSUME PlatformInit, Inv1
  PROVE  BreakoutInv
<1>1. \A h \in Handlers : job[h] = Idle BY DEF PlatformInit, HandlersInit
<1>2. PICK seed \in Seeds[serving] : StoreInit(seed) BY DEF PlatformInit
<1>3. serving \in Services /\ records = seed BY <1>2 DEF PlatformInit, StoreInit
<1>4. \A i \in OfKind(seed, "attendance") : seed[i].in \in OfKind(seed, "breakout")
  BY <1>2, <1>3, SeedsAssumption DEF OfKind
<1>5. \A b \in OfKind(seed, "breakout") :
        LET there == {i \in OfKind(seed, "attendance") : seed[i].in = b /\ seed[i].status = "joined"}
        IN Cardinality(there) <= BreakoutCapacity /\ (seed[b].status = "closed" => there = {})
  BY <1>2, <1>3, SettledAssumption
<1>6. ASSUME NEW b \in Rows, records[b].kind = "breakout"
      PROVE  /\ Cardinality(Audience(b)) <= BreakoutCapacity
             /\ records[b].status = "closed" => Audience(b) = {}
 <2>1. b \in OfKind(seed, "breakout") BY <1>3, <1>6 DEF OfKind, Rows
 <2>2. {i \in OfKind(seed, "attendance") : seed[i].in = b /\ seed[i].status = "joined"} = Audience(b)
   BY <1>3, AudienceIs DEF OfKind, Rows
 <2> QED BY <1>3, <1>5, <2>1, <2>2
<1>7. UshersInv BY <1>1 DEF UshersInv
<1>8. AttendedInv BY <1>3, <1>4 DEF AttendedInv, OfKind, Rows
<1>9. ClosedInv BY <1>6 DEF ClosedInv
<1>10. SpaceInv
 <2> SUFFICES ASSUME NEW b \in Rows, records[b].kind = "breakout", NEW X \in SUBSET Audience(b),
                     Cardinality(X) > BreakoutCapacity
              PROVE  FALSE
   BY DEF SpaceInv, Crowded
 <2>1. IsFiniteSet(Audience(b)) BY AudienceIs
 <2>2. IsFiniteSet(X) /\ Cardinality(X) <= Cardinality(Audience(b)) BY <2>1, FS_Subset
 <2>3. Cardinality(X) \in Nat /\ Cardinality(Audience(b)) \in Nat BY <2>1, <2>2, FS_CardinalityType
 <2> QED BY <1>6, <2>2, <2>3, CapacityAssumption
<1> QED BY <1>7, <1>8, <1>9, <1>10 DEF BreakoutInv

\* That is what breakouts promise.
LEMMA BreakoutInvIsSound ==
  ASSUME Inv1, BreakoutInv
  PROVE  BreakoutSound
<1> SUFFICES ASSUME NEW b \in Kind("breakout")
             PROVE  /\ \A i \in Audience(b) : records[b].status = "closed" =>
                         InFlight("close", b, {"update", "dismiss"}) \/ WasCutOff("close", b) \/ Raced(i, b)
                    /\ Cardinality(Audience(b)) > BreakoutCapacity =>
                         \E i, k \in Audience(b) : Raced(i, k) /\ (i # k \/ Disordered(i))
  BY DEF BreakoutSound
<1>1. b \in Rows /\ records[b].kind = "breakout" BY Zenon DEF Kind, Where, Rows
<1>2. ASSUME NEW h \in Handlers, NEW i, Clears(h, b, i) PROVE InFlight("close", b, {"update", "dismiss"})
  BY <1>2 DEF Clears, InFlight
<1>3. \A i \in Audience(b) : records[b].status = "closed" =>
        InFlight("close", b, {"update", "dismiss"}) \/ WasCutOff("close", b) \/ Raced(i, b)
  BY <1>1, <1>2 DEF BreakoutInv, ClosedInv
<1>4. Crowded(Audience(b), BreakoutCapacity) BY <1>1 DEF BreakoutInv, SpaceInv
<1> QED BY <1>3, <1>4 DEF Crowded

\* Who attends a breakout that was closed is dismissed from it, and a breakout is
\* not fuller than it may be, unless requests overlapped or were cut off.
THEOREM BreakoutsAreSound == PlatformSpec => []BreakoutSound
<1> DEFINE I == PlatformInv /\ BreakoutInv
<1>1. PlatformInit => I BY InitPlatform, InitBreakouts DEF PlatformInv
<1>2. I /\ [PlatformNext]_platformVars => I'
  BY PlatformKeeps, UshersKeep, AttendedKeeps, ClosedKeeps, SpaceKeeps DEF PlatformInv, BreakoutInv
<1>3. I => BreakoutSound BY BreakoutInvIsSound DEF PlatformInv
<1> QED BY <1>1, <1>2, <1>3, PTL DEF PlatformSpec
=============================
