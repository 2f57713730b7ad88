-------- MODULE PlatformRows --------
(***************************************************************************)
(* What every step of Platform does to the records of the store, to the    *)
(* requests at work, and to codes and sessions: lemmas, for every set of   *)
(* accounts, phones and handlers, every bound and every records there are  *)
(* at the start.                                                           *)
(***************************************************************************)
EXTENDS Platform, SumProofs, FiniteSetTheorems
-----------------------------
(* Sequences of anything, and the least of some numbers. *)
\* s is a sequence.
Sequence(s) == \E S : s \in Seq(S)

\* The empty sequence is one.
LEMMA EmptySequence == Sequence(<<>>) /\ Len(<<>>) = 0
<1>1. <<>> \in Seq({}) OBVIOUS
<1> QED BY <1>1 DEF Sequence

\* What is at the places of a sequence.
LEMMA SequencePlaces ==
  ASSUME NEW s, Sequence(s)
  PROVE  Len(s) \in Nat /\ DOMAIN s = 1..Len(s)
<1>1. PICK S : s \in Seq(S) BY DEF Sequence
<1> QED BY <1>1

\* A sequence with one more at its end.
LEMMA SequenceAppend ==
  ASSUME NEW s, Sequence(s), NEW x
  PROVE  /\ Sequence(Append(s, x))
         /\ Len(Append(s, x)) = Len(s) + 1
         /\ \A i \in 1..Len(s) : Append(s, x)[i] = s[i]
         /\ Append(s, x)[Len(s) + 1] = x
<1>1. PICK S : s \in Seq(S) BY DEF Sequence
<1>2. s \in Seq(S \cup {x})
 <2>1. s \in [1..Len(s) -> S] /\ Len(s) \in Nat BY <1>1
 <2>2. s \in [1..Len(s) -> S \cup {x}] BY <2>1
 <2> QED BY <2>1, <2>2
<1>3. Append(s, x) \in Seq(S \cup {x}) BY <1>2
<1>4. Sequence(Append(s, x)) BY <1>3 DEF Sequence
<1> QED BY <1>1, <1>2, <1>3, <1>4

\* A sequence of which one place is changed.
LEMMA SequenceExcept ==
  ASSUME NEW s, Sequence(s), NEW i, NEW x
  PROVE  /\ Sequence([s EXCEPT ![i] = x])
         /\ Len([s EXCEPT ![i] = x]) = Len(s)
         /\ \A k \in 1..Len(s) : [s EXCEPT ![i] = x][k] = IF k = i THEN x ELSE s[k]
<1>1. PICK S : s \in Seq(S) BY DEF Sequence
<1> DEFINE t == [s EXCEPT ![i] = x]
<1>2. s \in [1..Len(s) -> S] /\ Len(s) \in Nat BY <1>1
<1>3. t \in [1..Len(s) -> S \cup {x}] BY <1>2
<1>4. t \in Seq(S \cup {x}) /\ Len(t) = Len(s) BY <1>2, <1>3
<1>5. Sequence(t) BY <1>4 DEF Sequence
<1>6. \A k \in 1..Len(s) : t[k] = IF k = i THEN x ELSE s[k] BY <1>2
<1> QED BY <1>4, <1>5, <1>6

\* A function on the numbers up to n is a sequence.
LEMMA SequenceOf ==
  ASSUME NEW n \in Nat, NEW f, DOMAIN f = 1..n, f = [i \in 1..n |-> f[i]]
  PROVE  Sequence(f) /\ Len(f) = n
<1> DEFINE S == {f[i] : i \in 1..n}
<1>1. f \in [1..n -> S] OBVIOUS
<1> HIDE DEF S
<1>2. f \in Seq(S) /\ Len(f) = n BY <1>1
<1> QED BY <1>2 DEF Sequence

\* Of some numbers that are not negative there is a least one, and of some up
\* to n a greatest.
LEMMA LeastNumber ==
  ASSUME NEW n \in Nat, NEW S, S \subseteq 0..n, S # {}
  PROVE  /\ (CHOOSE i \in S : \A k \in S : i <= k) \in S
         /\ \A k \in S : (CHOOSE i \in S : \A j \in S : i <= j) <= k
         /\ (CHOOSE i \in S : \A k \in S : k <= i) \in S
         /\ \A k \in S : k <= (CHOOSE i \in S : \A j \in S : j <= i)
<1>1. IsFiniteSet(S)
 <2>1. IsFiniteSet(0..n) BY FS_Interval
 <2> QED BY <2>1, FS_Subset
<1>2. S \subseteq Int OBVIOUS
<1>3. (\E i \in S : \A k \in S : k <= i) /\ (\E i \in S : \A k \in S : i <= k) BY <1>1, <1>2, LargestLeast
<1> QED BY <1>3, Zenon

\* What a search of the store finds.
Sought(S, i) == IF S = {} THEN i = 0 ELSE i \in S /\ \A k \in S : i <= k

\* The oldest record with a property is the least of those that have it.
LEMMA SearchFinds ==
  ASSUME NEW n \in Nat, NEW S, S \subseteq 1..n
  PROVE  Sought(S, IF S = {} THEN 0 ELSE CHOOSE i \in S : \A k \in S : i <= k)
<1>1. CASE S = {} BY <1>1 DEF Sought
<1>2. CASE S # {}
 <2>1. S \subseteq 0..n OBVIOUS
 <2> QED BY <1>2, <2>1, LeastNumber DEF Sought
<1> QED BY <1>1, <1>2

\* Fields of a merged record.
LEMMA MergedFields ==
  ASSUME NEW r, NEW p
  PROVE  /\ DOMAIN Merge(r, p) = DOMAIN r \cup DOMAIN p
         /\ \A f \in DOMAIN p : Merge(r, p)[f] = p[f]
         /\ \A f \in DOMAIN r : f \notin DOMAIN p => Merge(r, p)[f] = r[f]
  BY DEF Merge
-----------------------------
(* The searches of the store: each is 0 if there is no such record, or the
   oldest one. *)

\* An active relation that is looked for.
LEMMA ActiveRelationFound ==
  ASSUME Len(records) \in Nat, NEW kind, NEW a, NEW b
  PROVE  Sought({i \in 1..Len(records) : IsRelation(records[i], kind, "active", a, b)}, ActiveRelation(kind, a, b))
<1> DEFINE S == {i \in 1..Len(records) : IsRelation(records[i], kind, "active", a, b)}
<1>1. ActiveRelation(kind, a, b) = IF S = {} THEN 0 ELSE CHOOSE i \in S : \A j \in S : i <= j
  BY Zenon DEF ActiveRelation, Find, Where
<1>2. S \subseteq 1..Len(records) OBVIOUS
<1> HIDE DEF S
<1>3. Sought(S, ActiveRelation(kind, a, b)) BY <1>1, <1>2, SearchFinds
<1> QED BY <1>3, Zenon DEF S

\* A friend request that is not rejected that is looked for.
LEMMA FriendRecordFound ==
  ASSUME Len(records) \in Nat, NEW a, NEW b
  PROVE  Sought({i \in 1..Len(records) : records[i].kind = "friend" /\ records[i].status # "rejected"
           /\ {records[i].who, records[i].whom} = {a, b}}, FriendRecord(a, b))
<1> DEFINE S == {i \in 1..Len(records) : records[i].kind = "friend" /\ records[i].status # "rejected"
             /\ {records[i].who, records[i].whom} = {a, b}}
<1>1. FriendRecord(a, b) = IF S = {} THEN 0 ELSE CHOOSE i \in S : \A j \in S : i <= j
  BY Zenon DEF FriendRecord, Find, Where
<1>2. S \subseteq 1..Len(records) OBVIOUS
<1> HIDE DEF S
<1>3. Sought(S, FriendRecord(a, b)) BY <1>1, <1>2, SearchFinds
<1> QED BY <1>3, Zenon DEF S

\* A profile that is looked for.
LEMMA ProfileFound ==
  ASSUME Len(records) \in Nat, NEW a
  PROVE  Sought({i \in 1..Len(records) : records[i].kind = "profile" /\ records[i].who = a}, Profile(a))
<1> DEFINE S == {i \in 1..Len(records) : records[i].kind = "profile" /\ records[i].who = a}
<1>1. Profile(a) = IF S = {} THEN 0 ELSE CHOOSE i \in S : \A j \in S : i <= j
  BY Zenon DEF Profile, Find, Where
<1>2. S \subseteq 1..Len(records) OBVIOUS
<1> HIDE DEF S
<1>3. Sought(S, Profile(a)) BY <1>1, <1>2, SearchFinds
<1> QED BY <1>3, Zenon DEF S

\* A ban that is looked for.
LEMMA ActiveBanFound ==
  ASSUME Len(records) \in Nat, NEW a
  PROVE  Sought({i \in 1..Len(records) : records[i] = Ban(a)}, ActiveBan(a))
<1> DEFINE S == {i \in 1..Len(records) : records[i] = Ban(a)}
<1>1. ActiveBan(a) = IF S = {} THEN 0 ELSE CHOOSE i \in S : \A j \in S : i <= j
  BY Zenon DEF ActiveBan, Find, Where
<1>2. S \subseteq 1..Len(records) OBVIOUS
<1> HIDE DEF S
<1>3. Sought(S, ActiveBan(a)) BY <1>1, <1>2, SearchFinds
<1> QED BY <1>3, Zenon DEF S

\* A membership of a status that is looked for.
LEMMA SessionFound ==
  ASSUME Len(records) \in Nat, NEW a, NEW status
  PROVE  Sought({i \in 1..Len(records) : records[i].kind = "membership" /\ records[i].who = a
           /\ records[i].status = status}, Session(a, status))
<1> DEFINE S == {i \in 1..Len(records) : records[i].kind = "membership" /\ records[i].who = a
             /\ records[i].status = status}
<1>1. Session(a, status) = IF S = {} THEN 0 ELSE CHOOSE i \in S : \A j \in S : i <= j
  BY Zenon DEF Session, Find, Where
<1>2. S \subseteq 1..Len(records) OBVIOUS
<1> HIDE DEF S
<1>3. Sought(S, Session(a, status)) BY <1>1, <1>2, SearchFinds
<1> QED BY <1>3, Zenon DEF S

\* A membership that is looked for.
LEMMA ActiveMembershipFound ==
  ASSUME Len(records) \in Nat, NEW a
  PROVE  Sought({i \in 1..Len(records) : Occupies(records[i]) /\ records[i].who = a}, ActiveMembership(a))
<1> DEFINE S == {i \in 1..Len(records) : Occupies(records[i]) /\ records[i].who = a}
<1>1. ActiveMembership(a) = IF S = {} THEN 0 ELSE CHOOSE i \in S : \A j \in S : i <= j
  BY Zenon DEF ActiveMembership, Find, Where
<1>2. S \subseteq 1..Len(records) OBVIOUS
<1> HIDE DEF S
<1>3. Sought(S, ActiveMembership(a)) BY <1>1, <1>2, SearchFinds
<1> QED BY <1>3, Zenon DEF S

\* A seat that is looked for.
LEMMA ApprovedSeatFound ==
  ASSUME Len(records) \in Nat, NEW a
  PROVE  Sought({i \in 1..Len(records) : records[i].kind = "seat" /\ records[i].who = a
           /\ records[i].status = "approved"}, ApprovedSeat(a))
<1> DEFINE S == {i \in 1..Len(records) : records[i].kind = "seat" /\ records[i].who = a
             /\ records[i].status = "approved"}
<1>1. ApprovedSeat(a) = IF S = {} THEN 0 ELSE CHOOSE i \in S : \A j \in S : i <= j
  BY Zenon DEF ApprovedSeat, Find, Where
<1>2. S \subseteq 1..Len(records) OBVIOUS
<1> HIDE DEF S
<1>3. Sought(S, ApprovedSeat(a)) BY <1>1, <1>2, SearchFinds
<1> QED BY <1>3, Zenon DEF S

\* An attendance that is looked for.
LEMMA AttendanceOfFound ==
  ASSUME Len(records) \in Nat, NEW a, NEW b
  PROVE  Sought({i \in 1..Len(records) : records[i] = Attending(a, b)}, AttendanceOf(a, b))
<1> DEFINE S == {i \in 1..Len(records) : records[i] = Attending(a, b)}
<1>1. AttendanceOf(a, b) = IF S = {} THEN 0 ELSE CHOOSE i \in S : \A j \in S : i <= j
  BY Zenon DEF AttendanceOf, Find, Where
<1>2. S \subseteq 1..Len(records) OBVIOUS
<1> HIDE DEF S
<1>3. Sought(S, AttendanceOf(a, b)) BY <1>1, <1>2, SearchFinds
<1> QED BY <1>3, Zenon DEF S

\* A DJ that is looked for.
LEMMA ActiveDjFound ==
  ASSUME Len(records) \in Nat, NEW a
  PROVE  Sought({i \in 1..Len(records) : records[i] = Dj(a)}, ActiveDj(a))
<1> DEFINE S == {i \in 1..Len(records) : records[i] = Dj(a)}
<1>1. ActiveDj(a) = IF S = {} THEN 0 ELSE CHOOSE i \in S : \A j \in S : i <= j
  BY Zenon DEF ActiveDj, Find, Where
<1>2. S \subseteq 1..Len(records) OBVIOUS
<1> HIDE DEF S
<1>3. Sought(S, ActiveDj(a)) BY <1>1, <1>2, SearchFinds
<1> QED BY <1>3, Zenon DEF S

\* A review that is looked for.
LEMMA ReviewOfFound ==
  ASSUME Len(records) \in Nat, NEW k
  PROVE  Sought({i \in 1..Len(records) : records[i].kind = "review" /\ records[i].of = k}, ReviewOf(k))
<1> DEFINE S == {i \in 1..Len(records) : records[i].kind = "review" /\ records[i].of = k}
<1>1. ReviewOf(k) = IF S = {} THEN 0 ELSE CHOOSE i \in S : \A j \in S : i <= j
  BY Zenon DEF ReviewOf, Find, Where
<1>2. S \subseteq 1..Len(records) OBVIOUS
<1> HIDE DEF S
<1>3. Sought(S, ReviewOf(k)) BY <1>1, <1>2, SearchFinds
<1> QED BY <1>3, Zenon DEF S
-----------------------------
(* Types: what a request of each kind carries, which steps it comes to,
   which records it adds and which fields of which records it changes. *)
\* Places of records, and of records of some kinds.
Rows == 1..Len(records)
IsTrack(i) == i \in Rows /\ records[i].kind = "track"
IsPlayer(i) == i \in Rows /\ records[i].kind = "player"
IsReview(i) == i \in Rows /\ records[i].kind = "review"

\* What a player or an appeal refers to is there.
Refers(r) ==
  /\ r.kind = "player" => r.current = 0 \/ IsTrack(r.current)
  /\ r.kind = "appeal" => IsReview(r.of)

\* s is a copy of record r, perhaps an old one.
SameRow(r, s) ==
  /\ r.kind = s.kind
  /\ r.kind # "player" => r.who = s.who
  /\ r.kind \in Relations \cup {"report"} => r.whom = s.whom
  /\ r.kind \in {"review", "appeal"} => r.of = s.of
  /\ r.kind = "attendance" => r.in = s.in

\* The kinds of requests that come to a step.
Telling1 == {"follow", "friend", "accepted", "send", "answer"}
\* Requests that make the player if there is none.
Players == Controls \cup {"state"}
\* A request comes only to steps of its kind.
Fits(op, at) ==
  /\ at = "find" => op \in {"follow", "friend", "attend"}
  /\ at = "hear" => op \in {"follow", "friend", "accepted", "send"}
  /\ at = "notify" => op \in Telling1
  /\ at \in {"preferences", "devices", "push", "prune"} => op \in Telling1 \cup {"redeliver"}
  /\ at = "mark" => op = "read"
  /\ at \in {"privacy", "friends", "insert"} => op = "open"
  /\ at \in {"allowed", "presence", "post"} => op = "send"
  /\ at = "chat" => op \in {"seen", "deleteMessage", "reportMessage"}
  /\ at = "profile" => op = "privacy"
  /\ at = "banned" => op = "join"
  /\ at \in {"member", "capacity"} => op \in {"join", "attend"}
  /\ at = "evict" => op = "ban"
  /\ at = "log" => op \in {"memberMute", "kick", "ban", "unban", "setting"}
  /\ at = "dismiss" => op = "close"
  /\ at = "dj" => op = "grant"
  /\ at = "count" => op \in {"queue", "login"}
  /\ at \in {"may", "reindex"} => op = "remove"
  /\ at = "order" => op = "reorder"
  /\ at = "player" => op \in Players
  /\ at \in {"pause", "volume", "play"} => op = at
  /\ at \in {"previous", "show"} => op \in {"play", "next"}
  /\ at = "start" => op = "play"
  /\ at = "advance" => op = "next"
  /\ at = "answer" => op = "reply"
  /\ at = "review" => op \in {"review", "decide"}
  /\ at = "appeal" => op = "appeal"
  /\ at \in {"forget", "identity", "create", "bind", "session"} => op = "login"
  /\ at = "account" => op \in {"call", "delete", "logout"}
  /\ at = "do" => op \in {"delete", "logout"}
  /\ at = "revokeAll" => op = "delete"
  /\ at \in {"look", "circle"} => op \in Lists \cup {"full"}
  /\ at = "list" => op \in Lists
  /\ at = "feed" => op \in Tabs
  /\ at = "set" => op \in {"suspend", "unsuspend"}
  /\ at = "audit" => op \in {"suspend", "unsuspend", "closeRoom"}

\* What a request carries beside what all of them do.
Told == {"follow", "friend", "accepted", "rejected", "open", "send", "redeliver", "answer",
         "seatMute", "memberMute", "kick", "ban", "unban", "setting"}
\* What all requests carry.
Basic(j) == {"op", "at", "key", "who", "began", "todo", "read", "then"} \subseteq DOMAIN j
\* Who is told something has an account.
Tells(j) ==
  j.op \in Told => "to" \in DOMAIN j /\ "category" \in DOMAIN j /\ j.to \in Accounts
\* A request about two accounts knows both.
CarriesPair(j) ==
  /\ j.op \in {"open", "send"} => j.who \in Accounts /\ j.who # j.to /\ j.key = {j.who, j.to}
  /\ j.op \in {"follow", "friend", "block", "mute", "seat"} => j.who \in Accounts
  /\ j.op \in {"block", "mute"} => j.key \in Accounts
\* A request that changes the track knows which is the next.
CarriesTrack(j, at) ==
  /\ j.op = "play" /\ at \notin {"player", "add", "play"} =>
        "track" \in DOMAIN j /\ "was" \in DOMAIN j /\ IsTrack(j.track)
  /\ j.op = "next" /\ at = "show" => "track" \in DOMAIN j /\ IsTrack(j.track)
\* A request about the player knows the player, and what it showed.
CarriesPlayer(j, at) ==
  /\ j.op \in Players => "chosen" \in DOMAIN j /\ (j.chosen = 0 \/ IsTrack(j.chosen))
  /\ j.op \in Players /\ at # "player" =>
        "state" \in DOMAIN j /\ (j.state.current = 0 \/ IsTrack(j.state.current))
  /\ j.op \in Players /\ at \notin {"player", "add"} => "made" \in DOMAIN j /\ IsPlayer(j.made)
  /\ CarriesTrack(j, at)
\* What is read at one step and used at the next is carried.
CarriesStep(j, at) ==
  /\ at \in {"push", "prune"} => "tokens" \in DOMAIN j
  /\ at = "post" => "status" \in DOMAIN j
  /\ j.op = "login" /\ at \in {"count", "forget"} =>
        "challenge" \in DOMAIN j /\ "right" \in DOMAIN j /\ "by" \in DOMAIN j
  /\ at = "circle" => "visible" \in DOMAIN j
\* The record a request is about is there, and of the right kind.
CarriesKey(j) ==
  /\ j.op = "decide" => j.key \in Rows /\ records[j.key].kind = "appeal"
  /\ j.op \in {"remove", "reorder"} => IsTrack(j.key)
  /\ j.op = "appeal" => IsReview(j.key)
\* A request that changes the privacy carries the change.
CarriesPrivacy(j) ==
  j.op = "privacy" => "privacy" \in DOMAIN j /\ "patch" \in DOMAIN j
\* What else requests of some kinds carry.
CarriesMore(j) ==
  /\ j.op = "reorder" => "place" \in DOMAIN j /\ j.place \in Nat
  /\ j.op = "reply" => "entry" \in DOMAIN j
  /\ j.op \in {"review", "decide"} => "outcome" \in DOMAIN j
  /\ j.op \in {"call", "delete", "logout"} => "ended" \in DOMAIN j
  /\ j.op \in {"suspend", "unsuspend", "closeRoom"} => "nth" \in DOMAIN j
  /\ j.op \in Tabs => "lists" \in DOMAIN j /\ "visible" \in DOMAIN j /\ "live" \in DOMAIN j
       /\ "followed" \in DOMAIN j
                      /\ j.lists \subseteq Listings(j.op)
\* What a request that comes to a step carries.
Carries(j, at) ==
  /\ Tells(j) /\ CarriesPlayer(j, at) /\ CarriesStep(j, at) /\ CarriesKey(j)
  /\ CarriesPair(j) /\ CarriesPrivacy(j) /\ CarriesMore(j)

\* The record a request is about to add, and the step after it.
NewRow(j, new, then) ==
  \/ j.op = "follow" /\ new = Relation("follow", "active", j.who, j.to) /\ then = "hear"
  \/ j.op = "friend" /\ new = Relation("friend", "pending", j.who, j.to) /\ then = "hear"
  \/ j.op \in {"block", "mute"} /\ new = Relation(j.op, "active", j.who, j.key) /\ then = "end"
  \/ /\ j.op = "privacy" /\ then = "end"
     /\ new = [kind |-> "profile", status |-> "kept", who |-> j.who, privacy |-> new.privacy]
     /\ DOMAIN DefaultPrivacy \subseteq DOMAIN new.privacy
  \/ j.op = "join" /\ new = Membership(j.who) /\ then = "end"
  \/ j.op = "seat" /\ new = Seat(j.who) /\ then = "end"
  \/ j.op = "ban" /\ new = Ban(j.to) /\ then = "evict"
  \/ /\ j.op \in {"memberMute", "kick", "ban", "unban", "setting"} /\ then = "end"
     /\ new = Logged(j.op, j.to)
  \/ j.op = "create" /\ new = Breakout(j.who) /\ then = "end"
  \/ j.op = "attend" /\ new = Attending(j.who, j.key) /\ then = "end"
  \/ j.op = "grant" /\ new = Dj(j.key) /\ then = "end"
  \/ j.op = "queue" /\ then = "end" /\ \E n \in Nat : new = Track(j.who, n)
  \/ /\ j.op \in Players /\ new = NewPlayer
     /\ then = CASE j.op = "next" -> "previous" [] j.op = "state" -> "end" [] OTHER -> j.op
  \/ j.op = "ticket" /\ new = Ticket(j.who) /\ then = "end"
  \/ j.op = "report" /\ new = Report(j.who, j.key) /\ then = "end"
  \/ /\ j.op = "review" /\ then = "end"
     /\ \E status, decision : new = Review(j.who, j.key, status, decision)
  \/ j.op = "appeal" /\ new = Appeal(j.who, j.key) /\ then = "end"

\* The statuses a ticket comes to.
Reached == DOMAIN Transitions \ {"open"}

\* The fields that a kind of request changes of a kind of record, and the step
\* after it.
Mends(op, kind, patch, then) ==
  \/ op = "accepted" /\ kind = "friend" /\ patch = [status |-> "accepted"] /\ then = "hear"
  \/ op = "rejected" /\ kind = "friend" /\ patch = [status |-> "rejected"] /\ then = "end"
  \/ op = "quiet" /\ kind \in {"follow", "friend"} /\ DOMAIN patch = {"quiet"} /\ then = "end"
  \/ op = "lift" /\ kind \in {"follow", "block", "mute"} /\ patch = [status |-> "removed"] /\ then = "end"
  \/ /\ op = "privacy" /\ kind = "profile" /\ DOMAIN patch = {"privacy"} /\ then = "end"
     /\ DOMAIN DefaultPrivacy \subseteq DOMAIN patch.privacy
  \/ op = "join" /\ kind = "membership" /\ patch = [status |-> "joined"] /\ then = "end"
  \/ /\ op = "move" /\ kind = "membership" /\ then = "end"
     /\ \E status \in {"left", "disconnected", "joined"} : patch = [status |-> status]
  \/ op \in {"kick", "ban"} /\ kind = "membership" /\ patch = [status |-> "kicked"] /\ then = "log"
  \/ /\ op = "answer" /\ kind = "seat" /\ then = "notify"
     /\ \E status \in {"approved", "rejected"} : patch = [status |-> status]
  \/ op = "seatMute" /\ kind = "seat" /\ DOMAIN patch = {"muted"} /\ then = "end"
  \/ op = "memberMute" /\ kind = "seat" /\ DOMAIN patch = {"muted"} /\ then = "log"
  \/ op = "unban" /\ kind = "ban" /\ patch = [status |-> "removed"] /\ then = "log"
  \/ op = "setting" /\ kind = "room" /\ DOMAIN patch = {"setting"} /\ then = "log"
  \/ op = "closeRoom" /\ kind = "room" /\ patch = [status |-> "closed"] /\ then = "audit"
  \/ op = "close" /\ kind = "breakout" /\ patch = [status |-> "closed"] /\ then = "dismiss"
  \/ op = "close" /\ kind = "attendance" /\ patch = [status |-> "ended"] /\ then = "end"
  \/ op = "quit" /\ kind = "attendance" /\ patch = [status |-> "left"] /\ then = "end"
  \/ op = "revoke" /\ kind = "dj" /\ patch = [status |-> "revoked"] /\ then = "end"
  \/ op = "remove" /\ kind = "track" /\ patch = [status |-> "removed"] /\ then = "reindex"
  \/ /\ op \in {"remove", "reorder"} /\ kind = "track" /\ then = "end"
     /\ \E n \in Nat : patch = [position |-> n]
  \/ op = "play" /\ kind = "track" /\ patch = [status |-> "played"] /\ then = "start"
  \/ op = "next" /\ kind = "track" /\ patch = [status |-> "played"] /\ then = "advance"
  \/ op \in {"play", "next"} /\ kind = "track" /\ patch = [status |-> "playing"] /\ then = "show"
  \/ op \in {"play", "next"} /\ kind = "player" /\ DOMAIN patch = {"status", "current"} /\ then = "end"
  \/ op = "pause" /\ kind = "player" /\ patch = [status |-> "paused"] /\ then = "end"
  \/ op = "volume" /\ kind = "player" /\ DOMAIN patch = {"volume"} /\ then = "end"
  \/ op = "reply" /\ kind = "ticket" /\ DOMAIN patch = {"replies"} /\ then = "answer"
  \/ op = "attach" /\ kind = "ticket" /\ DOMAIN patch = {"attachments"} /\ then = "end"
  \/ /\ op \in Reached /\ kind = "ticket" /\ patch = [status |-> op] /\ then = "end"
  \/ op = "escalate" /\ kind = "ticket" /\ patch = [status |-> "escalated"] /\ then = "end"
  \/ /\ op = "review" /\ kind = "review" /\ then = "end"
     /\ \E outcome : patch = [status |-> "resolved", decision |-> outcome]
  \/ /\ op = "assign" /\ kind = "appeal" /\ then = "end"
     /\ \E a : patch = [status |-> "under_review", reviewer |-> a]
  \/ /\ op = "decide" /\ kind = "appeal" /\ then = "review"
     /\ \E a, outcome : patch = [status |-> "resolved", reviewer |-> a, outcome |-> outcome]
  \/ /\ op = "decide" /\ kind = "review" /\ then = "end"
     /\ patch \in {[appealed |-> TRUE, decision |-> "overturned"], [appealed |-> TRUE]}

\* An update that job j is to make, and the step after it.
Mend(j, u, then) ==
  /\ u.id \in Rows
  /\ Mends(j.op, records[u.id].kind, u.patch, then)
  /\ "current" \in DOMAIN u.patch => u.patch.current = 0 \/ IsTrack(u.patch.current)
  /\ j.op = "next" /\ then = "show" => "track" \in DOMAIN j /\ IsTrack(j.track)

\* The copy of a row it has read.
Copied(r) ==
  WellFormed(r.copy) /\ Refers(r.copy) /\ SameRow(r.copy, records[r.u.id])

\* A request wrote row i after n writes.
Renewed(i, n) == \E s \in trace[i] : s.wrote > n

\* The copy is what the row is, unless the row was written since the reader began.
Dated(r, n) == r.copy = records[r.u.id] \/ Renewed(r.u.id, n)

\* What a request is.
Typed(j) ==
  /\ Basic(j) /\ Carries(j, j.at)
  /\ j.began \in Nat /\ j.began <= writes
  /\ j.at # "end" /\ Fits(j.op, j.at)
  /\ j.at = "add" => "new" \in DOMAIN j /\ NewRow(j, j.new, j.then)
  /\ j.at # "update" => j.todo = {} /\ j.read = {}
  /\ j.at = "update" =>
       /\ j.todo \cup j.read # {}
       /\ \A u \in j.todo : Mend(j, u, j.then)
       /\ \A r \in j.read : Mend(j, r.u, j.then) /\ Copied(r) /\ Dated(r, j.began)

\* What the store of records keeps.
StoreTyped ==
  /\ DOMAIN job = Handlers
  /\ writes \in Nat /\ accepted \in Nat
  /\ Sequence(records) /\ Sequence(trace) /\ Len(trace) = Len(records)
  /\ \A i \in Rows : WellFormed(records[i]) /\ Refers(records[i])
  /\ \A i \in Rows : \A s \in trace[i] :
       s.began \in Nat /\ s.wrote \in Nat /\ s.began < s.wrote /\ s.wrote <= writes
  /\ serving \in InRooms => Len(records) > 0 /\ records[1].kind = "room"
\* What the table of conversations keeps.
ChatTyped ==
  /\ DOMAIN conversations = Pairs
  /\ \A c \in Pairs : IsOpen(c) =>
       conversations[c].opener \in c /\ \E a, b \in Accounts : a # b /\ c = {a, b}
\* Every handler is idle or works on a request.
JobsTyped == \A h \in Handlers : job[h] = Idle \/ Typed(job[h])
-----------------------------
\* h takes a step that changes no record: it goes on with a request of kind
\* op, or ends.
Turned(h, ops) ==
  /\ DOMAIN job' = Handlers
  /\ \A g \in Handlers : g # h => job'[g] = job[g]
  /\ job'[h] \in {Idle, job[h]} \/ (Typed(job'[h]) /\ job'[h].op \in ops)
  /\ writes' \in {writes, writes + 1} /\ accepted' \in {accepted, accepted + 1}
  /\ UNCHANGED <<records, trace, dropped>>

\* A request goes on, or begins, as j.
LEMMA GoesOn ==
  ASSUME StoreTyped, NEW h \in Handlers, NEW j, NEW ops, Become(h, j) \/ Wrote(h, j),
         j.at # "end" => Typed(j) /\ j.op \in ops
  PROVE  Turned(h, ops)
<1>1. DOMAIN job = Handlers BY DEF StoreTyped
<1>2. job'[h] = (IF j.at = "end" THEN Idle ELSE j) /\ DOMAIN job' = Handlers
      /\ \A g \in Handlers : g # h => job'[g] = job[g]
  BY <1>1 DEF Become, Wrote
<1> QED BY <1>2 DEF Become, Wrote, Turned

\* A request begins.
LEMMA Begins ==
  ASSUME StoreTyped, NEW h \in Handlers, NEW j, NEW ops, Begin(h, j), Typed(j), j.op \in ops
  PROVE  Turned(h, ops)
<1>1. DOMAIN job = Handlers BY DEF StoreTyped
<1>2. job'[h] = j /\ DOMAIN job' = Handlers
      /\ \A g \in Handlers : g # h => job'[g] = job[g]
  BY <1>1 DEF Begin, Accept
<1> QED BY <1>2 DEF Begin, Accept, Turned

\* Fields that k has as j has them.
Alike(k, j) ==
  /\ DOMAIN j \subseteq DOMAIN k /\ k.op = j.op /\ k.key = j.key /\ k.who = j.who
  /\ k.began = j.began
  /\ "to" \in DOMAIN j => k.to = j.to
  /\ "privacy" \in DOMAIN j => k.privacy = j.privacy
  /\ "place" \in DOMAIN j => k.place = j.place
  /\ "chosen" \in DOMAIN j => k.chosen = j.chosen
  /\ "state" \in DOMAIN j => k.state = j.state
  /\ "made" \in DOMAIN j => k.made = j.made
  /\ "track" \in DOMAIN j => k.track = j.track
  /\ "lists" \in DOMAIN j => k.lists = j.lists

\* What j carries, k does.
LEMMA AlikeCarry ==
  ASSUME NEW j, NEW k, NEW at, Basic(j), Alike(k, j), Carries(j, at)
  PROVE  Basic(k) /\ Carries(k, at)
<1>1. Basic(k) BY DEF Alike, Basic
<1>2. Tells(k) BY DEF Carries, Alike, Tells
<1>3. CarriesPlayer(k, at)
 <2>1. CarriesTrack(k, at) BY DEF Carries, Alike, CarriesPlayer, CarriesTrack
 <2> QED BY <2>1 DEF Carries, Alike, CarriesPlayer
<1>4. CarriesStep(k, at) BY DEF Carries, Alike, CarriesStep
<1>5. CarriesKey(k) BY DEF Carries, Alike, CarriesKey
<1>6. CarriesMore(k) BY DEF Carries, Alike, CarriesMore
<1>7. CarriesPrivacy(k) BY DEF Carries, Alike, CarriesPrivacy
<1>8. CarriesPair(k)
 <2>1. j.op \in {"open", "send"} => "to" \in DOMAIN j BY DEF Carries, Tells, Told
 <2> QED BY <2>1 DEF Carries, Alike, CarriesPair
<1> QED BY <1>1, <1>2, <1>3, <1>4, <1>5, <1>6, <1>7, <1>8 DEF Carries

\* A request comes to another step.
LEMMA Moves ==
  ASSUME NEW j, Typed(j), j.at # "update",
         NEW at, at \notin {"add", "update", "end"}, Fits(j.op, at), Carries(j, at)
  PROVE  Typed([j EXCEPT !.at = at]) /\ [j EXCEPT !.at = at].op = j.op /\ [j EXCEPT !.at = at].at = at
<1> DEFINE k == [j EXCEPT !.at = at]
<1>1. Basic(j) BY DEF Typed
<1>2. DOMAIN k = DOMAIN j /\ k.at = at /\ k.todo = j.todo /\ k.read = j.read BY <1>1 DEF Basic
<1>3. Alike(k, j) BY <1>1 DEF Alike, Basic
<1> HIDE DEF k
<1>4. Basic(k) /\ Carries(k, at) BY <1>1, <1>3, AlikeCarry
<1>5. k.op = j.op /\ k.began = j.began BY <1>3 DEF Alike
<1>6. j.began \in Nat /\ j.began <= writes /\ j.todo = {} /\ j.read = {} BY DEF Typed
<1>7. Typed(k) BY <1>2, <1>4, <1>5, <1>6 DEF Typed
<1> QED BY <1>2, <1>5, <1>7 DEF k

\* A request comes to add a record.
LEMMA Adds ==
  ASSUME NEW j, Typed(j), j.at # "update", NEW r, NEW at, NewRow(j, r, at), Carries(j, "add")
  PROVE  /\ Typed(Adding(j, r, at)) /\ Adding(j, r, at).op = j.op /\ Adding(j, r, at).at = "add"
         /\ Adding(j, r, at).new = r /\ Adding(j, r, at).then = at
<1> DEFINE k == Adding(j, r, at)
<1>1. Basic(j) BY DEF Typed
<1>2. /\ DOMAIN k = DOMAIN j \cup {"at", "then", "new"} /\ k.at = "add" /\ k.new = r /\ k.then = at
      /\ k.todo = j.todo /\ k.read = j.read
  BY <1>1 DEF Basic, Adding, Merge
<1>3. Alike(k, j) BY <1>1 DEF Alike, Basic, Adding, Merge
<1> HIDE DEF k
<1>4. Basic(k) /\ Carries(k, "add") BY <1>1, <1>3, AlikeCarry
<1>5. k.op = j.op /\ k.began = j.began /\ k.who = j.who /\ k.key = j.key BY <1>3 DEF Alike
<1>6. j.began \in Nat /\ j.began <= writes /\ j.todo = {} /\ j.read = {} BY DEF Typed
<1>7. NewRow(k, r, at)
 <2>1. "to" \in DOMAIN j => k.to = j.to BY <1>3 DEF Alike
 <2>2. j.op \in Told => "to" \in DOMAIN j BY DEF Carries, Tells
 <2> QED BY <1>5, <2>1, <2>2 DEF NewRow, Told
<1>8. Typed(k)
 <2>1. Fits(k.op, "add") BY DEF Fits
 <2> QED BY <1>2, <1>4, <1>5, <1>6, <1>7, <2>1 DEF Typed
<1> QED BY <1>2, <1>5, <1>8 DEF k

\* A request comes to make updates.
LEMMA Updates ==
  ASSUME NEW j, Typed(j), j.at # "update", NEW todo, NEW at, Carries(j, "update"), todo # {},
         \A u \in todo : Mend(j, u, at)
  PROVE  /\ Typed(Updating(j, todo, at)) /\ Updating(j, todo, at).op = j.op /\ Updating(j, todo, at).at = "update"
         /\ Updating(j, todo, at).todo = todo /\ Updating(j, todo, at).then = at /\ Updating(j, todo, at).read = {}
<1> DEFINE k == Updating(j, todo, at)
<1>1. Basic(j) BY DEF Typed
<1>2. /\ DOMAIN k = DOMAIN j /\ k.at = "update" /\ k.then = at
      /\ k.todo = todo /\ k.read = j.read
  BY <1>1 DEF Basic, Updating
<1>3. Alike(k, j) BY <1>1 DEF Alike, Basic, Updating
<1> HIDE DEF k
<1>4. Basic(k) /\ Carries(k, "update") BY <1>1, <1>3, AlikeCarry
<1>5. k.op = j.op /\ k.began = j.began BY <1>3 DEF Alike
<1>6. j.began \in Nat /\ j.began <= writes /\ j.read = {} BY DEF Typed
<1>7. \A u \in todo : Mend(k, u, at)
 <2>1. "track" \in DOMAIN j => "track" \in DOMAIN k /\ k.track = j.track BY <1>3 DEF Alike
 <2> QED BY <1>5, <2>1 DEF Mend
<1>8. Typed(k)
 <2>1. Fits(k.op, "update") BY DEF Fits
 <2> QED BY <1>2, <1>4, <1>5, <1>6, <1>7, <2>1 DEF Typed
<1> QED BY <1>2, <1>5, <1>6, <1>8 DEF k
-----------------------------
\* Ends.
LEMMA Stops ==
  ASSUME StoreTyped, NEW h \in Handlers, NEW j, NEW ops, Basic(j),
         Become(h, [j EXCEPT !.at = "end"]) \/ Wrote(h, [j EXCEPT !.at = "end"])
  PROVE  Turned(h, ops) /\ job'[h] = Idle
<1>1. [j EXCEPT !.at = "end"].at = "end" BY DEF Basic
<1> QED BY <1>1, GoesOn DEF Become, Wrote, StoreTyped

\* What most steps need.
LEMMA CarriesOn ==
  ASSUME NEW j, NEW at, NEW to, Carries(j, at), j.op \notin Players,
         to \notin {"push", "prune", "post", "circle", "count", "forget"}
  PROVE  Carries(j, to)
  BY DEF Carries, CarriesPlayer, CarriesTrack, CarriesStep, Players, Controls

\* Kinds of requests that carry something of their own.
Particular == {"play", "pause", "next", "volume", "state", "login", "decide", "remove", "appeal",
               "privacy", "reorder", "reply", "review", "call", "delete", "logout",
               "suspend", "unsuspend", "closeRoom", "new", "live", "following"}

\* The others carry at most whom they tell.
LEMMA PlainCarries ==
  ASSUME NEW j, NEW at, j.op \notin Particular, Tells(j), CarriesPair(j),
         at \notin {"push", "prune", "post", "circle"}
  PROVE  Carries(j, at)
<1>1. CarriesPlayer(j, at) BY DEF CarriesPlayer, CarriesTrack, Players, Controls, Particular
<1>2. CarriesStep(j, at) /\ CarriesKey(j) BY DEF CarriesStep, CarriesKey, Particular
<1>3. CarriesPrivacy(j) BY DEF CarriesPrivacy, Particular
<1>4. CarriesMore(j) BY DEF CarriesMore, Tabs, Particular
<1> QED BY <1>1, <1>2, <1>3, <1>4 DEF Carries

\* A request comes to a step with more than it had.
LEMMA Turns ==
  ASSUME NEW j, Typed(j), NEW k, Basic(k), k.op = j.op, k.began = j.began, k.todo = {}, k.read = {},
         k.at \notin {"add", "update", "end"}, Fits(k.op, k.at), Carries(k, k.at)
  PROVE  Typed(k)
  BY DEF Typed
-----------------------------
\* Requests of the social part.
SocialOps == {"follow", "friend", "accepted", "rejected", "quiet", "block", "mute", "lift"}

\* A follow or a friend request begins.
LEMMA StartRelationTurns ==
  ASSUME StoreTyped, JobsTyped, NEW h \in Handlers, NEW op \in {"follow", "friend"}, NEW a \in Accounts,
         NEW b \in Accounts, StartRelation(h, op, a, b)
  PROVE  Turned(h, SocialOps)
<1> DEFINE k == Ask(op, a, b, "find")
<1>1. Begin(h, k) BY DEF StartRelation
<1>2. /\ Basic(k) /\ k.op = op /\ k.at = "find" /\ k.began = writes /\ k.read = {}
      /\ k.todo = {}
      /\ "to" \in DOMAIN k /\ "category" \in DOMAIN k /\ k.to = b /\ k.who = a
  BY DEF Ask, Telling, Request, Merge, Basic
<1> HIDE DEF k
<1>4. Carries(k, "find") BY <1>2, PlainCarries DEF Tells, CarriesPair, Told, Particular
<1>6. Typed(k) BY <1>2, <1>4 DEF Typed, Fits, StoreTyped
<1> QED BY <1>1, <1>2, <1>6, Begins DEF SocialOps

\* A friend request is answered.
LEMMA AnswerTurns ==
  ASSUME StoreTyped, JobsTyped, NEW h \in Handlers, NEW a \in Accounts, NEW i \in Rows,
         NEW status \in {"accepted", "rejected"}, Answer(h, a, i, status)
  PROVE  Turned(h, SocialOps)
<1> DEFINE k == Updating(Ask(status, a, records[i].who, "update"), {Update(i, [status |-> status])},
             IF status = "accepted" THEN "hear" ELSE "end")
<1>1. Begin(h, k) BY DEF Answer
<1>2. /\ Basic(k) /\ k.op = status /\ k.at = "update" /\ k.began = writes /\ k.read = {}
      /\ k.todo = {Update(i, [status |-> status])} /\ k.then = IF status = "accepted" THEN "hear" ELSE "end"
      /\ "to" \in DOMAIN k /\ "category" \in DOMAIN k /\ k.to = records[i].who
  BY DEF Updating, Ask, Telling, Request, Merge, Basic
<1>3. records[i].who \in Accounts /\ records[i].kind = "friend"
  BY DEF StoreTyped, WellFormed, Relations, Answer
<1> HIDE DEF k
<1>4. Carries(k, "update") BY <1>2, <1>3, PlainCarries DEF Tells, CarriesPair, Told, Particular
<1>5. k.todo # {} /\ \A u \in k.todo : Mend(k, u, k.then) BY <1>2, <1>3 DEF Mend, Mends, Update
<1>6. Typed(k) BY <1>2, <1>4, <1>5 DEF Typed, Fits, StoreTyped
<1> QED BY <1>1, <1>2, <1>6, Begins DEF SocialOps

\* A relation is muted, or no longer.
LEMMA SetQuietTurns ==
  ASSUME StoreTyped, JobsTyped, NEW h \in Handlers, NEW a \in Accounts, NEW i \in Rows, NEW quiet \in BOOLEAN,
         SetQuiet(h, a, i, quiet)
  PROVE  Turned(h, SocialOps)
<1> DEFINE k == Updating(Request("quiet", a, i, "update"), {Update(i, [quiet |-> quiet])}, "end")
<1>1. Begin(h, k) BY DEF SetQuiet
<1>2. /\ Basic(k) /\ k.op = "quiet" /\ k.at = "update" /\ k.began = writes /\ k.read = {}
      /\ k.todo = {Update(i, [quiet |-> quiet])} /\ k.then = "end"
  BY DEF Updating, Request, Basic
<1>3. records[i].kind \in {"follow", "friend"} BY DEF SetQuiet
<1> HIDE DEF k
<1>4. Carries(k, "update") BY <1>2, <1>3, PlainCarries DEF Tells, CarriesPair, Told, Particular
<1>5. k.todo # {} /\ \A u \in k.todo : Mend(k, u, k.then) BY <1>2, <1>3 DEF Mend, Mends, Update
<1>6. Typed(k) BY <1>2, <1>4, <1>5 DEF Typed, Fits, StoreTyped
<1> QED BY <1>1, <1>2, <1>6, Begins DEF SocialOps

\* A block or a mute begins.
LEMMA BarTurns ==
  ASSUME StoreTyped, JobsTyped, NEW h \in Handlers, NEW kind \in {"block", "mute"}, NEW a \in Accounts,
         NEW b \in Accounts, Bar(h, kind, a, b)
  PROVE  Turned(h, SocialOps)
<1> DEFINE k == Adding(Request(kind, a, b, "add"), Relation(kind, "active", a, b), "end")
<1>1. Begin(h, k) BY DEF Bar
<1>2. /\ Basic(k) /\ k.op = kind /\ k.at = "add" /\ k.began = writes /\ k.read = {}
      /\ k.todo = {}
      /\ "new" \in DOMAIN k /\ k.new = Relation(kind, "active", a, b) /\ k.then = "end"
      /\ k.who = a /\ k.key = b
  BY DEF Adding, Request, Merge, Basic
<1> HIDE DEF k
<1>4. Carries(k, "add") BY <1>2, PlainCarries DEF Tells, CarriesPair, Told, Particular
<1>5. NewRow(k, k.new, k.then) BY <1>2 DEF NewRow
<1>6. Typed(k) BY <1>2, <1>4, <1>5 DEF Typed, Fits, StoreTyped
<1> QED BY <1>1, <1>2, <1>6, Begins DEF SocialOps

\* A relation is to be removed.
LEMMA LiftTurns ==
  ASSUME StoreTyped, JobsTyped, NEW h \in Handlers, NEW kind \in {"follow", "block", "mute"}, NEW a, NEW b,
         Lift(h, kind, a, b)
  PROVE  Turned(h, SocialOps)
<1> DEFINE k == Updating(Request("lift", a, b, "update"),
             {Update(ActiveRelation(kind, a, b), [status |-> "removed"])}, "end")
<1>1. Begin(h, k) BY DEF Lift
<1>2. /\ Basic(k) /\ k.op = "lift" /\ k.at = "update" /\ k.began = writes /\ k.read = {}
      /\ k.todo = {Update(ActiveRelation(kind, a, b), [status |-> "removed"])} /\ k.then = "end"
  BY DEF Updating, Request, Basic
<1>3. ActiveRelation(kind, a, b) \in Rows /\ records[ActiveRelation(kind, a, b)].kind = kind
  BY ActiveRelationFound, SequencePlaces DEF Lift, Sought, IsRelation, StoreTyped, Rows
<1> HIDE DEF k
<1>4. Carries(k, "update") BY <1>2, <1>3, PlainCarries DEF Tells, CarriesPair, Told, Particular
<1>5. k.todo # {} /\ \A u \in k.todo : Mend(k, u, k.then) BY <1>2, <1>3 DEF Mend, Mends, Update
<1>6. Typed(k) BY <1>2, <1>4, <1>5 DEF Typed, Fits, StoreTyped
<1> QED BY <1>1, <1>2, <1>6, Begins DEF SocialOps

\* A follow that is not there yet is added.
LEMMA FindFollowTurns ==
  ASSUME StoreTyped, JobsTyped, NEW h \in Handlers, FindFollow(h)
  PROVE  Turned(h, SocialOps)
<1> DEFINE j == job[h]
<1>1. Typed(j) /\ j.at = "find" /\ j.op = "follow" BY DEF JobsTyped, FindFollow, Doing, Idle
<1>2. Basic(j) /\ Carries(j, "find") BY <1>1 DEF Typed, Fits
<1>3. \/ Become(h, [j EXCEPT !.at = "end"])
      \/ Become(h, Adding(j, Relation("follow", "active", j.who, j.to), "hear"))
  BY DEF FindFollow
<1> HIDE DEF j
<1>4. CASE Become(h, [j EXCEPT !.at = "end"]) BY <1>2, <1>4, Stops
<1>5. CASE Become(h, Adding(j, Relation("follow", "active", j.who, j.to), "hear"))
 <2>1. NewRow(j, Relation("follow", "active", j.who, j.to), "hear") BY <1>1, <1>2, <1>5 DEF NewRow
 <2>2. Carries(j, "add") BY <1>1, <1>2, CarriesOn DEF Players, Controls, Lists, Tabs
 <2>3. Typed(Adding(j, Relation("follow", "active", j.who, j.to), "hear"))
         /\ Adding(j, Relation("follow", "active", j.who, j.to), "hear").op = j.op
   BY <1>1, <2>1, <2>2, Adds
 <2> QED BY <1>1, <1>2, <1>5, <2>3, GoesOn DEF SocialOps
<1> QED BY <1>3, <1>4, <1>5

\* A friend request that is not there yet is added.
LEMMA FindFriendTurns ==
  ASSUME StoreTyped, JobsTyped, NEW h \in Handlers, FindFriend(h)
  PROVE  Turned(h, SocialOps)
<1> DEFINE j == job[h]
<1>1. Typed(j) /\ j.at = "find" /\ j.op = "friend" BY DEF JobsTyped, FindFriend, Doing, Idle
<1>2. Basic(j) /\ Carries(j, "find") BY <1>1 DEF Typed, Fits
<1>3. \/ Become(h, [j EXCEPT !.at = "end"])
      \/ Become(h, Adding(j, Relation("friend", "pending", j.who, j.to), "hear"))
  BY DEF FindFriend
<1> HIDE DEF j
<1>4. CASE Become(h, [j EXCEPT !.at = "end"]) BY <1>2, <1>4, Stops
<1>5. CASE Become(h, Adding(j, Relation("friend", "pending", j.who, j.to), "hear"))
 <2>1. NewRow(j, Relation("friend", "pending", j.who, j.to), "hear") BY <1>1, <1>2, <1>5 DEF NewRow
 <2>2. Carries(j, "add") BY <1>1, <1>2, CarriesOn DEF Players, Controls, Lists, Tabs
 <2>3. Typed(Adding(j, Relation("friend", "pending", j.who, j.to), "hear"))
         /\ Adding(j, Relation("friend", "pending", j.who, j.to), "hear").op = j.op
   BY <1>1, <2>1, <2>2, Adds
 <2> QED BY <1>1, <1>2, <1>5, <2>3, GoesOn DEF SocialOps
<1> QED BY <1>3, <1>4, <1>5

\* The recipient is told, or not.
LEMMA HearTurns ==
  ASSUME StoreTyped, JobsTyped, NEW h \in Handlers, Hear(h)
  PROVE  Turned(h, (SocialOps \cup {"send"}))
<1> DEFINE j == job[h]
<1>1. Typed(j) /\ j.at = "hear" BY DEF JobsTyped, Hear, Doing, Idle
<1>2. Basic(j) /\ Carries(j, "hear") /\ j.op \in {"follow", "friend", "accepted", "send"}
  BY <1>1 DEF Typed, Fits
<1>3. \/ Become(h, [j EXCEPT !.at = "end"])
      \/ Become(h, [j EXCEPT !.at = "notify"])
  BY DEF Hear
<1> HIDE DEF j
<1>4. CASE Become(h, [j EXCEPT !.at = "end"]) BY <1>2, <1>4, Stops
<1>5. CASE Become(h, [j EXCEPT !.at = "notify"])
 <2>1. Fits(j.op, "notify") BY <1>1, <1>2 DEF Fits, Telling1, Lists, Tabs, Players, Controls
 <2>2. Carries(j, "notify") BY <1>1, <1>2, CarriesOn DEF Players, Controls, Lists, Tabs
 <2>3. Typed([j EXCEPT !.at = "notify"]) /\ [j EXCEPT !.at = "notify"].op = j.op BY <1>1, <2>1, <2>2, Moves
 <2> QED BY <1>1, <1>2, <1>5, <2>3, GoesOn DEF SocialOps
<1> QED BY <1>3, <1>4, <1>5
-----------------------------
\* Requests that notify, and those of notifications, of chat, about privacy.
NoticeOps == {"read", "redeliver", "follow", "friend", "accepted", "send", "answer"}
ChatOps == {"open", "send", "seen", "deleteMessage", "reportMessage"}
PrivacyOps == {"privacy"}

\* A notification is to be marked as read.
LEMMA StartReadTurns ==
  ASSUME StoreTyped, JobsTyped, NEW h \in Handlers, NEW a \in Accounts, NEW n, StartRead(h, a, n)
  PROVE  Turned(h, NoticeOps)
<1> DEFINE k == Request("read", a, n, "mark")
<1>1. Begin(h, k) BY DEF StartRead
<1>2. /\ Basic(k) /\ k.op = "read" /\ k.at = "mark" /\ k.began = writes /\ k.read = {}
      /\ k.todo = {}
  BY DEF Request, Basic
<1> HIDE DEF k
<1>4. Carries(k, "mark") BY <1>2, PlainCarries DEF Tells, CarriesPair, Told, Particular
<1>6. Typed(k) BY <1>2, <1>4 DEF Typed, Fits, StoreTyped
<1> QED BY <1>1, <1>2, <1>6, Begins DEF NoticeOps

\* A notification is to be pushed again.
LEMMA RedeliverTurns ==
  ASSUME StoreTyped, JobsTyped, NEW h \in Handlers, NEW a \in Accounts, NEW n, Redeliver(h, a, n)
  PROVE  Turned(h, NoticeOps)
<1> DEFINE k == Telling(Request("redeliver", a, n, "preferences"), a, inbox[n].category)
<1>1. Begin(h, k) BY DEF Redeliver
<1>2. /\ Basic(k) /\ k.op = "redeliver" /\ k.at = "preferences" /\ k.began = writes /\ k.read = {}
      /\ k.todo = {}
      /\ "to" \in DOMAIN k /\ "category" \in DOMAIN k /\ k.to = a
  BY DEF Telling, Request, Merge, Basic
<1> HIDE DEF k
<1>4. Carries(k, "preferences") BY <1>2, PlainCarries DEF Tells, CarriesPair, Told, Particular
<1>6. Typed(k) BY <1>2, <1>4 DEF Typed, Fits, StoreTyped
<1> QED BY <1>1, <1>2, <1>6, Begins DEF NoticeOps

\* A notification is stored.
LEMMA CreateNotificationTurns ==
  ASSUME StoreTyped, JobsTyped, NEW h \in Handlers, CreateNotification(h)
  PROVE  Turned(h, NoticeOps)
<1> DEFINE j == job[h]
<1>1. Typed(j) /\ j.at = "notify" BY DEF JobsTyped, CreateNotification, Doing, Idle
<1>2. Basic(j) /\ Carries(j, "notify") /\ j.op \in {"follow", "friend", "accepted", "send", "answer"}
  BY <1>1 DEF Typed, Fits, Telling1
<1>3. Become(h, [j EXCEPT !.at = "preferences"]) BY DEF CreateNotification
<1> HIDE DEF j
<1>4. CASE Become(h, [j EXCEPT !.at = "preferences"])
 <2>1. Fits(j.op, "preferences") BY <1>1, <1>2 DEF Fits, Telling1, Lists, Tabs, Players, Controls
 <2>2. Carries(j, "preferences") BY <1>1, <1>2, CarriesOn DEF Players, Controls, Lists, Tabs
 <2>3. Typed([j EXCEPT !.at = "preferences"]) /\ [j EXCEPT !.at = "preferences"].op = j.op
   BY <1>1, <2>1, <2>2, Moves
 <2> QED BY <1>1, <1>2, <1>4, <2>3, GoesOn DEF NoticeOps
<1> QED BY <1>3, <1>4

\* The preferences of the recipient are read.
LEMMA ReadPreferencesTurns ==
  ASSUME StoreTyped, JobsTyped, NEW h \in Handlers, ReadPreferences(h)
  PROVE  Turned(h, NoticeOps)
<1> DEFINE j == job[h]
<1>1. Typed(j) /\ j.at = "preferences" BY DEF JobsTyped, ReadPreferences, Doing, Idle
<1>2. Basic(j) /\ Carries(j, "preferences")
        /\ j.op \in {"follow", "friend", "accepted", "send", "answer", "redeliver"}
  BY <1>1 DEF Typed, Fits, Telling1
<1>3. \/ Become(h, [j EXCEPT !.at = "end"])
      \/ Become(h, [j EXCEPT !.at = "devices"])
  BY DEF ReadPreferences
<1> HIDE DEF j
<1>4. CASE Become(h, [j EXCEPT !.at = "end"]) BY <1>2, <1>4, Stops
<1>5. CASE Become(h, [j EXCEPT !.at = "devices"])
 <2>1. Fits(j.op, "devices") BY <1>1, <1>2 DEF Fits, Telling1, Lists, Tabs, Players, Controls
 <2>2. Carries(j, "devices") BY <1>1, <1>2, CarriesOn DEF Players, Controls, Lists, Tabs
 <2>3. Typed([j EXCEPT !.at = "devices"]) /\ [j EXCEPT !.at = "devices"].op = j.op
   BY <1>1, <2>1, <2>2, Moves
 <2> QED BY <1>1, <1>2, <1>5, <2>3, GoesOn DEF NoticeOps
<1> QED BY <1>3, <1>4, <1>5

\* The devices of the recipient are listed.
LEMMA ListDevicesTurns ==
  ASSUME StoreTyped, JobsTyped, NEW h \in Handlers, ListDevices(h)
  PROVE  Turned(h, NoticeOps)
<1> DEFINE j == job[h]
<1>1. Typed(j) /\ j.at = "devices" BY DEF JobsTyped, ListDevices, Doing, Idle
<1>2. Basic(j) /\ Carries(j, "devices") /\ j.op \in {"follow", "friend", "accepted", "send", "answer", "redeliver"}
  BY <1>1 DEF Typed, Fits, Telling1
<1>3. \/ Become(h, Merge(j, [tokens |-> {d.token : d \in {e \in devices : e.who = j.to}}, at |-> "end"]))
      \/ Become(h, Merge(j, [tokens |-> {d.token : d \in {e \in devices : e.who = j.to}}, at |-> "push"]))
  BY DEF ListDevices
<1> HIDE DEF j
<1>4. CASE Become(h, Merge(j, [tokens |-> {d.token : d \in {e \in devices : e.who = j.to}}, at |-> "end"]))
 <2>1. Merge(j, [tokens |-> {d.token : d \in {e \in devices : e.who = j.to}}, at |-> "end"]).at = "end"
   BY DEF Merge
 <2> QED BY <1>4, <2>1, GoesOn
<1>5. CASE Become(h, Merge(j, [tokens |-> {d.token : d \in {e \in devices : e.who = j.to}}, at |-> "push"]))
 <2> DEFINE k == Merge(j, [tokens |-> {d.token : d \in {e \in devices : e.who = j.to}}, at |-> "push"])
 <2>1. Basic(k) /\ k.at = "push" /\ Alike(k, j) /\ k.todo = j.todo /\ k.read = j.read /\ "tokens" \in DOMAIN k
   BY <1>2 DEF Basic, Alike, Merge
 <2>2. Become(h, k) BY <1>5
 <2> HIDE DEF k
 <2>3. Fits(k.op, "push") BY <1>1, <1>2, <2>1 DEF Fits, Alike, Telling1
 <2>4. Carries(k, "push")
  <3>1. Carries(k, "devices") BY <1>2, <2>1, AlikeCarry
  <3> QED BY <3>1, <1>2, <2>1 DEF Carries, CarriesPlayer, CarriesTrack, CarriesStep, Players, Controls, Alike
 <2>5. Typed(k) BY <1>1, <2>1, <2>3, <2>4, Turns DEF Alike, Typed
 <2> QED BY <1>1, <1>2, <2>1, <2>2, <2>5, GoesOn DEF Alike, NoticeOps
<1> QED BY <1>3, <1>4, <1>5

\* A push is asked for.
LEMMA PushTurns ==
  ASSUME StoreTyped, JobsTyped, NEW h \in Handlers, Push(h)
  PROVE  Turned(h, NoticeOps)
<1> DEFINE j == job[h]
<1>1. Typed(j) /\ j.at = "push" BY DEF JobsTyped, Push, Doing, Idle
<1>2. Basic(j) /\ Carries(j, "push") /\ "tokens" \in DOMAIN j
      /\ j.op \in {"follow", "friend", "accepted", "send", "answer", "redeliver"}
  BY <1>1 DEF Typed, Fits, Telling1, Carries, CarriesStep
<1>3. PICK invalid \in SUBSET j.tokens :
         Become(h, [j EXCEPT !.tokens = invalid, !.at = IF invalid = {} THEN "end" ELSE "prune"])
  BY Zenon DEF Push
<1> HIDE DEF j
<1> DEFINE k == [j EXCEPT !.tokens = invalid, !.at = IF invalid = {} THEN "end" ELSE "prune"]
<1>4. Basic(k) /\ Alike(k, j) /\ k.todo = j.todo /\ k.read = j.read /\ "tokens" \in DOMAIN k
      /\ k.at = IF invalid = {} THEN "end" ELSE "prune"
  BY <1>2 DEF Basic, Alike
<1>5. Become(h, k) BY <1>3
<1> HIDE DEF k
<1>6. CASE invalid = {} BY <1>4, <1>5, <1>6, GoesOn
<1>7. CASE ~(invalid = {})
 <2>1. Fits(k.op, "prune") BY <1>2, <1>4 DEF Fits, Alike, Telling1
 <2>2. Carries(k, "push") BY <1>2, <1>4, AlikeCarry
 <2>3. Carries(k, "prune")
   BY <2>2, <1>2, <1>4 DEF Carries, CarriesPlayer, CarriesTrack, CarriesStep, Players, Controls, Alike
 <2>4. Typed(k) BY <1>1, <1>4, <1>7, <2>1, <2>3, Turns DEF Alike, Typed
 <2> QED BY <1>2, <1>4, <1>5, <2>4, GoesOn DEF Alike, NoticeOps
<1> QED BY <1>3, <1>6, <1>7

\* A device that is gone is forgotten.
LEMMA PruneTurns ==
  ASSUME StoreTyped, JobsTyped, NEW h \in Handlers, Prune(h)
  PROVE  Turned(h, NoticeOps)
<1> DEFINE j == job[h]
<1>1. Typed(j) /\ j.at = "prune" BY DEF JobsTyped, Prune, Doing, Idle
<1>2. Basic(j) /\ Carries(j, "prune") /\ "tokens" \in DOMAIN j
      /\ j.op \in {"follow", "friend", "accepted", "send", "answer", "redeliver"}
  BY <1>1 DEF Typed, Fits, Telling1, Carries, CarriesStep
<1>3. PICK t \in j.tokens :
         Become(h, [j EXCEPT !.tokens = @ \ {t}, !.at = IF j.tokens = {t} THEN "end" ELSE "prune"])
  BY Zenon DEF Prune
<1> HIDE DEF j
<1> DEFINE k == [j EXCEPT !.tokens = @ \ {t}, !.at = IF j.tokens = {t} THEN "end" ELSE "prune"]
<1>4. Basic(k) /\ Alike(k, j) /\ k.todo = j.todo /\ k.read = j.read /\ "tokens" \in DOMAIN k
      /\ k.at = IF j.tokens = {t} THEN "end" ELSE "prune"
  BY <1>2 DEF Basic, Alike
<1>5. Become(h, k) BY <1>3
<1> HIDE DEF k
<1>6. CASE j.tokens = {t} BY <1>4, <1>5, <1>6, GoesOn
<1>7. CASE ~(j.tokens = {t})
 <2>1. Fits(k.op, "prune") BY <1>2, <1>4 DEF Fits, Alike, Telling1
 <2>2. Carries(k, "prune") BY <1>2, <1>4, AlikeCarry
 <2>3. Carries(k, "prune")
   BY <2>2, <1>2, <1>4 DEF Carries, CarriesPlayer, CarriesTrack, CarriesStep, Players, Controls, Alike
 <2>4. Typed(k) BY <1>1, <1>4, <1>7, <2>1, <2>3, Turns DEF Alike, Typed
 <2> QED BY <1>2, <1>4, <1>5, <2>4, GoesOn DEF Alike, NoticeOps
<1> QED BY <1>3, <1>6, <1>7

\* A notification is marked as read.
LEMMA MarkReadTurns ==
  ASSUME StoreTyped, JobsTyped, NEW h \in Handlers, MarkRead(h)
  PROVE  Turned(h, NoticeOps)
<1> DEFINE j == job[h]
<1>1. Typed(j) /\ j.at = "mark" /\ j.op = "read" BY DEF JobsTyped, MarkRead, Doing, Idle
<1>2. Basic(j) /\ Carries(j, "mark") BY <1>1 DEF Typed, Fits
<1>3. Become(h, [j EXCEPT !.at = "end"]) BY DEF MarkRead
<1> HIDE DEF j
<1>4. CASE Become(h, [j EXCEPT !.at = "end"]) BY <1>2, <1>4, Stops
<1> QED BY <1>3, <1>4

\* A request that is one statement.
LEMMA OnceTurns ==
  ASSUME StoreTyped, JobsTyped, NEW h \in Handlers, Once(h), writes' \in {writes, writes + 1}, NEW ops
  PROVE  Turned(h, ops)
  BY DEF StoreTyped, Once, Turned

\* Whatever the notification service does.
LEMMA NoticeTurns ==
  ASSUME StoreTyped, JobsTyped, NEW h \in Handlers, NotifyStep(h) \/ MarkRead(h) \/ NoticeRequest(h)
  PROVE  Turned(h, NoticeOps)
<1>2. CASE NotifyStep(h)
  BY <1>2, CreateNotificationTurns, ReadPreferencesTurns, ListDevicesTurns, PushTurns, PruneTurns DEF NotifyStep
<1>3. CASE MarkRead(h) BY <1>3, MarkReadTurns
<1>4. CASE NoticeRequest(h)
 <2>1. CASE \E a \in Accounts : MarkAllRead(h, a) BY <2>1, OnceTurns DEF MarkAllRead
 <2>2. CASE \E a \in Accounts, n \in 1..Len(inbox) : StartRead(h, a, n) BY <2>2, StartReadTurns
 <2>3. CASE \E a \in Accounts, n \in 1..Len(inbox) : Redeliver(h, a, n) BY <2>3, RedeliverTurns
 <2>4. CASE \E a \in Accounts, categories \in SUBSET Categories : SetPreferences(h, a, categories)
   BY <2>4, OnceTurns DEF SetPreferences
 <2>5. CASE \E a \in Accounts, t \in Tokens : RegisterDevice(h, a, t) \/ RemoveDevice(h, a, t)
   BY <2>5, OnceTurns DEF RegisterDevice, RemoveDevice
 <2> QED BY <1>4, <2>1, <2>2, <2>3, <2>4, <2>5 DEF NoticeRequest
<1> QED BY <1>2, <1>3, <1>4

\* A conversation is to be opened.
LEMMA StartOpenTurns ==
  ASSUME StoreTyped, JobsTyped, NEW h \in Handlers, NEW a \in Accounts, NEW b \in Accounts, StartOpen(h, a, b)
  PROVE  Turned(h, ChatOps)
<1> DEFINE k == Telling(Request("open", a, {a, b}, "privacy"), b, "social")
<1>1. Begin(h, k) BY DEF StartOpen
<1>2. /\ Basic(k) /\ k.op = "open" /\ k.at = "privacy" /\ k.began = writes /\ k.read = {}
      /\ k.todo = {}
      /\ "to" \in DOMAIN k /\ "category" \in DOMAIN k /\ k.to = b
      /\ k.who = a /\ k.key = {a, b}
  BY DEF Telling, Request, Merge, Basic
<1>3. a # b BY DEF StartOpen
<1> HIDE DEF k
<1>4. Carries(k, "privacy") BY <1>2, <1>3, PlainCarries DEF Tells, CarriesPair, Told, Particular
<1>6. Typed(k) BY <1>2, <1>4 DEF Typed, Fits, StoreTyped
<1> QED BY <1>1, <1>2, <1>6, Begins DEF ChatOps

\* The privacy of the other is read.
LEMMA ReadPrivacyTurns ==
  ASSUME StoreTyped, JobsTyped, NEW h \in Handlers, ReadPrivacy(h)
  PROVE  Turned(h, ChatOps)
<1> DEFINE j == job[h]
<1>1. Typed(j) /\ j.at = "privacy" /\ j.op = "open" BY DEF JobsTyped, ReadPrivacy, Doing, Idle
<1>2. Basic(j) /\ Carries(j, "privacy") BY <1>1 DEF Typed, Fits
<1>3. \/ Become(h, [j EXCEPT !.at = "end"])
      \/ Become(h, [j EXCEPT !.at = "friends"])
      \/ Become(h, [j EXCEPT !.at = "insert"])
  BY DEF ReadPrivacy
<1> HIDE DEF j
<1>4. CASE Become(h, [j EXCEPT !.at = "end"]) BY <1>2, <1>4, Stops
<1>5. CASE Become(h, [j EXCEPT !.at = "friends"])
 <2>1. Fits(j.op, "friends") BY <1>1, <1>2 DEF Fits, Telling1, Lists, Tabs, Players, Controls
 <2>2. Carries(j, "friends") BY <1>1, <1>2, CarriesOn DEF Players, Controls, Lists, Tabs
 <2>3. Typed([j EXCEPT !.at = "friends"]) /\ [j EXCEPT !.at = "friends"].op = j.op
   BY <1>1, <2>1, <2>2, Moves
 <2> QED BY <1>1, <1>2, <1>5, <2>3, GoesOn DEF ChatOps
<1>6. CASE Become(h, [j EXCEPT !.at = "insert"])
 <2>1. Fits(j.op, "insert") BY <1>1, <1>2 DEF Fits, Telling1, Lists, Tabs, Players, Controls
 <2>2. Carries(j, "insert") BY <1>1, <1>2, CarriesOn DEF Players, Controls, Lists, Tabs
 <2>3. Typed([j EXCEPT !.at = "insert"]) /\ [j EXCEPT !.at = "insert"].op = j.op BY <1>1, <2>1, <2>2, Moves
 <2> QED BY <1>1, <1>2, <1>6, <2>3, GoesOn DEF ChatOps
<1> QED BY <1>3, <1>4, <1>5, <1>6

\* The friendship is read.
LEMMA ReadFriendshipTurns ==
  ASSUME StoreTyped, JobsTyped, NEW h \in Handlers, ReadFriendship(h)
  PROVE  Turned(h, ChatOps)
<1> DEFINE j == job[h]
<1>1. Typed(j) /\ j.at = "friends" /\ j.op = "open" BY DEF JobsTyped, ReadFriendship, Doing, Idle
<1>2. Basic(j) /\ Carries(j, "friends") BY <1>1 DEF Typed, Fits
<1>3. \/ Become(h, [j EXCEPT !.at = "end"])
      \/ Become(h, [j EXCEPT !.at = "insert"])
  BY DEF ReadFriendship
<1> HIDE DEF j
<1>4. CASE Become(h, [j EXCEPT !.at = "end"]) BY <1>2, <1>4, Stops
<1>5. CASE Become(h, [j EXCEPT !.at = "insert"])
 <2>1. Fits(j.op, "insert") BY <1>1, <1>2 DEF Fits, Telling1, Lists, Tabs, Players, Controls
 <2>2. Carries(j, "insert") BY <1>1, <1>2, CarriesOn DEF Players, Controls, Lists, Tabs
 <2>3. Typed([j EXCEPT !.at = "insert"]) /\ [j EXCEPT !.at = "insert"].op = j.op BY <1>1, <2>1, <2>2, Moves
 <2> QED BY <1>1, <1>2, <1>5, <2>3, GoesOn DEF ChatOps
<1> QED BY <1>3, <1>4, <1>5

\* The conversation is there.
LEMMA OpenConversationTurns ==
  ASSUME StoreTyped, JobsTyped, NEW h \in Handlers, OpenConversation(h)
  PROVE  Turned(h, ChatOps)
<1> DEFINE j == job[h]
<1>1. Typed(j) /\ j.at = "insert" /\ j.op = "open" BY DEF JobsTyped, OpenConversation, Doing, Idle
<1>2. Basic(j) /\ Carries(j, "insert") BY <1>1 DEF Typed, Fits
<1>3. Become(h, [j EXCEPT !.at = "end"]) BY DEF OpenConversation
<1> HIDE DEF j
<1>4. CASE Become(h, [j EXCEPT !.at = "end"]) BY <1>2, <1>4, Stops
<1> QED BY <1>3, <1>4

\* Of two accounts, each is the other's other.
LEMMA OtherOfPair ==
  ASSUME NEW a, NEW b, a # b
  PROVE  OtherOf({a, b}, a) = b /\ OtherOf({a, b}, b) = a
  BY DEF OtherOf

\* Of two accounts that talk, the other is an account.
LEMMA OtherTalks ==
  ASSUME ChatTyped, NEW c \in Pairs, NEW a \in c, IsOpen(c)
  PROVE  OtherOf(c, a) \in Accounts /\ a \in Accounts /\ OtherOf(c, a) # a /\ c = {a, OtherOf(c, a)}
<1>1. PICK x \in Accounts, y \in Accounts : x # y /\ c = {x, y} BY DEF ChatTyped
<1>2. OtherOf({x, y}, x) = y /\ OtherOf({x, y}, y) = x BY <1>1, OtherOfPair
<1> QED BY <1>1, <1>2

\* A message is to be sent.
LEMMA StartSendTurns ==
  ASSUME StoreTyped, JobsTyped, ChatTyped, NEW h \in Handlers, NEW a \in Accounts, NEW c \in Pairs,
         StartSend(h, a, c)
  PROVE  Turned(h, ChatOps)
<1> DEFINE k == Telling(Request("send", a, c, "allowed"), OtherOf(c, a), "social")
<1>1. Begin(h, k) BY DEF StartSend
<1>2. /\ Basic(k) /\ k.op = "send" /\ k.at = "allowed" /\ k.began = writes /\ k.read = {}
      /\ k.todo = {}
      /\ "to" \in DOMAIN k /\ "category" \in DOMAIN k /\ k.to = OtherOf(c, a)
      /\ k.who = a /\ k.key = c
  BY DEF Telling, Request, Merge, Basic
<1>3. a \in c /\ OtherOf(c, a) \in Accounts /\ OtherOf(c, a) # a /\ c = {a, OtherOf(c, a)}
  BY OtherTalks DEF StartSend
<1> HIDE DEF k
<1>4. Carries(k, "allowed") BY <1>2, <1>3, PlainCarries DEF Tells, CarriesPair, Told, Particular
<1>6. Typed(k) BY <1>2, <1>4 DEF Typed, Fits, StoreTyped
<1> QED BY <1>1, <1>2, <1>6, Begins DEF ChatOps

\* Blocks are read for the message.
LEMMA CheckAllowedTurns ==
  ASSUME StoreTyped, JobsTyped, NEW h \in Handlers, CheckAllowed(h)
  PROVE  Turned(h, ChatOps)
<1> DEFINE j == job[h]
<1>1. Typed(j) /\ j.at = "allowed" /\ j.op = "send" BY DEF JobsTyped, CheckAllowed, Doing, Idle
<1>2. Basic(j) /\ Carries(j, "allowed") BY <1>1 DEF Typed, Fits
<1>3. \/ Become(h, [j EXCEPT !.at = "end"])
      \/ Become(h, [j EXCEPT !.at = "presence"])
  BY DEF CheckAllowed
<1> HIDE DEF j
<1>4. CASE Become(h, [j EXCEPT !.at = "end"]) BY <1>2, <1>4, Stops
<1>5. CASE Become(h, [j EXCEPT !.at = "presence"])
 <2>1. Fits(j.op, "presence") BY <1>1, <1>2 DEF Fits, Telling1, Lists, Tabs, Players, Controls
 <2>2. Carries(j, "presence") BY <1>1, <1>2, CarriesOn DEF Players, Controls, Lists, Tabs
 <2>3. Typed([j EXCEPT !.at = "presence"]) /\ [j EXCEPT !.at = "presence"].op = j.op
   BY <1>1, <2>1, <2>2, Moves
 <2> QED BY <1>1, <1>2, <1>5, <2>3, GoesOn DEF ChatOps
<1> QED BY <1>3, <1>4, <1>5

\* The presence of the other is read.
LEMMA ReadPresenceTurns ==
  ASSUME StoreTyped, JobsTyped, NEW h \in Handlers, ReadPresence(h)
  PROVE  Turned(h, ChatOps)
<1> DEFINE j == job[h]
<1>1. Typed(j) /\ j.at = "presence" /\ j.op = "send" BY DEF JobsTyped, ReadPresence, Doing, Idle
<1>2. Basic(j) /\ Carries(j, "presence") BY <1>1 DEF Typed, Fits
<1>3. Become(h, Merge(j, [at |-> "post", status |-> IF j.to \in online THEN "delivered" ELSE "sent"]))
  BY DEF ReadPresence
<1> HIDE DEF j
<1>4. CASE Become(h, Merge(j, [at |-> "post", status |-> IF j.to \in online THEN "delivered" ELSE "sent"]))
 <2> DEFINE k == Merge(j, [at |-> "post", status |-> IF j.to \in online THEN "delivered" ELSE "sent"])
 <2>1. Basic(k) /\ k.at = "post" /\ Alike(k, j) /\ k.todo = j.todo /\ k.read = j.read /\ "status" \in DOMAIN k
   BY <1>2 DEF Basic, Alike, Merge
 <2>2. Become(h, k) BY <1>4
 <2> HIDE DEF k
 <2>3. Fits(k.op, "post") BY <1>1, <1>2, <2>1 DEF Fits, Alike, Telling1
 <2>4. Carries(k, "post")
  <3>1. Carries(k, "presence") BY <1>2, <2>1, AlikeCarry
  <3> QED BY <3>1, <1>1, <1>2, <2>1 DEF Carries, CarriesPlayer, CarriesTrack, CarriesStep, Players, Controls,
             Alike
 <2>5. Typed(k) BY <1>1, <2>1, <2>3, <2>4, Turns DEF Alike, Typed
 <2> QED BY <1>1, <1>2, <2>1, <2>2, <2>5, GoesOn DEF Alike, ChatOps
<1> QED BY <1>3, <1>4

\* The message is stored.
LEMMA PostMessageTurns ==
  ASSUME StoreTyped, JobsTyped, NEW h \in Handlers, PostMessage(h)
  PROVE  Turned(h, ChatOps)
<1> DEFINE j == job[h]
<1>1. Typed(j) /\ j.at = "post" /\ j.op = "send" BY DEF JobsTyped, PostMessage, Doing, Idle
<1>2. Basic(j) /\ Carries(j, "post") BY <1>1 DEF Typed, Fits
<1>3. Become(h, [j EXCEPT !.at = "hear"]) BY DEF PostMessage
<1> HIDE DEF j
<1>4. CASE Become(h, [j EXCEPT !.at = "hear"])
 <2>1. Fits(j.op, "hear") BY <1>1, <1>2 DEF Fits, Telling1, Lists, Tabs, Players, Controls
 <2>2. Carries(j, "hear") BY <1>1, <1>2, CarriesOn DEF Players, Controls, Lists, Tabs
 <2>3. Typed([j EXCEPT !.at = "hear"]) /\ [j EXCEPT !.at = "hear"].op = j.op BY <1>1, <2>1, <2>2, Moves
 <2> QED BY <1>1, <1>2, <1>4, <2>3, GoesOn DEF ChatOps
<1> QED BY <1>3, <1>4

\* Messages are changed.
LEMMA ChangeMessagesTurns ==
  ASSUME StoreTyped, JobsTyped, NEW h \in Handlers, ChangeMessages(h)
  PROVE  Turned(h, ChatOps)
<1> DEFINE j == job[h]
<1>1. Typed(j) /\ j.at = "chat" BY DEF JobsTyped, ChangeMessages, Doing, Idle
<1>2. Basic(j) /\ Carries(j, "chat") /\ j.op \in {"seen", "deleteMessage", "reportMessage"}
  BY <1>1 DEF Typed, Fits
<1>3. Become(h, [j EXCEPT !.at = "end"]) BY DEF ChangeMessages
<1> HIDE DEF j
<1>4. CASE Become(h, [j EXCEPT !.at = "end"]) BY <1>2, <1>4, Stops
<1> QED BY <1>3, <1>4

\* A conversation is to be marked as read.
LEMMA StartSeenTurns ==
  ASSUME StoreTyped, JobsTyped, NEW h \in Handlers, NEW a \in Accounts, NEW c,
         Begin(h, Request("seen", a, c, "chat"))
  PROVE  Turned(h, ChatOps)
<1> DEFINE k == Request("seen", a, c, "chat")
<1>1. Begin(h, k) BY DEF Begin
<1>2. /\ Basic(k) /\ k.op = "seen" /\ k.at = "chat" /\ k.began = writes /\ k.read = {}
      /\ k.todo = {}
  BY DEF Request, Basic
<1> HIDE DEF k
<1>4. Carries(k, "chat") BY <1>2, PlainCarries DEF Tells, CarriesPair, Told, Particular
<1>6. Typed(k) BY <1>2, <1>4 DEF Typed, Fits, StoreTyped
<1> QED BY <1>1, <1>2, <1>6, Begins DEF ChatOps

\* A message is to be deleted or reported.
LEMMA StartOnMessageTurns ==
  ASSUME StoreTyped, JobsTyped, NEW h \in Handlers, NEW a \in Accounts, NEW n,
         NEW op \in {"deleteMessage", "reportMessage"}, Begin(h, Request(op, a, n, "chat"))
  PROVE  Turned(h, ChatOps)
<1> DEFINE k == Request(op, a, n, "chat")
<1>1. Begin(h, k) BY DEF Begin
<1>2. /\ Basic(k) /\ k.op = op /\ k.at = "chat" /\ k.began = writes /\ k.read = {}
      /\ k.todo = {}
  BY DEF Request, Basic
<1> HIDE DEF k
<1>4. Carries(k, "chat") BY <1>2, PlainCarries DEF Tells, CarriesPair, Told, Particular
<1>6. Typed(k) BY <1>2, <1>4 DEF Typed, Fits, StoreTyped
<1> QED BY <1>1, <1>2, <1>6, Begins DEF ChatOps

\* Whatever the chat does.
LEMMA ChatTurns ==
  ASSUME StoreTyped, JobsTyped, ChatTyped, NEW h \in Handlers, ChatStep(h) \/ ChatRequest(h)
  PROVE  Turned(h, ChatOps)
<1>1. CASE ChatStep(h)
  BY <1>1, ReadPrivacyTurns, ReadFriendshipTurns, OpenConversationTurns, CheckAllowedTurns,
     ReadPresenceTurns, PostMessageTurns, ChangeMessagesTurns DEF ChatStep
<1>2. CASE ChatRequest(h)
 <2>1. PICK a \in Accounts :
          \/ \E b \in Accounts : StartOpen(h, a, b)
          \/ \E c \in Pairs : StartSend(h, a, c)
          \/ StartOnChat(h, a)
          \/ \E here \in BOOLEAN : SetPresence(h, a, here)
   BY <1>2 DEF ChatRequest
 <2>2. CASE \E b \in Accounts : StartOpen(h, a, b) BY <2>2, StartOpenTurns
 <2>3. CASE \E c \in Pairs : StartSend(h, a, c) BY <2>3, StartSendTurns
 <2>4. CASE StartOnChat(h, a)
  <3>1. CASE \E c \in Pairs : Begin(h, Request("seen", a, c, "chat")) BY <3>1, StartSeenTurns
  <3>2. CASE \E n, op : op \in {"deleteMessage", "reportMessage"} /\ Begin(h, Request(op, a, n, "chat"))
    BY <3>2, StartOnMessageTurns
  <3> QED BY <2>4, <3>1, <3>2 DEF StartOnChat
 <2>5. CASE \E here \in BOOLEAN : SetPresence(h, a, here) BY <2>5, OnceTurns DEF SetPresence
 <2> QED BY <2>1, <2>2, <2>3, <2>4, <2>5
<1> QED BY <1>1, <1>2
-----------------------------
\* Requests of rooms, and of breakouts.
RoomOps == {"join", "move", "seat", "answer", "seatMute", "memberMute", "kick", "ban", "unban", "setting"}
BreakoutOps == {"create", "close", "attend", "quit"}

\* Whatever the social part does.
LEMMA SocialTurns ==
  ASSUME StoreTyped, JobsTyped, NEW h \in Handlers,
         \/ SocialStep(h) \/ SocialRequest(h) \/ MuteRequest(h)
         \/ \E a, b \in Accounts : StartRelation(h, "follow", a, b) \/ Bar(h, "block", a, b)
                                      \/ Lift(h, "block", a, b)
         \/ \E a, b : Lift(h, "follow", a, b)
         \/ \E a \in Accounts, i \in Rows : Answer(h, a, i, "accepted")
  PROVE  Turned(h, SocialOps \cup {"send"})
<1>1. ASSUME Turned(h, SocialOps) PROVE Turned(h, SocialOps \cup {"send"}) BY <1>1 DEF Turned
<1>2. CASE SocialStep(h) BY <1>1, <1>2, FindFollowTurns, FindFriendTurns, HearTurns DEF SocialStep
<1>3. CASE \E a, b \in Accounts : StartRelation(h, "follow", a, b) \/ StartRelation(h, "friend", a, b)
  BY <1>1, <1>3, StartRelationTurns
<1>4. CASE \E a, b \in Accounts : Bar(h, "block", a, b) \/ Bar(h, "mute", a, b) BY <1>1, <1>4, BarTurns
<1>5. CASE \E kind \in {"follow", "block", "mute"} : \E a, b : Lift(h, kind, a, b) BY <1>1, <1>5, LiftTurns
<1>6. CASE \E a \in Accounts, i \in Rows, status \in {"accepted", "rejected"} : Answer(h, a, i, status)
  BY <1>1, <1>6, AnswerTurns
<1>7. CASE \E a \in Accounts, i \in Rows, quiet \in BOOLEAN : SetQuiet(h, a, i, quiet)
  BY <1>1, <1>7, SetQuietTurns
<1>8. CASE SocialRequest(h) BY <1>8, <1>3, <1>4, <1>5, <1>6, <1>7 DEF SocialRequest, Rows
<1>9. CASE MuteRequest(h) BY <1>9, <1>4, <1>5 DEF MuteRequest
<1> QED BY <1>2, <1>3, <1>4, <1>5, <1>6, <1>8, <1>9

\* The settings a profile has.
LEMMA PrivacyKeys ==
  ASSUME StoreTyped, NEW i, i = 0 \/ (i \in Rows /\ records[i].kind = "profile")
  PROVE  DOMAIN DefaultPrivacy \subseteq DOMAIN PrivacyOf(i)
  BY DEF StoreTyped, WellFormed, PrivacyOf

\* A merged record has all the fields of the one that is patched.
LEMMA MergeKeeps ==
  ASSUME NEW r, NEW p, NEW K, K \subseteq DOMAIN r
  PROVE  K \subseteq DOMAIN Merge(r, p)
<1>1. DOMAIN Merge(r, p) = DOMAIN r \cup DOMAIN p BY MergedFields
<1> QED BY <1>1

\* The profile that is found.
LEMMA ProfileRow ==
  ASSUME StoreTyped, NEW a
  PROVE  Profile(a) = 0 \/ (Profile(a) \in Rows /\ records[Profile(a)].kind = "profile"
           /\ records[Profile(a)].who = a)
  BY ProfileFound, SequencePlaces DEF StoreTyped, Sought, Rows

\* A setting of a profile is to be changed.
LEMMA StartPrivacyTurns ==
  ASSUME StoreTyped, JobsTyped, NEW h \in Handlers, NEW a \in Accounts, NEW patch, StartPrivacy(h, a, patch)
  PROVE  Turned(h, PrivacyOps)
<1> DEFINE new == IF Profile(a) = 0 THEN patch ELSE Merge(records[Profile(a)].privacy, patch)
           k == Merge(Request("privacy", a, a, "profile"), [privacy |-> new, patch |-> patch])
<1>1. Begin(h, k) BY DEF StartPrivacy
<1>2. /\ Basic(k) /\ k.op = "privacy" /\ k.at = "profile" /\ k.began = writes /\ k.read = {}
      /\ k.todo = {}
      /\ DOMAIN k = {"op", "at", "key", "who", "began", "todo", "read", "then", "privacy", "patch"}
      /\ k.patch = patch /\ k.who = a
  BY DEF Request, Merge, Basic
<1> HIDE DEF k
<1>4. Carries(k, "profile")
  BY <1>2 DEF Carries, CarriesPlayer, CarriesTrack, CarriesStep, CarriesKey, CarriesPair, CarriesPrivacy,
     CarriesMore, Tells, Told, Players, Controls, Tabs
<1>6. Typed(k) BY <1>2, <1>4 DEF Typed, Fits, StoreTyped
<1> QED BY <1>1, <1>2, <1>6, Begins DEF PrivacyOps

\* The profile is looked for again, and all of its privacy written.
LEMMA SaveProfileTurns ==
  ASSUME StoreTyped, JobsTyped, NEW h \in Handlers, SaveProfile(h)
  PROVE  Turned(h, PrivacyOps)
<1> DEFINE j == job[h]
<1>1. Typed(j) /\ j.at = "profile" /\ j.op = "privacy" BY DEF JobsTyped, SaveProfile, Doing, Idle
<1>2. Basic(j) /\ Carries(j, "profile") BY <1>1 DEF Typed, Fits
<1>3. \/ Profile(j.who) # 0 /\ Become(h,
           Updating(j, {Update(Profile(j.who), [privacy |-> Merge(PrivacyOf(Profile(j.who)), j.privacy)])}, "end"))
      \/ Profile(j.who) = 0 /\ Become(h,
           Adding(j, [kind |-> "profile", status |-> "kept", who |-> j.who,
           privacy |-> Merge(PrivacyOf(Profile(j.who)), j.privacy)], "end"))
  BY DEF SaveProfile
<1> HIDE DEF j
<1>4. CASE Profile(j.who) # 0 /\ Become(h,
             Updating(j, {Update(Profile(j.who), [privacy |-> Merge(PrivacyOf(Profile(j.who)), j.privacy)])},
             "end"))
 <2>0. Profile(j.who) \in Rows /\ records[Profile(j.who)].kind = "profile"
       /\ DOMAIN DefaultPrivacy \subseteq DOMAIN Merge(PrivacyOf(Profile(j.who)), j.privacy)
  <3>1. Profile(j.who) \in Rows /\ records[Profile(j.who)].kind = "profile" BY <1>4, ProfileRow
  <3>2. DOMAIN DefaultPrivacy \subseteq DOMAIN PrivacyOf(Profile(j.who)) BY <3>1, PrivacyKeys
  <3>3. DOMAIN DefaultPrivacy \subseteq DOMAIN Merge(PrivacyOf(Profile(j.who)), j.privacy)
    BY <3>2, MergeKeeps
  <3> QED BY <3>1, <3>3
 <2>1. {Update(Profile(j.who), [privacy |-> Merge(PrivacyOf(Profile(j.who)), j.privacy)])} # {}
         /\ \A u \in {Update(Profile(j.who), [privacy |-> Merge(PrivacyOf(Profile(j.who)), j.privacy)])} : Mend(j,
         u, "end")
   BY <1>1, <1>2, <1>4, <2>0 DEF Mend, Mends, Update
 <2>2. Carries(j, "update") BY <1>1, <1>2, CarriesOn DEF Players, Controls, Lists, Tabs
 <2>3. Typed(Updating(j, {Update(Profile(j.who), [privacy |-> Merge(PrivacyOf(Profile(j.who)), j.privacy)])},
         "end")) /\ Updating(j,
         {Update(Profile(j.who), [privacy |-> Merge(PrivacyOf(Profile(j.who)), j.privacy)])}, "end").op = j.op
   BY <1>1, <2>1, <2>2, Updates
 <2> QED BY <1>1, <1>2, <1>4, <2>3, GoesOn DEF PrivacyOps
<1>5. CASE Profile(j.who) = 0 /\ Become(h,
             Adding(j, [kind |-> "profile", status |-> "kept", who |-> j.who,
             privacy |-> Merge(PrivacyOf(Profile(j.who)), j.privacy)], "end"))
 <2>1. NewRow(j, [kind |-> "profile", status |-> "kept", who |-> j.who,
         privacy |-> Merge(PrivacyOf(Profile(j.who)), j.privacy)], "end")
  <3>1. DOMAIN DefaultPrivacy \subseteq DOMAIN PrivacyOf(Profile(j.who)) BY <1>5 DEF PrivacyOf
  <3>2. DOMAIN DefaultPrivacy \subseteq DOMAIN Merge(PrivacyOf(Profile(j.who)), j.privacy)
    BY <3>1, MergeKeeps
  <3> QED BY <1>1, <3>2 DEF NewRow
 <2>2. Carries(j, "add") BY <1>1, <1>2, CarriesOn DEF Players, Controls, Lists, Tabs
 <2>3. Typed(Adding(j, [kind |-> "profile", status |-> "kept", who |-> j.who,
         privacy |-> Merge(PrivacyOf(Profile(j.who)), j.privacy)], "end"))
         /\ Adding(j, [kind |-> "profile", status |-> "kept", who |-> j.who,
         privacy |-> Merge(PrivacyOf(Profile(j.who)), j.privacy)], "end").op = j.op
   BY <1>1, <2>1, <2>2, Adds
 <2> QED BY <1>1, <1>2, <1>5, <2>3, GoesOn DEF PrivacyOps
<1> QED BY <1>3, <1>4, <1>5

\* An account is to join the room.
LEMMA StartJoinTurns ==
  ASSUME StoreTyped, JobsTyped, NEW h \in Handlers, NEW a \in Accounts, StartJoin(h, a)
  PROVE  Turned(h, RoomOps)
<1> DEFINE k == Request("join", a, a, "banned")
<1>1. Begin(h, k) BY DEF StartJoin
<1>2. /\ Basic(k) /\ k.op = "join" /\ k.at = "banned" /\ k.began = writes /\ k.read = {}
      /\ k.todo = {}
  BY DEF Request, Basic
<1> HIDE DEF k
<1>4. Carries(k, "banned") BY <1>2, PlainCarries DEF Tells, CarriesPair, Told, Particular
<1>6. Typed(k) BY <1>2, <1>4 DEF Typed, Fits, StoreTyped
<1> QED BY <1>1, <1>2, <1>6, Begins DEF RoomOps

\* The ban is looked for.
LEMMA CheckBanTurns ==
  ASSUME StoreTyped, JobsTyped, NEW h \in Handlers, CheckBan(h)
  PROVE  Turned(h, RoomOps)
<1> DEFINE j == job[h]
<1>1. Typed(j) /\ j.at = "banned" /\ j.op = "join" BY DEF JobsTyped, CheckBan, Doing, Idle
<1>2. Basic(j) /\ Carries(j, "banned") BY <1>1 DEF Typed, Fits
<1>3. \/ Become(h, [j EXCEPT !.at = "member"])
      \/ Become(h, [j EXCEPT !.at = "end"])
  BY DEF CheckBan
<1> HIDE DEF j
<1>4. CASE Become(h, [j EXCEPT !.at = "member"])
 <2>1. Fits(j.op, "member") BY <1>1, <1>2 DEF Fits, Telling1, Lists, Tabs, Players, Controls
 <2>2. Carries(j, "member") BY <1>1, <1>2, CarriesOn DEF Players, Controls, Lists, Tabs
 <2>3. Typed([j EXCEPT !.at = "member"]) /\ [j EXCEPT !.at = "member"].op = j.op BY <1>1, <2>1, <2>2, Moves
 <2> QED BY <1>1, <1>2, <1>4, <2>3, GoesOn DEF RoomOps
<1>5. CASE Become(h, [j EXCEPT !.at = "end"]) BY <1>2, <1>5, Stops
<1> QED BY <1>3, <1>4, <1>5

\* The membership there is comes first.
LEMMA FindMemberTurns ==
  ASSUME StoreTyped, JobsTyped, NEW h \in Handlers, FindMember(h)
  PROVE  Turned(h, RoomOps)
<1> DEFINE j == job[h]
<1>1. Typed(j) /\ j.at = "member" /\ j.op = "join" BY DEF JobsTyped, FindMember, Doing, Idle
<1>2. Basic(j) /\ Carries(j, "member") BY <1>1 DEF Typed, Fits
<1>3. \/ Become(h, [j EXCEPT !.at = "capacity"])
      \/ Become(h, [j EXCEPT !.at = "end"])
      \/ ActiveMembership(j.who) # 0
           /\ Become(h, Updating(j, {Update(ActiveMembership(j.who), [status |-> "joined"])}, "end"))
  BY DEF FindMember
<1> HIDE DEF j
<1>4. CASE Become(h, [j EXCEPT !.at = "capacity"])
 <2>1. Fits(j.op, "capacity") BY <1>1, <1>2 DEF Fits, Telling1, Lists, Tabs, Players, Controls
 <2>2. Carries(j, "capacity") BY <1>1, <1>2, CarriesOn DEF Players, Controls, Lists, Tabs
 <2>3. Typed([j EXCEPT !.at = "capacity"]) /\ [j EXCEPT !.at = "capacity"].op = j.op
   BY <1>1, <2>1, <2>2, Moves
 <2> QED BY <1>1, <1>2, <1>4, <2>3, GoesOn DEF RoomOps
<1>5. CASE Become(h, [j EXCEPT !.at = "end"]) BY <1>2, <1>5, Stops
<1>6. CASE ActiveMembership(j.who) # 0
             /\ Become(h, Updating(j, {Update(ActiveMembership(j.who), [status |-> "joined"])}, "end"))
 <2>0. ActiveMembership(j.who) \in Rows /\ records[ActiveMembership(j.who)].kind = "membership"
   BY <1>6, ActiveMembershipFound, SequencePlaces DEF Sought, StoreTyped, Rows, Occupies
 <2>1. {Update(ActiveMembership(j.who), [status |-> "joined"])} # {}
         /\ \A u \in {Update(ActiveMembership(j.who), [status |-> "joined"])} : Mend(j, u, "end")
   BY <1>1, <1>2, <1>6, <2>0 DEF Mend, Mends, Update
 <2>2. Carries(j, "update") BY <1>1, <1>2, CarriesOn DEF Players, Controls, Lists, Tabs
 <2>3. Typed(Updating(j, {Update(ActiveMembership(j.who), [status |-> "joined"])}, "end"))
         /\ Updating(j, {Update(ActiveMembership(j.who), [status |-> "joined"])}, "end").op = j.op
   BY <1>1, <2>1, <2>2, Updates
 <2> QED BY <1>1, <1>2, <1>6, <2>3, GoesOn DEF RoomOps
<1> QED BY <1>3, <1>4, <1>5, <1>6

\* A room that is not full takes one more.
LEMMA CountMembersTurns ==
  ASSUME StoreTyped, JobsTyped, NEW h \in Handlers, CountMembers(h)
  PROVE  Turned(h, RoomOps)
<1> DEFINE j == job[h]
<1>1. Typed(j) /\ j.at = "capacity" /\ j.op = "join" BY DEF JobsTyped, CountMembers, Doing, Idle
<1>2. Basic(j) /\ Carries(j, "capacity") BY <1>1 DEF Typed, Fits
<1>3. \/ Become(h, [j EXCEPT !.at = "end"])
      \/ Become(h, Adding(j, Membership(j.who), "end"))
  BY DEF CountMembers
<1> HIDE DEF j
<1>4. CASE Become(h, [j EXCEPT !.at = "end"]) BY <1>2, <1>4, Stops
<1>5. CASE Become(h, Adding(j, Membership(j.who), "end"))
 <2>1. NewRow(j, Membership(j.who), "end") BY <1>1, <1>2, <1>5 DEF NewRow
 <2>2. Carries(j, "add") BY <1>1, <1>2, CarriesOn DEF Players, Controls, Lists, Tabs
 <2>3. Typed(Adding(j, Membership(j.who), "end")) /\ Adding(j, Membership(j.who), "end").op = j.op
   BY <1>1, <2>1, <2>2, Adds
 <2> QED BY <1>1, <1>2, <1>5, <2>3, GoesOn DEF RoomOps
<1> QED BY <1>3, <1>4, <1>5

\* A membership is to change.
LEMMA StartMoveTurns ==
  ASSUME StoreTyped, JobsTyped, NEW h \in Handlers, NEW a \in Accounts, NEW i \in Rows,
         NEW status \in {"left", "disconnected", "joined"}, records[i].kind = "membership",
         StartMove(h, a, i, status)
  PROVE  Turned(h, RoomOps)
<1> DEFINE k == Updating(Request("move", a, a, "update"), {Update(i, [status |-> status])}, "end")
<1>1. Begin(h, k) BY DEF StartMove
<1>2. /\ Basic(k) /\ k.op = "move" /\ k.at = "update" /\ k.began = writes /\ k.read = {}
      /\ k.todo = {Update(i, [status |-> status])} /\ k.then = "end"
  BY DEF Updating, Request, Basic
<1> HIDE DEF k
<1>4. Carries(k, "update") BY <1>2, PlainCarries DEF Tells, CarriesPair, Told, Particular
<1>5. k.todo # {} /\ \A u \in k.todo : Mend(k, u, k.then) BY <1>2 DEF Mend, Mends, Update
<1>6. Typed(k) BY <1>2, <1>4, <1>5 DEF Typed, Fits, StoreTyped
<1> QED BY <1>1, <1>2, <1>6, Begins DEF RoomOps

\* A seat is asked for.
LEMMA RequestSeatTurns ==
  ASSUME StoreTyped, JobsTyped, NEW h \in Handlers, NEW a \in Accounts, RequestSeat(h, a)
  PROVE  Turned(h, RoomOps)
<1> DEFINE k == Adding(Request("seat", a, a, "add"), Seat(a), "end")
<1>1. Begin(h, k) BY DEF RequestSeat
<1>2. /\ Basic(k) /\ k.op = "seat" /\ k.at = "add" /\ k.began = writes /\ k.read = {}
      /\ k.todo = {}
      /\ "new" \in DOMAIN k /\ k.new = Seat(a) /\ k.then = "end"
      /\ k.who = a
  BY DEF Adding, Request, Merge, Basic
<1> HIDE DEF k
<1>4. Carries(k, "add") BY <1>2, PlainCarries DEF Tells, CarriesPair, Told, Particular
<1>5. NewRow(k, k.new, k.then) BY <1>2 DEF NewRow
<1>6. Typed(k) BY <1>2, <1>4, <1>5 DEF Typed, Fits, StoreTyped
<1> QED BY <1>1, <1>2, <1>6, Begins DEF RoomOps

\* A request for a seat is answered.
LEMMA AnswerSeatTurns ==
  ASSUME StoreTyped, JobsTyped, NEW h \in Handlers, NEW i \in Rows, NEW status \in {"approved", "rejected"},
         AnswerSeat(h, i, status)
  PROVE  Turned(h, RoomOps)
<1> DEFINE k == Updating(Telling(Request("answer", RoomOwner, records[i].who, "update"), records[i].who, "room"),
             {Update(i, [status |-> status])}, "notify")
<1>1. Begin(h, k) BY DEF AnswerSeat, ByOwner
<1>2. /\ Basic(k) /\ k.op = "answer" /\ k.at = "update" /\ k.began = writes /\ k.read = {}
      /\ k.todo = {Update(i, [status |-> status])} /\ k.then = "notify"
      /\ "to" \in DOMAIN k /\ "category" \in DOMAIN k /\ k.to = records[i].who
  BY DEF Updating, Telling, Request, Merge, Basic
<1>3. records[i].kind = "seat" /\ records[i].who \in Accounts BY DEF AnswerSeat, StoreTyped, WellFormed
<1> HIDE DEF k
<1>4. Carries(k, "update") BY <1>2, <1>3, PlainCarries DEF Tells, CarriesPair, Told, Particular
<1>5. k.todo # {} /\ \A u \in k.todo : Mend(k, u, k.then) BY <1>2, <1>3 DEF Mend, Mends, Update
<1>6. Typed(k) BY <1>2, <1>4, <1>5 DEF Typed, Fits, StoreTyped
<1> QED BY <1>1, <1>2, <1>6, Begins DEF RoomOps

\* A seat is to be muted, or no longer.
LEMMA MuteSeatTurns ==
  ASSUME StoreTyped, JobsTyped, NEW h \in Handlers, NEW i \in Rows, NEW muting \in BOOLEAN, MuteSeat(h, i, muting)
  PROVE  Turned(h, RoomOps)
<1> DEFINE k == Updating(Telling(Request("seatMute", RoomOwner, records[i].who, "update"), records[i].who, "room"),
             {Update(i, [muted |-> muting])}, "end")
<1>1. Begin(h, k) BY DEF MuteSeat, ByOwner
<1>2. /\ Basic(k) /\ k.op = "seatMute" /\ k.at = "update" /\ k.began = writes /\ k.read = {}
      /\ k.todo = {Update(i, [muted |-> muting])} /\ k.then = "end"
      /\ "to" \in DOMAIN k /\ "category" \in DOMAIN k /\ k.to = records[i].who
  BY DEF Updating, Telling, Request, Merge, Basic
<1>3. records[i].kind = "seat" /\ records[i].who \in Accounts BY DEF MuteSeat, StoreTyped, WellFormed
<1> HIDE DEF k
<1>4. Carries(k, "update") BY <1>2, <1>3, PlainCarries DEF Tells, CarriesPair, Told, Particular
<1>5. k.todo # {} /\ \A u \in k.todo : Mend(k, u, k.then) BY <1>2, <1>3 DEF Mend, Mends, Update
<1>6. Typed(k) BY <1>2, <1>4, <1>5 DEF Typed, Fits, StoreTyped
<1> QED BY <1>1, <1>2, <1>6, Begins DEF RoomOps

\* The seat of a member is to be muted.
LEMMA MuteMemberTurns ==
  ASSUME StoreTyped, JobsTyped, NEW h \in Handlers, NEW a \in Accounts, NEW muting \in BOOLEAN,
         MuteMember(h, a, muting)
  PROVE  Turned(h, RoomOps)
<1> DEFINE k == Updating(Telling(Request("memberMute", RoomOwner, a, "update"), a, "room"),
             {Update(ApprovedSeat(a), [muted |-> muting])}, "log")
<1>1. Begin(h, k) BY DEF MuteMember, ByOwner
<1>2. /\ Basic(k) /\ k.op = "memberMute" /\ k.at = "update" /\ k.began = writes /\ k.read = {}
      /\ k.todo = {Update(ApprovedSeat(a), [muted |-> muting])} /\ k.then = "log"
      /\ "to" \in DOMAIN k /\ "category" \in DOMAIN k /\ k.to = a
  BY DEF Updating, Telling, Request, Merge, Basic
<1>3. ApprovedSeat(a) \in Rows /\ records[ApprovedSeat(a)].kind = "seat"
  BY ApprovedSeatFound, SequencePlaces DEF MuteMember, Sought, StoreTyped, Rows
<1> HIDE DEF k
<1>4. Carries(k, "update") BY <1>2, <1>3, PlainCarries DEF Tells, CarriesPair, Told, Particular
<1>5. k.todo # {} /\ \A u \in k.todo : Mend(k, u, k.then) BY <1>2, <1>3 DEF Mend, Mends, Update
<1>6. Typed(k) BY <1>2, <1>4, <1>5 DEF Typed, Fits, StoreTyped
<1> QED BY <1>1, <1>2, <1>6, Begins DEF RoomOps

\* A member is to be put out.
LEMMA KickTurns ==
  ASSUME StoreTyped, JobsTyped, NEW h \in Handlers, NEW a \in Accounts, Kick(h, a)
  PROVE  Turned(h, RoomOps)
<1> DEFINE k == Updating(Telling(Request("kick", RoomOwner, a, "update"), a, "room"),
             {Update(Session(a, "joined"), [status |-> "kicked"])}, "log")
<1>1. Begin(h, k) BY DEF Kick, ByOwner
<1>2. /\ Basic(k) /\ k.op = "kick" /\ k.at = "update" /\ k.began = writes /\ k.read = {}
      /\ k.todo = {Update(Session(a, "joined"), [status |-> "kicked"])} /\ k.then = "log"
      /\ "to" \in DOMAIN k /\ "category" \in DOMAIN k /\ k.to = a
  BY DEF Updating, Telling, Request, Merge, Basic
<1>3. Session(a, "joined") \in Rows /\ records[Session(a, "joined")].kind = "membership"
  BY SessionFound, SequencePlaces DEF Kick, Sought, StoreTyped, Rows
<1> HIDE DEF k
<1>4. Carries(k, "update") BY <1>2, <1>3, PlainCarries DEF Tells, CarriesPair, Told, Particular
<1>5. k.todo # {} /\ \A u \in k.todo : Mend(k, u, k.then) BY <1>2, <1>3 DEF Mend, Mends, Update
<1>6. Typed(k) BY <1>2, <1>4, <1>5 DEF Typed, Fits, StoreTyped
<1> QED BY <1>1, <1>2, <1>6, Begins DEF RoomOps

\* A ban is to be lifted.
LEMMA UnbanTurns ==
  ASSUME StoreTyped, JobsTyped, NEW h \in Handlers, NEW a \in Accounts, Unban(h, a)
  PROVE  Turned(h, RoomOps)
<1> DEFINE k == Updating(Telling(Request("unban", RoomOwner, a, "update"), a, "room"),
             {Update(ActiveBan(a), [status |-> "removed"])}, "log")
<1>1. Begin(h, k) BY DEF Unban, ByOwner
<1>2. /\ Basic(k) /\ k.op = "unban" /\ k.at = "update" /\ k.began = writes /\ k.read = {}
      /\ k.todo = {Update(ActiveBan(a), [status |-> "removed"])} /\ k.then = "log"
      /\ "to" \in DOMAIN k /\ "category" \in DOMAIN k /\ k.to = a
  BY DEF Updating, Telling, Request, Merge, Basic
<1>3. ActiveBan(a) \in Rows /\ records[ActiveBan(a)].kind = "ban"
 <2>1. ActiveBan(a) \in Rows /\ records[ActiveBan(a)] = Ban(a)
   BY ActiveBanFound, SequencePlaces DEF Unban, Sought, StoreTyped, Rows
 <2>2. Ban(a).kind = "ban" BY DEF Ban
 <2> QED BY <2>1, <2>2
<1> HIDE DEF k
<1>4. Carries(k, "update") BY <1>2, <1>3, PlainCarries DEF Tells, CarriesPair, Told, Particular
<1>5. k.todo # {} /\ \A u \in k.todo : Mend(k, u, k.then) BY <1>2, <1>3 DEF Mend, Mends, Update
<1>6. Typed(k) BY <1>2, <1>4, <1>5 DEF Typed, Fits, StoreTyped
<1> QED BY <1>1, <1>2, <1>6, Begins DEF RoomOps

\* An account is to be banned.
LEMMA StartBanTurns ==
  ASSUME StoreTyped, JobsTyped, NEW h \in Handlers, NEW a \in Accounts, StartBan(h, a)
  PROVE  Turned(h, RoomOps)
<1> DEFINE k == Adding(Telling(Request("ban", RoomOwner, a, "add"), a, "room"), Ban(a), "evict")
<1>1. Begin(h, k) BY DEF StartBan
<1>2. /\ Basic(k) /\ k.op = "ban" /\ k.at = "add" /\ k.began = writes /\ k.read = {}
      /\ k.todo = {}
      /\ "new" \in DOMAIN k /\ k.new = Ban(a) /\ k.then = "evict"
      /\ "to" \in DOMAIN k /\ "category" \in DOMAIN k /\ k.to = a
  BY DEF Adding, Telling, Request, Merge, Basic
<1> HIDE DEF k
<1>4. Carries(k, "add") BY <1>2, PlainCarries DEF Tells, CarriesPair, Told, Particular
<1>5. NewRow(k, k.new, k.then) BY <1>2 DEF NewRow
<1>6. Typed(k) BY <1>2, <1>4, <1>5 DEF Typed, Fits, StoreTyped
<1> QED BY <1>1, <1>2, <1>6, Begins DEF RoomOps

\* Who is banned is put out.
LEMMA EvictTurns ==
  ASSUME StoreTyped, JobsTyped, NEW h \in Handlers, Evict(h)
  PROVE  Turned(h, RoomOps)
<1> DEFINE j == job[h]
<1>1. Typed(j) /\ j.at = "evict" /\ j.op = "ban" BY DEF JobsTyped, Evict, Doing, Idle
<1>2. Basic(j) /\ Carries(j, "evict") BY <1>1 DEF Typed, Fits
<1>3. \/ Become(h, [j EXCEPT !.at = "log"])
      \/ ActiveMembership(j.to) # 0
           /\ Become(h, Updating(j, {Update(ActiveMembership(j.to), [status |-> "kicked"])}, "log"))
  BY DEF Evict
<1> HIDE DEF j
<1>4. CASE Become(h, [j EXCEPT !.at = "log"])
 <2>1. Fits(j.op, "log") BY <1>1, <1>2 DEF Fits, Telling1, Lists, Tabs, Players, Controls
 <2>2. Carries(j, "log") BY <1>1, <1>2, CarriesOn DEF Players, Controls, Lists, Tabs
 <2>3. Typed([j EXCEPT !.at = "log"]) /\ [j EXCEPT !.at = "log"].op = j.op BY <1>1, <2>1, <2>2, Moves
 <2> QED BY <1>1, <1>2, <1>4, <2>3, GoesOn DEF RoomOps
<1>5. CASE ActiveMembership(j.to) # 0
             /\ Become(h, Updating(j, {Update(ActiveMembership(j.to), [status |-> "kicked"])}, "log"))
 <2>0. ActiveMembership(j.to) \in Rows /\ records[ActiveMembership(j.to)].kind = "membership"
   BY <1>5, ActiveMembershipFound, SequencePlaces DEF Sought, StoreTyped, Rows, Occupies
 <2>1. {Update(ActiveMembership(j.to), [status |-> "kicked"])} # {}
         /\ \A u \in {Update(ActiveMembership(j.to), [status |-> "kicked"])} : Mend(j, u, "log")
   BY <1>1, <1>2, <1>5, <2>0 DEF Mend, Mends, Update
 <2>2. Carries(j, "update") BY <1>1, <1>2, CarriesOn DEF Players, Controls, Lists, Tabs
 <2>3. Typed(Updating(j, {Update(ActiveMembership(j.to), [status |-> "kicked"])}, "log"))
         /\ Updating(j, {Update(ActiveMembership(j.to), [status |-> "kicked"])}, "log").op = j.op
   BY <1>1, <2>1, <2>2, Updates
 <2> QED BY <1>1, <1>2, <1>5, <2>3, GoesOn DEF RoomOps
<1> QED BY <1>3, <1>4, <1>5

\* The log is to be written.
LEMMA WriteLogTurns ==
  ASSUME StoreTyped, JobsTyped, NEW h \in Handlers, WriteLog(h)
  PROVE  Turned(h, RoomOps)
<1> DEFINE j == job[h]
<1>1. Typed(j) /\ j.at = "log" BY DEF JobsTyped, WriteLog, Doing, Idle
<1>2. Basic(j) /\ Carries(j, "log") /\ j.op \in {"memberMute", "kick", "ban", "unban", "setting"}
  BY <1>1 DEF Typed, Fits
<1>3. Become(h, Adding(j, Logged(j.op, j.to), "end")) BY DEF WriteLog
<1> HIDE DEF j
<1>4. CASE Become(h, Adding(j, Logged(j.op, j.to), "end"))
 <2>1. NewRow(j, Logged(j.op, j.to), "end") BY <1>1, <1>2, <1>4 DEF NewRow
 <2>2. Carries(j, "add") BY <1>1, <1>2, CarriesOn DEF Players, Controls, Lists, Tabs
 <2>3. Typed(Adding(j, Logged(j.op, j.to), "end")) /\ Adding(j, Logged(j.op, j.to), "end").op = j.op
   BY <1>1, <2>1, <2>2, Adds
 <2> QED BY <1>1, <1>2, <1>4, <2>3, GoesOn DEF RoomOps
<1> QED BY <1>3, <1>4

\* A setting of the room is to be changed.
LEMMA SettingTurns ==
  ASSUME StoreTyped, JobsTyped, NEW h \in Handlers, NEW value, Len(records) > 0, records[1].kind = "room",
         Setting(h, value)
  PROVE  Turned(h, RoomOps)
<1> DEFINE k == Updating(Telling(Request("setting", RoomOwner, RoomOwner, "update"), RoomOwner, "room"),
             {Update(1, [setting |-> value])}, "log")
<1>1. Begin(h, k) BY DEF Setting, ByOwner
<1>2. /\ Basic(k) /\ k.op = "setting" /\ k.at = "update" /\ k.began = writes /\ k.read = {}
      /\ k.todo = {Update(1, [setting |-> value])} /\ k.then = "log"
      /\ "to" \in DOMAIN k /\ "category" \in DOMAIN k /\ k.to = RoomOwner
  BY DEF Updating, Telling, Request, Merge, Basic
<1>3. 1 \in Rows /\ records[1].kind = "room" /\ RoomOwner \in Accounts
  BY SequencePlaces DEF StoreTyped, Rows, WellFormed, RoomOwner
<1> HIDE DEF k
<1>4. Carries(k, "update") BY <1>2, <1>3, PlainCarries DEF Tells, CarriesPair, Told, Particular
<1>5. k.todo # {} /\ \A u \in k.todo : Mend(k, u, k.then) BY <1>2, <1>3 DEF Mend, Mends, Update
<1>6. Typed(k) BY <1>2, <1>4, <1>5 DEF Typed, Fits, StoreTyped
<1> QED BY <1>1, <1>2, <1>6, Begins DEF RoomOps

\* Whatever a room does.
LEMMA RoomTurns ==
  ASSUME StoreTyped, JobsTyped, NEW h \in Handlers, NEW value,
         \/ RoomStep(h) \/ RoomRequest(h)
         \/ (SeatRequest(h) \/ Setting(h, value)) /\ Len(records) > 0 /\ records[1].kind = "room"
         \/ \E a \in Accounts : StartJoin(h, a) \/ MoveRequest(h, a)
  PROVE  Turned(h, RoomOps)
<1>1. CASE RoomStep(h)
  BY <1>1, CheckBanTurns, FindMemberTurns, CountMembersTurns, EvictTurns, WriteLogTurns DEF RoomStep
<1>2. CASE \E a \in Accounts : StartJoin(h, a) \/ Kick(h, a) \/ StartBan(h, a) \/ Unban(h, a)
  BY <1>2, StartJoinTurns, KickTurns, StartBanTurns, UnbanTurns
<1>3. CASE \E a \in Accounts : MoveRequest(h, a)
 <2>1. PICK a \in Accounts : MoveRequest(h, a) BY <1>3
 <2>2. ASSUME NEW i, NEW status \in {"left", "disconnected", "joined"}, StartMove(h, a, i, status),
              i # 0 => i \in Rows /\ records[i].kind = "membership"
       PROVE  Turned(h, RoomOps)
  <3>1. i # 0 BY <2>2 DEF StartMove
  <3> QED BY <2>2, <3>1, StartMoveTurns
 <2>3. ActiveMembership(a) # 0 => ActiveMembership(a) \in Rows /\ records[ActiveMembership(a)].kind = "membership"
   BY ActiveMembershipFound, SequencePlaces DEF Sought, StoreTyped, Rows, Occupies
 <2>4. ASSUME NEW status
       PROVE  Session(a, status) # 0 => Session(a, status) \in Rows
                /\ records[Session(a, status)].kind = "membership"
   BY SessionFound, SequencePlaces DEF Sought, StoreTyped, Rows
 <2>5. CASE StartMove(h, a, ActiveMembership(a), "left") BY <2>2, <2>3, <2>5
 <2>6. CASE StartMove(h, a, Session(a, "joined"), "disconnected") BY <2>2, <2>4, <2>6
 <2>7. CASE StartMove(h, a, Session(a, "disconnected"), "joined") BY <2>2, <2>4, <2>7
 <2> QED BY <2>1, <2>5, <2>6, <2>7 DEF MoveRequest
<1>4. CASE RoomRequest(h) BY <1>4, <1>2, <1>3 DEF RoomRequest
<1>5. CASE SeatRequest(h) /\ Len(records) > 0 /\ records[1].kind = "room"
 <2>1. CASE \E a \in Accounts : RequestSeat(h, a) \/ \E muting \in BOOLEAN : MuteMember(h, a, muting)
   BY <2>1, RequestSeatTurns, MuteMemberTurns
 <2>2. CASE \E i \in Rows, status \in {"approved", "rejected"} : AnswerSeat(h, i, status)
   BY <2>2, AnswerSeatTurns
 <2>3. CASE \E i \in Rows, muting \in BOOLEAN : MuteSeat(h, i, muting) BY <2>3, MuteSeatTurns
 <2>4. CASE \E v \in RoomSettings : Setting(h, v) BY <1>5, <2>4, SettingTurns
 <2> QED BY <1>5, <2>1, <2>2, <2>3, <2>4 DEF SeatRequest, Rows
<1>6. CASE Setting(h, value) /\ Len(records) > 0 /\ records[1].kind = "room" BY <1>6, SettingTurns
<1> QED BY <1>1, <1>2, <1>3, <1>4, <1>5, <1>6

\* A breakout is to be opened.
LEMMA CreateBreakoutTurns ==
  ASSUME StoreTyped, JobsTyped, NEW h \in Handlers, CreateBreakout(h)
  PROVE  Turned(h, BreakoutOps)
<1> DEFINE k == Adding(Request("create", RoomOwner, "breakout", "add"), Breakout(RoomOwner), "end")
<1>1. Begin(h, k) BY DEF CreateBreakout
<1>2. /\ Basic(k) /\ k.op = "create" /\ k.at = "add" /\ k.began = writes /\ k.read = {}
      /\ k.todo = {}
      /\ "new" \in DOMAIN k /\ k.new = Breakout(RoomOwner) /\ k.then = "end"
      /\ k.who = RoomOwner
  BY DEF Adding, Request, Merge, Basic
<1> HIDE DEF k
<1>4. Carries(k, "add") BY <1>2, PlainCarries DEF Tells, CarriesPair, Told, Particular
<1>5. NewRow(k, k.new, k.then) BY <1>2 DEF NewRow
<1>6. Typed(k) BY <1>2, <1>4, <1>5 DEF Typed, Fits, StoreTyped
<1> QED BY <1>1, <1>2, <1>6, Begins DEF BreakoutOps

\* A breakout is to be closed.
LEMMA EndBreakoutTurns ==
  ASSUME StoreTyped, JobsTyped, NEW h \in Handlers, NEW b \in Rows, EndBreakout(h, b)
  PROVE  Turned(h, BreakoutOps)
<1> DEFINE k == Updating(Request("close", RoomOwner, b, "update"), {Update(b, [status |-> "closed"])}, "dismiss")
<1>1. Begin(h, k) BY DEF EndBreakout
<1>2. /\ Basic(k) /\ k.op = "close" /\ k.at = "update" /\ k.began = writes /\ k.read = {}
      /\ k.todo = {Update(b, [status |-> "closed"])} /\ k.then = "dismiss"
  BY DEF Updating, Request, Basic
<1>3. records[b].kind = "breakout" BY DEF EndBreakout, IsBreakout
<1> HIDE DEF k
<1>4. Carries(k, "update") BY <1>2, <1>3, PlainCarries DEF Tells, CarriesPair, Told, Particular
<1>5. k.todo # {} /\ \A u \in k.todo : Mend(k, u, k.then) BY <1>2, <1>3 DEF Mend, Mends, Update
<1>6. Typed(k) BY <1>2, <1>4, <1>5 DEF Typed, Fits, StoreTyped
<1> QED BY <1>1, <1>2, <1>6, Begins DEF BreakoutOps

\* Everybody found in a breakout is to be dismissed.
LEMMA DismissTurns ==
  ASSUME StoreTyped, JobsTyped, NEW h \in Handlers, Dismiss(h)
  PROVE  Turned(h, BreakoutOps)
<1> DEFINE j == job[h]
<1>1. Typed(j) /\ j.at = "dismiss" /\ j.op = "close" BY DEF JobsTyped, Dismiss, Doing, Idle
<1>2. Basic(j) /\ Carries(j, "dismiss") BY <1>1 DEF Typed, Fits
<1>3. \/ Audience(j.key) = {} /\ Become(h,
           Updating(j, {Update(i, [status |-> "ended"]) : i \in Audience(j.key)}, "end"))
      \/ Audience(j.key) # {} /\ Become(h,
           Updating(j, {Update(i, [status |-> "ended"]) : i \in Audience(j.key)}, "end"))
  BY DEF Dismiss
<1> HIDE DEF j
<1>4. CASE Audience(j.key) = {} /\ Become(h,
             Updating(j, {Update(i, [status |-> "ended"]) : i \in Audience(j.key)}, "end"))
 <2>1. Updating(j, {Update(i, [status |-> "ended"]) : i \in Audience(j.key)}, "end").at = "end"
   BY <1>2, <1>4 DEF Updating, Basic
 <2> QED BY <1>4, <2>1, GoesOn
<1>5. CASE Audience(j.key) # {} /\ Become(h,
             Updating(j, {Update(i, [status |-> "ended"]) : i \in Audience(j.key)}, "end"))
 <2>0. \A i \in Audience(j.key) : Mend(j, Update(i, [status |-> "ended"]), "end")
   BY <1>1, <1>2 DEF Audience, Where, Rows, Mend, Mends, Update
 <2>1. {Update(i, [status |-> "ended"]) : i \in Audience(j.key)} # {}
         /\ \A u \in {Update(i, [status |-> "ended"]) : i \in Audience(j.key)} : Mend(j, u, "end")
  <3>1. PICK i : i \in Audience(j.key) BY <1>5
  <3>2. Update(i, [status |-> "ended"]) \in {Update(n, [status |-> "ended"]) : n \in Audience(j.key)}
    BY <3>1
  <3> QED BY <2>0, <3>2, Zenon
 <2>2. Carries(j, "update") BY <1>1, <1>2, CarriesOn DEF Players, Controls, Lists, Tabs
 <2>3. Typed(Updating(j, {Update(i, [status |-> "ended"]) : i \in Audience(j.key)}, "end"))
         /\ Updating(j, {Update(i, [status |-> "ended"]) : i \in Audience(j.key)}, "end").op = j.op
   BY <1>1, <2>1, <2>2, Updates
 <2> QED BY <1>1, <1>2, <1>5, <2>3, GoesOn DEF BreakoutOps
<1> QED BY <1>3, <1>4, <1>5

\* A breakout is to be joined.
LEMMA StartAttendTurns ==
  ASSUME StoreTyped, JobsTyped, NEW h \in Handlers, NEW a \in Accounts, NEW b, StartAttend(h, a, b)
  PROVE  Turned(h, BreakoutOps)
<1> DEFINE k == Request("attend", a, b, "member")
<1>1. Begin(h, k) BY DEF StartAttend
<1>2. /\ Basic(k) /\ k.op = "attend" /\ k.at = "member" /\ k.began = writes /\ k.read = {}
      /\ k.todo = {}
  BY DEF Request, Basic
<1> HIDE DEF k
<1>4. Carries(k, "member") BY <1>2, PlainCarries DEF Tells, CarriesPair, Told, Particular
<1>6. Typed(k) BY <1>2, <1>4 DEF Typed, Fits, StoreTyped
<1> QED BY <1>1, <1>2, <1>6, Begins DEF BreakoutOps

\* Who joins a breakout is in the room.
LEMMA CheckMemberTurns ==
  ASSUME StoreTyped, JobsTyped, NEW h \in Handlers, CheckMember(h)
  PROVE  Turned(h, BreakoutOps)
<1> DEFINE j == job[h]
<1>1. Typed(j) /\ j.at = "member" /\ j.op = "attend" BY DEF JobsTyped, CheckMember, Doing, Idle
<1>2. Basic(j) /\ Carries(j, "member") BY <1>1 DEF Typed, Fits
<1>3. \/ Become(h, [j EXCEPT !.at = "find"])
      \/ Become(h, [j EXCEPT !.at = "end"])
  BY DEF CheckMember
<1> HIDE DEF j
<1>4. CASE Become(h, [j EXCEPT !.at = "find"])
 <2>1. Fits(j.op, "find") BY <1>1, <1>2 DEF Fits, Telling1, Lists, Tabs, Players, Controls
 <2>2. Carries(j, "find") BY <1>1, <1>2, CarriesOn DEF Players, Controls, Lists, Tabs
 <2>3. Typed([j EXCEPT !.at = "find"]) /\ [j EXCEPT !.at = "find"].op = j.op BY <1>1, <2>1, <2>2, Moves
 <2> QED BY <1>1, <1>2, <1>4, <2>3, GoesOn DEF BreakoutOps
<1>5. CASE Become(h, [j EXCEPT !.at = "end"]) BY <1>2, <1>5, Stops
<1> QED BY <1>3, <1>4, <1>5

\* Who is in a breakout need not join it.
LEMMA FindAttendanceTurns ==
  ASSUME StoreTyped, JobsTyped, NEW h \in Handlers, FindAttendance(h)
  PROVE  Turned(h, BreakoutOps)
<1> DEFINE j == job[h]
<1>1. Typed(j) /\ j.at = "find" /\ j.op = "attend" BY DEF JobsTyped, FindAttendance, Doing, Idle
<1>2. Basic(j) /\ Carries(j, "find") BY <1>1 DEF Typed, Fits
<1>3. \/ Become(h, [j EXCEPT !.at = "end"])
      \/ Become(h, [j EXCEPT !.at = "capacity"])
  BY DEF FindAttendance
<1> HIDE DEF j
<1>4. CASE Become(h, [j EXCEPT !.at = "end"]) BY <1>2, <1>4, Stops
<1>5. CASE Become(h, [j EXCEPT !.at = "capacity"])
 <2>1. Fits(j.op, "capacity") BY <1>1, <1>2 DEF Fits, Telling1, Lists, Tabs, Players, Controls
 <2>2. Carries(j, "capacity") BY <1>1, <1>2, CarriesOn DEF Players, Controls, Lists, Tabs
 <2>3. Typed([j EXCEPT !.at = "capacity"]) /\ [j EXCEPT !.at = "capacity"].op = j.op
   BY <1>1, <2>1, <2>2, Moves
 <2> QED BY <1>1, <1>2, <1>5, <2>3, GoesOn DEF BreakoutOps
<1> QED BY <1>3, <1>4, <1>5

\* A breakout that is not full takes one more.
LEMMA CountAudienceTurns ==
  ASSUME StoreTyped, JobsTyped, NEW h \in Handlers, CountAudience(h)
  PROVE  Turned(h, BreakoutOps)
<1> DEFINE j == job[h]
<1>1. Typed(j) /\ j.at = "capacity" /\ j.op = "attend" BY DEF JobsTyped, CountAudience, Doing, Idle
<1>2. Basic(j) /\ Carries(j, "capacity") BY <1>1 DEF Typed, Fits
<1>3. \/ Become(h, [j EXCEPT !.at = "end"])
      \/ Become(h, Adding(j, Attending(j.who, j.key), "end"))
  BY DEF CountAudience
<1> HIDE DEF j
<1>4. CASE Become(h, [j EXCEPT !.at = "end"]) BY <1>2, <1>4, Stops
<1>5. CASE Become(h, Adding(j, Attending(j.who, j.key), "end"))
 <2>1. NewRow(j, Attending(j.who, j.key), "end") BY <1>1, <1>2, <1>5 DEF NewRow
 <2>2. Carries(j, "add") BY <1>1, <1>2, CarriesOn DEF Players, Controls, Lists, Tabs
 <2>3. Typed(Adding(j, Attending(j.who, j.key), "end")) /\ Adding(j, Attending(j.who, j.key), "end").op = j.op
   BY <1>1, <2>1, <2>2, Adds
 <2> QED BY <1>1, <1>2, <1>5, <2>3, GoesOn DEF BreakoutOps
<1> QED BY <1>3, <1>4, <1>5

\* A breakout is to be left.
LEMMA LeaveBreakoutTurns ==
  ASSUME StoreTyped, JobsTyped, NEW h \in Handlers, NEW a \in Accounts, NEW b, LeaveBreakout(h, a, b)
  PROVE  Turned(h, BreakoutOps)
<1> DEFINE k == Updating(Request("quit", a, b, "update"), {Update(AttendanceOf(a, b), [status |-> "left"])}, "end")
<1>1. Begin(h, k) BY DEF LeaveBreakout
<1>2. /\ Basic(k) /\ k.op = "quit" /\ k.at = "update" /\ k.began = writes /\ k.read = {}
      /\ k.todo = {Update(AttendanceOf(a, b), [status |-> "left"])} /\ k.then = "end"
  BY DEF Updating, Request, Basic
<1>3. AttendanceOf(a, b) \in Rows /\ records[AttendanceOf(a, b)].kind = "attendance"
 <2>1. AttendanceOf(a, b) \in Rows /\ records[AttendanceOf(a, b)] = Attending(a, b)
   BY AttendanceOfFound, SequencePlaces DEF LeaveBreakout, Sought, StoreTyped, Rows
 <2>2. Attending(a, b).kind = "attendance" BY DEF Attending
 <2> QED BY <2>1, <2>2
<1> HIDE DEF k
<1>4. Carries(k, "update") BY <1>2, <1>3, PlainCarries DEF Tells, CarriesPair, Told, Particular
<1>5. k.todo # {} /\ \A u \in k.todo : Mend(k, u, k.then) BY <1>2, <1>3 DEF Mend, Mends, Update
<1>6. Typed(k) BY <1>2, <1>4, <1>5 DEF Typed, Fits, StoreTyped
<1> QED BY <1>1, <1>2, <1>6, Begins DEF BreakoutOps

\* Whatever breakouts do.
LEMMA BreakoutTurns ==
  ASSUME StoreTyped, JobsTyped, NEW h \in Handlers, BreakoutStep(h) \/ BreakoutRequest(h)
  PROVE  Turned(h, BreakoutOps)
<1>1. CASE BreakoutStep(h)
  BY <1>1, DismissTurns, CheckMemberTurns, FindAttendanceTurns, CountAudienceTurns DEF BreakoutStep
<1>2. CASE BreakoutRequest(h)
  BY <1>2, CreateBreakoutTurns, EndBreakoutTurns, StartAttendTurns, LeaveBreakoutTurns DEF BreakoutRequest, Rows
<1> QED BY <1>1, <1>2
-----------------------------
\* Requests of the music.
MusicOps == {"grant", "revoke", "queue", "remove", "reorder"} \cup Players

\* The player that is looked for.
LEMMA PlayerFound ==
  ASSUME StoreTyped
  PROVE  LET i == Find(LAMBDA r : r.kind = "player") IN i = 0 \/ IsPlayer(i)
<1> DEFINE S == {i \in 1..Len(records) : records[i].kind = "player"}
           f == Find(LAMBDA r : r.kind = "player")
<1>1. f = IF S = {} THEN 0 ELSE CHOOSE i \in S : \A j \in S : i <= j BY Zenon DEF Find, Where
<1>2. S \subseteq 1..Len(records) /\ Len(records) \in Nat BY SequencePlaces DEF StoreTyped
<1> HIDE DEF S, f
<1>3. Sought(S, f) BY <1>1, <1>2, SearchFinds
<1>4. f = 0 \/ f \in S BY <1>3 DEF Sought
<1> QED BY <1>4 DEF S, f, IsPlayer, Rows

\* The tracks of the queue, and their positions.
LEMMA QueueRows ==
  ASSUME StoreTyped, NEW queue, queue \subseteq Queued
  PROVE  /\ IsFiniteSet(queue)
         /\ \A i \in queue : IsTrack(i) /\ i \in Nat /\ records[i].position \in Nat
<1>1. Len(records) \in Nat BY SequencePlaces DEF StoreTyped
<1>2. \A i \in queue : IsTrack(i) /\ i \in Nat BY <1>1 DEF Queued, Tracks, Where, IsTrack, Rows
<1>3. IsFiniteSet(queue)
 <2>1. queue \subseteq 1..Len(records) BY <1>2 DEF IsTrack, Rows
 <2>2. IsFiniteSet(1..Len(records)) BY <1>1, FS_Interval
 <2> QED BY <2>1, <2>2, FS_Subset
<1>4. \A i \in queue : records[i].position \in Nat BY <1>2 DEF StoreTyped, WellFormed, IsTrack
<1> QED BY <1>2, <1>3, <1>4

\* The place of a track in a queue is a number.
LEMMA PlaceIsNumber ==
  ASSUME StoreTyped, NEW queue, queue \subseteq Queued, NEW i
  PROVE  PlaceIn(queue, i) \in Nat
<1>1. IsFiniteSet({k \in queue : Before(k, i)}) BY QueueRows, FS_Subset
<1> QED BY <1>1, FS_CardinalityType DEF PlaceIn

\* A queue that is not empty has a foremost track.
LEMMA ForemostIs ==
  ASSUME StoreTyped, NEW queue, queue \subseteq Queued, queue # {}
  PROVE  Foremost(queue) \in queue /\ PlaceIn(queue, Foremost(queue)) = 0
<1> DEFINE Positions == {records[i].position : i \in queue}
<1>1. PICK p \in Positions : \A n \in Positions : p <= n
 <2>1. IsFiniteSet(Positions)
  <3> DEFINE f == [i \in queue |-> records[i].position]
  <3>0. IsFiniteSet(queue) BY QueueRows
  <3> HIDE DEF f
  <3>1. IsFiniteSet({f[i] : i \in queue}) BY <3>0, FiniteImage
  <3> USE DEF f
  <3>2. {f[i] : i \in queue} = Positions OBVIOUS
  <3> QED BY <3>1, <3>2
 <2>2. Positions \subseteq Int /\ Positions # {}
  <3>1. \A i \in queue : records[i].position \in Nat BY QueueRows
  <3> QED BY <3>1
 <2> HIDE DEF Positions
 <2> QED BY <2>1, <2>2, LargestLeast
<1> DEFINE First == {i \in queue : records[i].position = p}
<1>2. PICK i \in First : \A k \in First : i <= k
 <2>1. IsFiniteSet(First) /\ First \subseteq Int BY QueueRows, FS_Subset
 <2>2. First # {} BY <1>1
 <2> HIDE DEF First
 <2> QED BY <2>1, <2>2, LargestLeast
<1>3. {k \in queue : Before(k, i)} = {}
 <2> SUFFICES ASSUME NEW k \in queue, Before(k, i) PROVE FALSE OBVIOUS
 <2>1. records[i].position = p /\ p <= records[k].position /\ i \in queue BY <1>1, <1>2
 <2>2. records[k].position \in Nat /\ records[i].position \in Nat /\ i \in Nat /\ k \in Nat
   BY <2>1, QueueRows
 <2>3. records[k].position = p /\ k < i BY <2>1, <2>2 DEF Before
 <2> QED BY <1>2, <2>2, <2>3
<1>4. i \in queue /\ PlaceIn(queue, i) = 0 BY <1>2, <1>3, FS_EmptySet DEF PlaceIn
<1> QED BY <1>4, Zenon DEF Foremost

\* What a request to the player carries.
LEMMA ControlCarries ==
  ASSUME NEW k, NEW at, k.op \in Players, CarriesPlayer(k, at),
         at \notin {"push", "prune", "post", "circle"}
  PROVE  Carries(k, at)
<1>1. Tells(k) /\ CarriesKey(k) /\ CarriesPair(k) /\ CarriesPrivacy(k)
  BY DEF Players, Controls, Tells, Told, CarriesKey, CarriesPair, CarriesPrivacy
<1>2. CarriesStep(k, at) /\ CarriesMore(k) BY DEF Players, Controls, CarriesStep, CarriesMore, Tabs
<1> QED BY <1>1, <1>2 DEF Carries

\* A request comes to make updates, if there are any to make.
LEMMA Amends ==
  ASSUME StoreTyped, NEW h \in Handlers, NEW j, NEW ops, Typed(j), j.at # "update", j.op \in ops,
         NEW todo, NEW at, Become(h, Updating(j, todo, at)),
         \A u \in todo : Mend(j, u, at), Carries(j, "update"),
         at = "end" \/ (at \notin {"add", "update", "end"} /\ Fits(j.op, at) /\ Carries(j, at))
  PROVE  Turned(h, ops)
<1>1. CASE todo # {} BY <1>1, Updates, GoesOn
<1>2. CASE todo = {} /\ at = "end"
 <2>1. Updating(j, todo, at).at = "end" BY <1>2 DEF Updating, Typed, Basic
 <2> QED BY <2>1, GoesOn
<1>3. CASE todo = {} /\ at # "end"
 <2> DEFINE k == Updating(j, todo, at)
 <2>1. Basic(k) /\ k.at = at /\ Alike(k, j) /\ k.todo = {} /\ k.read = {}
   BY <1>3 DEF Updating, Typed, Basic, Alike
 <2> HIDE DEF k
 <2>2. Carries(k, at) /\ k.op = j.op /\ k.began = j.began BY <1>3, <2>1, AlikeCarry DEF Alike, Typed
 <2>3. Typed(k) BY <1>3, <2>1, <2>2, Turns
 <2>4. Become(h, k) BY DEF k
 <2> QED BY <2>1, <2>2, <2>3, <2>4, GoesOn
<1> QED BY <1>1, <1>2, <1>3

\* An account is to be a DJ.
LEMMA StartGrantTurns ==
  ASSUME StoreTyped, JobsTyped, NEW h \in Handlers, NEW a \in Accounts, StartGrant(h, a)
  PROVE  Turned(h, MusicOps)
<1> DEFINE k == Request("grant", RoomOwner, a, "dj")
<1>1. Begin(h, k) BY DEF StartGrant
<1>2. /\ Basic(k) /\ k.op = "grant" /\ k.at = "dj" /\ k.began = writes /\ k.read = {}
      /\ k.todo = {}
  BY DEF Request, Basic
<1> HIDE DEF k
<1>4. Carries(k, "dj") BY <1>2, PlainCarries DEF Tells, CarriesPair, Told, Particular
<1>6. Typed(k) BY <1>2, <1>4 DEF Typed, Fits, StoreTyped
<1> QED BY <1>1, <1>2, <1>6, Begins DEF MusicOps

\* A DJ is added that is none yet.
LEMMA GrantDjTurns ==
  ASSUME StoreTyped, JobsTyped, NEW h \in Handlers, GrantDj(h)
  PROVE  Turned(h, MusicOps)
<1> DEFINE j == job[h]
<1>1. Typed(j) /\ j.at = "dj" /\ j.op = "grant" BY DEF JobsTyped, GrantDj, Doing, Idle
<1>2. Basic(j) /\ Carries(j, "dj") BY <1>1 DEF Typed, Fits
<1>3. \/ Become(h, [j EXCEPT !.at = "end"])
      \/ Become(h, Adding(j, Dj(j.key), "end"))
  BY DEF GrantDj
<1> HIDE DEF j
<1>4. CASE Become(h, [j EXCEPT !.at = "end"]) BY <1>2, <1>4, Stops
<1>5. CASE Become(h, Adding(j, Dj(j.key), "end"))
 <2>1. NewRow(j, Dj(j.key), "end") BY <1>1, <1>2, <1>5 DEF NewRow
 <2>2. Carries(j, "add") BY <1>1, <1>2, CarriesOn DEF Players, Controls, Lists, Tabs
 <2>3. Typed(Adding(j, Dj(j.key), "end")) /\ Adding(j, Dj(j.key), "end").op = j.op BY <1>1, <2>1, <2>2, Adds
 <2> QED BY <1>1, <1>2, <1>5, <2>3, GoesOn DEF MusicOps
<1> QED BY <1>3, <1>4, <1>5

\* A DJ is to be one no longer.
LEMMA RevokeDjTurns ==
  ASSUME StoreTyped, JobsTyped, NEW h \in Handlers, NEW a \in Accounts, RevokeDj(h, a)
  PROVE  Turned(h, MusicOps)
<1> DEFINE k == Updating(Request("revoke", RoomOwner, a, "update"), {Update(ActiveDj(a), [status |-> "revoked"])},
             "end")
<1>1. Begin(h, k) BY DEF RevokeDj
<1>2. /\ Basic(k) /\ k.op = "revoke" /\ k.at = "update" /\ k.began = writes /\ k.read = {}
      /\ k.todo = {Update(ActiveDj(a), [status |-> "revoked"])} /\ k.then = "end"
  BY DEF Updating, Request, Basic
<1>3. ActiveDj(a) \in Rows /\ records[ActiveDj(a)].kind = "dj"
 <2>1. ActiveDj(a) \in Rows /\ records[ActiveDj(a)] = Dj(a)
   BY ActiveDjFound, SequencePlaces DEF RevokeDj, Sought, StoreTyped, Rows
 <2>2. Dj(a).kind = "dj" BY DEF Dj
 <2> QED BY <2>1, <2>2
<1> HIDE DEF k
<1>4. Carries(k, "update") BY <1>2, <1>3, PlainCarries DEF Tells, CarriesPair, Told, Particular
<1>5. k.todo # {} /\ \A u \in k.todo : Mend(k, u, k.then) BY <1>2, <1>3 DEF Mend, Mends, Update
<1>6. Typed(k) BY <1>2, <1>4, <1>5 DEF Typed, Fits, StoreTyped
<1> QED BY <1>1, <1>2, <1>6, Begins DEF MusicOps

\* A track is to be queued.
LEMMA StartQueueTurns ==
  ASSUME StoreTyped, JobsTyped, NEW h \in Handlers, NEW a \in Accounts, StartQueue(h, a)
  PROVE  Turned(h, MusicOps)
<1> DEFINE k == Request("queue", a, "queue", "count")
<1>1. Begin(h, k) BY DEF StartQueue
<1>2. /\ Basic(k) /\ k.op = "queue" /\ k.at = "count" /\ k.began = writes /\ k.read = {}
      /\ k.todo = {}
  BY DEF Request, Basic
<1> HIDE DEF k
<1>4. Carries(k, "count") BY <1>2, PlainCarries DEF Tells, CarriesPair, Told, Particular
<1>6. Typed(k) BY <1>2, <1>4 DEF Typed, Fits, StoreTyped
<1> QED BY <1>1, <1>2, <1>6, Begins DEF MusicOps

\* A track is added at the end of the queue.
LEMMA QueueTrackTurns ==
  ASSUME StoreTyped, JobsTyped, NEW h \in Handlers, QueueTrack(h)
  PROVE  Turned(h, MusicOps)
<1> DEFINE j == job[h]
<1>1. Typed(j) /\ j.at = "count" /\ j.op = "queue" BY DEF JobsTyped, QueueTrack, Doing, Idle
<1>2. Basic(j) /\ Carries(j, "count") BY <1>1 DEF Typed, Fits
<1>3. Become(h, Adding(j, Track(j.who, Cardinality(Tracks({"queued", "playing"}))), "end"))
  BY DEF QueueTrack
<1> HIDE DEF j
<1>4. CASE Become(h, Adding(j, Track(j.who, Cardinality(Tracks({"queued", "playing"}))), "end"))
 <2>0. Cardinality(Tracks({"queued", "playing"})) \in Nat
  <3>1. Len(records) \in Nat BY SequencePlaces DEF StoreTyped
  <3>2. Tracks({"queued", "playing"}) \subseteq 1..Len(records) BY DEF Tracks, Where
  <3>3. IsFiniteSet(1..Len(records)) BY <3>1, FS_Interval
  <3>4. IsFiniteSet(Tracks({"queued", "playing"})) BY <3>2, <3>3, FS_Subset
  <3> QED BY <3>4, FS_CardinalityType
 <2>1. NewRow(j, Track(j.who, Cardinality(Tracks({"queued", "playing"}))), "end")
   BY <1>1, <1>2, <1>4, <2>0 DEF NewRow
 <2>2. Carries(j, "add") BY <1>1, <1>2, CarriesOn DEF Players, Controls, Lists, Tabs
 <2>3. Typed(Adding(j, Track(j.who, Cardinality(Tracks({"queued", "playing"}))), "end"))
         /\ Adding(j, Track(j.who, Cardinality(Tracks({"queued", "playing"}))), "end").op = j.op
   BY <1>1, <2>1, <2>2, Adds
 <2> QED BY <1>1, <1>2, <1>4, <2>3, GoesOn DEF MusicOps
<1> QED BY <1>3, <1>4

\* A track is to be removed.
LEMMA StartRemoveTurns ==
  ASSUME StoreTyped, JobsTyped, NEW h \in Handlers, NEW a \in Accounts, NEW i \in Queued, StartRemove(h, a, i)
  PROVE  Turned(h, MusicOps)
<1> DEFINE k == Request("remove", a, i, "may")
<1>1. Begin(h, k) BY DEF StartRemove
<1>2. /\ Basic(k) /\ k.op = "remove" /\ k.at = "may" /\ k.began = writes /\ k.read = {}
      /\ k.todo = {}
      /\ k.key = i
  BY DEF Request, Basic
<1>3. IsTrack(i) BY QueueRows
<1> HIDE DEF k
<1>4. Carries(k, "may")
  BY <1>2, <1>3 DEF Carries, CarriesPlayer, CarriesTrack, CarriesStep, CarriesKey, CarriesPair,
     CarriesPrivacy, CarriesMore, Tells, Told, Players, Controls, Tabs
<1>6. Typed(k) BY <1>2, <1>4 DEF Typed, Fits, StoreTyped
<1> QED BY <1>1, <1>2, <1>6, Begins DEF MusicOps

\* Who may removes it.
LEMMA RemoveTrackTurns ==
  ASSUME StoreTyped, JobsTyped, NEW h \in Handlers, RemoveTrack(h)
  PROVE  Turned(h, MusicOps)
<1> DEFINE j == job[h]
<1>1. Typed(j) /\ j.at = "may" /\ j.op = "remove" BY DEF JobsTyped, RemoveTrack, Doing, Idle
<1>2. Basic(j) /\ Carries(j, "may") BY <1>1 DEF Typed, Fits
<1>3. \/ Become(h, Updating(j, {Update(j.key, [status |-> "removed"])}, "reindex"))
      \/ Become(h, [j EXCEPT !.at = "end"])
  BY DEF RemoveTrack
<1> HIDE DEF j
<1>4. CASE Become(h, Updating(j, {Update(j.key, [status |-> "removed"])}, "reindex"))
 <2>0. IsTrack(j.key) BY <1>1, <1>2 DEF Carries, CarriesKey
 <2>1. {Update(j.key, [status |-> "removed"])} # {}
         /\ \A u \in {Update(j.key, [status |-> "removed"])} : Mend(j, u, "reindex")
   BY <1>1, <1>2, <1>4, <2>0 DEF Mend, Mends, Update, IsTrack
 <2>2. Carries(j, "update") BY <1>1, <1>2, CarriesOn DEF Players, Controls, Lists, Tabs
 <2>3. Typed(Updating(j, {Update(j.key, [status |-> "removed"])}, "reindex"))
         /\ Updating(j, {Update(j.key, [status |-> "removed"])}, "reindex").op = j.op
   BY <1>1, <2>1, <2>2, Updates
 <2> QED BY <1>1, <1>2, <1>4, <2>3, GoesOn DEF MusicOps
<1>5. CASE Become(h, [j EXCEPT !.at = "end"]) BY <1>2, <1>5, Stops
<1> QED BY <1>3, <1>4, <1>5

\* The queue is numbered again.
LEMMA ReindexTurns ==
  ASSUME StoreTyped, JobsTyped, NEW h \in Handlers, Reindex(h)
  PROVE  Turned(h, MusicOps)
<1> DEFINE j == job[h]
<1>1. Typed(j) /\ j.at = "reindex" /\ j.op = "remove"
 <2>1. Doing(h, "remove", "reindex") BY Zenon DEF Reindex
 <2> QED BY <2>1 DEF JobsTyped, Doing, Idle
<1> DEFINE todo == {Update(i, [position |-> PlaceIn(Queued,
             i)]) : i \in {k \in Queued : records[k].position # PlaceIn(Queued, k)}}
<1>2. Become(h, Updating(j, todo, "end")) BY DEF Reindex, Renumber
<1> HIDE DEF j
<1>3. \A u \in todo : Mend(j, u, "end")
 <2> SUFFICES ASSUME NEW i \in Queued PROVE Mend(j, Update(i, [position |-> PlaceIn(Queued, i)]), "end")
   OBVIOUS
 <2>1. IsTrack(i) /\ PlaceIn(Queued, i) \in Nat BY QueueRows, PlaceIsNumber
 <2> QED BY <1>1, <2>1 DEF Mend, Mends, Update, IsTrack
<1>4. Carries(j, "update") BY <1>1, CarriesOn DEF Typed, Players, Controls
<1> HIDE DEF todo
<1> QED BY <1>1, <1>2, <1>3, <1>4, Amends DEF MusicOps

\* A track is to be moved.
LEMMA StartReorderTurns ==
  ASSUME StoreTyped, JobsTyped, NEW h \in Handlers, NEW a \in Accounts, NEW i \in Queued, NEW place \in Nat,
         StartReorder(h, a, i, place)
  PROVE  Turned(h, MusicOps)
<1> DEFINE k == Merge(Request("reorder", a, i, "order"), [place |-> place])
<1>1. Begin(h, k) BY DEF StartReorder
<1>2. /\ Basic(k) /\ k.op = "reorder" /\ k.at = "order" /\ k.began = writes /\ k.read = {}
      /\ k.todo = {}
      /\ "place" \in DOMAIN k /\ k.place = place /\ k.key = i
  BY DEF Merge, Request, Basic
<1>3. IsTrack(i) BY QueueRows
<1> HIDE DEF k
<1>4. Carries(k, "order")
  BY <1>2, <1>3 DEF Carries, CarriesPlayer, CarriesTrack, CarriesStep, CarriesKey, CarriesPair,
     CarriesPrivacy, CarriesMore, Tells, Told, Players, Controls, Tabs
<1>6. Typed(k) BY <1>2, <1>4 DEF Typed, Fits, StoreTyped
<1> QED BY <1>1, <1>2, <1>6, Begins DEF MusicOps

\* A track is moved, and the others with it.
LEMMA ReorderTurns ==
  ASSUME StoreTyped, JobsTyped, NEW h \in Handlers, Reorder(h)
  PROVE  Turned(h, MusicOps)
<1> DEFINE j == job[h]
<1>1. Typed(j) /\ j.at = "order" /\ j.op = "reorder"
 <2>1. Doing(h, "reorder", "order") BY Zenon DEF Reorder
 <2> QED BY <2>1 DEF JobsTyped, Doing, Idle
<1>2. Basic(j) /\ Carries(j, "order") /\ j.place \in Nat BY <1>1 DEF Typed, Carries, CarriesMore
<1> DEFINE others == Queued \ {j.key}
           order(i) == IF i = j.key THEN j.place
                       ELSE PlaceIn(others, i) + (IF PlaceIn(others, i) >= j.place THEN 1 ELSE 0)
           todo == {Update(i, [position |-> order(i)]) : i \in {k \in others \cup {j.key} : records[k].position # order(k)}}
<1>3. \/ Become(h, [j EXCEPT !.at = "end"])
      \/ ~(j.place >= Cardinality(Queued)) /\ Become(h, Updating(j, todo, "end"))
  BY DEF Reorder, Renumber
<1>4. \A i : order(i) \in Nat BY <1>2, PlaceIsNumber
<1> HIDE DEF j, order
<1>5. \A u \in todo : Mend(j, u, "end")
 <2> SUFFICES ASSUME NEW i \in others \cup {j.key} PROVE Mend(j, Update(i, [position |-> order(i)]), "end")
   OBVIOUS
 <2>1. IsTrack(i) BY <1>1, <1>2, QueueRows DEF Carries, CarriesKey
 <2>2. order(i) \in Nat BY <1>4
 <2> QED BY <1>1, <2>1, <2>2 DEF Mend, Mends, Update, IsTrack
<1>6. Carries(j, "update") BY <1>1, CarriesOn DEF Typed, Players, Controls
<1> HIDE DEF todo
<1>7. CASE Become(h, [j EXCEPT !.at = "end"]) BY <1>2, <1>7, Stops
<1>8. CASE Become(h, Updating(j, todo, "end")) BY <1>1, <1>5, <1>6, <1>8, Amends DEF MusicOps
<1> QED BY <1>3, <1>7, <1>8
-----------------------------
\* The player is asked for something.
LEMMA StartPlayerTurns ==
  ASSUME StoreTyped, JobsTyped, NEW h \in Handlers, NEW op \in Players, NEW a \in Accounts,
         NEW chosen, chosen = 0 \/ IsTrack(chosen),
         Begin(h, Merge(Request(op, a, "player", "player"), [chosen |-> chosen]))
  PROVE  Turned(h, MusicOps)
<1> DEFINE k == Merge(Request(op, a, "player", "player"), [chosen |-> chosen])
<1>1. /\ Basic(k) /\ k.op = op /\ k.at = "player" /\ k.began = writes /\ k.read = {} /\ k.todo = {}
      /\ "chosen" \in DOMAIN k /\ k.chosen = chosen
  BY DEF Merge, Request, Basic
<1>2. Begin(h, k) OBVIOUS
<1> HIDE DEF k
<1>3. CarriesPlayer(k, "player") BY <1>1 DEF CarriesPlayer, CarriesTrack
<1>4. Carries(k, "player") BY <1>1, <1>3, ControlCarries
<1>5. Typed(k) BY <1>1, <1>4 DEF Typed, Fits, StoreTyped
<1> QED BY <1>1, <1>2, <1>5, Begins DEF MusicOps

\* Somebody looks at the player.
LEMMA StartLookTurns ==
  ASSUME StoreTyped, JobsTyped, NEW h \in Handlers, NEW a \in Accounts, StartLook(h, a)
  PROVE  Turned(h, MusicOps)
  BY StartPlayerTurns DEF StartLook, Players

\* A DJ asks the player for something.
LEMMA StartControlTurns ==
  ASSUME StoreTyped, JobsTyped, NEW h \in Handlers, NEW a \in Accounts, NEW op \in Controls,
         NEW chosen, chosen = 0 \/ IsTrack(chosen), StartControl(h, op, a, chosen)
  PROVE  Turned(h, MusicOps)
  BY StartPlayerTurns DEF StartControl, Players

\* The player is found, or made.
LEMMA GetPlayerTurns ==
  ASSUME StoreTyped, JobsTyped, NEW h \in Handlers, GetPlayer(h)
  PROVE  Turned(h, MusicOps)
<1> DEFINE j == job[h]
           onward == CASE j.op = "next" -> "previous" [] j.op = "state" -> "end" [] OTHER -> j.op
           i == Find(LAMBDA r : r.kind = "player")
           m == Merge(j, [state |-> NewPlayer])
           k == Merge(j, [made |-> i, state |-> records[i], at |-> onward])
<1>1. Typed(j) /\ j.at = "player" BY DEF JobsTyped, GetPlayer, Idle
<1>2. Basic(j) /\ Carries(j, "player") /\ j.op \in Players BY <1>1 DEF Typed, Fits
<1>3. IF i = 0 THEN Become(h, Adding(m, NewPlayer, onward)) ELSE Become(h, k) BY DEF GetPlayer
<1>4. i = 0 \/ IsPlayer(i) BY PlayerFound
<1>5. "chosen" \in DOMAIN j /\ (j.chosen = 0 \/ IsTrack(j.chosen)) BY <1>2 DEF Carries, CarriesPlayer
<1>6. /\ Basic(m)
      /\ m.op = j.op /\ m.at = "player" /\ m.began = j.began /\ m.todo = j.todo /\ m.read = j.read
      /\ "chosen" \in DOMAIN m /\ m.chosen = j.chosen /\ "state" \in DOMAIN m /\ m.state = NewPlayer
  BY <1>1, <1>2, <1>5 DEF Merge, Basic
<1>7. /\ Basic(k) /\ k.op = j.op /\ k.at = onward /\ k.began = j.began /\ k.todo = j.todo /\ k.read = j.read
      /\ "chosen" \in DOMAIN k /\ k.chosen = j.chosen /\ "state" \in DOMAIN k /\ k.state = records[i]
      /\ "made" \in DOMAIN k /\ k.made = i
  BY <1>1, <1>2, <1>5 DEF Merge, Basic
<1>8. onward = IF j.op = "next" THEN "previous" ELSE IF j.op = "state" THEN "end" ELSE j.op OBVIOUS
<1> HIDE DEF j, i, m, k, onward
<1>9. CASE i = 0
 <2>1. NewPlayer.current = 0 BY DEF NewPlayer
 <2>2. Carries(m, "player") /\ Carries(m, "add")
  <3>1. CarriesPlayer(m, "player") /\ CarriesPlayer(m, "add")
    BY <1>2, <1>5, <1>6, <2>1 DEF CarriesPlayer, CarriesTrack
  <3> QED BY <1>2, <1>6, <3>1, ControlCarries
 <2>3. Typed(m) BY <1>1, <1>2, <1>6, <2>2 DEF Typed, Fits
 <2>4. NewRow(m, NewPlayer, onward) BY <1>2, <1>6, <1>8, Zenon DEF NewRow, onward
 <2>5. Typed(Adding(m, NewPlayer, onward)) /\ Adding(m, NewPlayer, onward).op = m.op
   BY <1>6, <2>2, <2>3, <2>4, Adds
 <2> QED BY <1>2, <1>3, <1>6, <1>9, <2>5, GoesOn DEF MusicOps
<1>10. CASE i # 0 /\ j.op = "state" BY <1>3, <1>7, <1>8, <1>10, GoesOn
<1>11. CASE i # 0 /\ j.op # "state"
 <2>1. IsPlayer(i) /\ (records[i].current = 0 \/ IsTrack(records[i].current))
   BY <1>4, <1>11 DEF StoreTyped, Refers, IsPlayer
 <2>2. onward \in {"previous", "play", "pause", "volume"} /\ (j.op = "play" => onward = "play")
   BY <1>2, <1>8, <1>11 DEF Players, Controls
 <2>3. Carries(k, onward)
  <3>1. CarriesTrack(k, onward) BY <1>7, <2>2 DEF CarriesTrack
  <3>2. CarriesPlayer(k, onward) BY <1>2, <1>5, <1>7, <2>1, <3>1 DEF CarriesPlayer
  <3> QED BY <1>2, <1>7, <2>2, <3>2, ControlCarries
 <2>4. Fits(k.op, onward) BY <1>2, <1>7, <1>8, <1>11 DEF Fits, Players, Controls
 <2>5. Typed(k) BY <1>1, <1>7, <2>2, <2>3, <2>4 DEF Typed
 <2> QED BY <1>2, <1>3, <1>7, <1>11, <2>5, GoesOn DEF MusicOps
<1> QED BY <1>9, <1>10, <1>11

\* What a request to the player has once it has found it.
LEMMA ControlGoesOn ==
  ASSUME NEW j, NEW at, NEW to, Carries(j, at), j.op \in Players, at \notin {"player", "add", "play"},
         to \notin {"push", "prune", "post", "circle"}, j.op = "next" /\ to = "show" => at = "show"
  PROVE  Carries(j, to)
<1>1. CarriesPlayer(j, to) BY DEF Carries, CarriesPlayer, CarriesTrack
<1> QED BY <1>1, ControlCarries

\* The last write of a request: the player.
LEMMA Shows ==
  ASSUME StoreTyped, NEW h \in Handlers, NEW j, Typed(j), j.at \notin {"update", "player", "add", "play"},
         NEW patch, Become(h, Show(j, patch)), j.op \in Players,
         Mends(j.op, "player", patch, "end"),
         "current" \in DOMAIN patch => patch.current = 0 \/ IsTrack(patch.current)
  PROVE  Turned(h, MusicOps)
<1>1. IsPlayer(j.made) /\ Carries(j, "update")
 <2>1. Carries(j, j.at) BY DEF Typed
 <2>2. IsPlayer(j.made) BY <2>1 DEF Carries, CarriesPlayer
 <2> QED BY <2>1, <2>2, ControlGoesOn
<1>2. Mend(j, Update(j.made, patch), "end") BY <1>1 DEF Mend, Update, IsPlayer
<1> QED BY <1>1, <1>2, Amends DEF Show, MusicOps

\* The player pauses.
LEMMA PauseTurns ==
  ASSUME StoreTyped, JobsTyped, NEW h \in Handlers, Pause(h)
  PROVE  Turned(h, MusicOps)
<1> DEFINE j == job[h]
<1>1. Typed(j) /\ j.at = "pause" BY DEF JobsTyped, Pause, Idle
<1>2. \/ Become(h, Show(j, [status |-> "paused"]))
      \/ Become(h, [j EXCEPT !.at = "end"])
  BY DEF Pause
<1>3. Mends("pause", "player", [status |-> "paused"], "end") BY DEF Mends
<1>4. j.op = "pause" BY <1>1 DEF Typed, Fits
<1> HIDE DEF j
<1> QED BY <1>1, <1>2, <1>3, <1>4, Shows, Stops DEF Typed, Players, Controls

\* The volume changes.
LEMMA SetVolumeTurns ==
  ASSUME StoreTyped, JobsTyped, NEW h \in Handlers, SetVolume(h)
  PROVE  Turned(h, MusicOps)
<1> DEFINE j == job[h]
<1>1. Typed(j) /\ j.at = "volume" BY DEF JobsTyped, SetVolume, Idle
<1>2. PICK volume : Become(h, Show(j, [volume |-> volume])) BY DEF SetVolume
<1>3. Mends("volume", "player", [volume |-> volume], "end") BY DEF Mends
<1>4. j.op = "volume" BY <1>1 DEF Typed, Fits
<1> HIDE DEF j
<1> QED BY <1>1, <1>2, <1>3, <1>4, Shows DEF Players, Controls

\* The track to play is chosen.
LEMMA ChooseTrackTurns ==
  ASSUME StoreTyped, JobsTyped, NEW h \in Handlers, ChooseTrack(h)
  PROVE  Turned(h, MusicOps)
<1> DEFINE j == job[h]
           resumed == j.state.status = "paused" /\ j.state.current # 0
           track == IF j.chosen # 0 THEN j.chosen
                    ELSE IF resumed THEN j.state.current
                    ELSE IF Queued = {} THEN 0 ELSE Foremost(Queued)
           k == Merge(j, [track |-> track, was |-> records[track].status, at |-> "previous"])
<1>1. Typed(j) /\ j.at = "play" BY DEF JobsTyped, ChooseTrack, Idle
<1>2. Basic(j) /\ Carries(j, "play") /\ j.op = "play" BY <1>1 DEF Typed, Fits
<1>3. Become(h, [j EXCEPT !.at = "end"]) \/ (track # 0 /\ Become(h, k)) BY DEF ChooseTrack
<1>4. /\ "chosen" \in DOMAIN j /\ (j.chosen = 0 \/ IsTrack(j.chosen))
      /\ "state" \in DOMAIN j /\ (j.state.current = 0 \/ IsTrack(j.state.current))
      /\ "made" \in DOMAIN j /\ IsPlayer(j.made)
  BY <1>2 DEF Carries, CarriesPlayer, Players, Controls
<1>5. track = 0 \/ IsTrack(track) BY <1>4, ForemostIs, QueueRows
<1> HIDE DEF track
<1>6. /\ Basic(k) /\ k.op = "play" /\ k.at = "previous" /\ k.began = j.began /\ k.todo = j.todo /\ k.read = j.read
      /\ "chosen" \in DOMAIN k /\ k.chosen = j.chosen /\ "state" \in DOMAIN k /\ k.state = j.state
      /\ "made" \in DOMAIN k /\ k.made = j.made
      /\ "track" \in DOMAIN k /\ k.track = track /\ "was" \in DOMAIN k
  BY <1>1, <1>2, <1>4 DEF Merge, Basic
<1> HIDE DEF j, k
<1>7. CASE Become(h, [j EXCEPT !.at = "end"]) BY <1>2, <1>7, Stops
<1>8. CASE track # 0 /\ Become(h, k)
 <2>1. CarriesPlayer(k, "previous") BY <1>4, <1>5, <1>6, <1>8 DEF CarriesPlayer, CarriesTrack
 <2>2. Carries(k, "previous") BY <1>6, <2>1, ControlCarries DEF Players, Controls
 <2>3. Typed(k) BY <1>1, <1>6, <2>2 DEF Typed, Fits
 <2> QED BY <1>6, <1>8, <2>3, GoesOn DEF MusicOps, Players, Controls
<1> QED BY <1>3, <1>7, <1>8

\* The track that was on has been played.
LEMMA EndPreviousTurns ==
  ASSUME StoreTyped, JobsTyped, NEW h \in Handlers, EndPrevious(h)
  PROVE  Turned(h, MusicOps)
<1> DEFINE j == job[h]
           previous == j.state.current
           replaced == previous # 0 /\ (j.op = "play" => previous # j.track)
           todo == IF replaced /\ records[previous].status = "playing"
                   THEN {Update(previous, [status |-> "played"])} ELSE {}
           onward == IF j.op = "play" THEN "start" ELSE "advance"
<1>1. Typed(j) /\ j.at = "previous" BY DEF JobsTyped, EndPrevious, Idle
<1>2. Carries(j, "previous") /\ j.op \in {"play", "next"} BY <1>1 DEF Typed, Fits
<1>3. Become(h, Updating(j, todo, onward)) BY DEF EndPrevious
<1>4. previous = 0 \/ IsTrack(previous) BY <1>2 DEF Carries, CarriesPlayer, Players, Controls
<1> HIDE DEF j
<1>5. \A u \in todo : Mend(j, u, onward)
 <2> SUFFICES ASSUME previous # 0 PROVE Mend(j, Update(previous, [status |-> "played"]), onward) OBVIOUS
 <2> QED BY <1>2, <1>4 DEF Mend, Mends, Update, IsTrack
<1>6. Carries(j, "update") /\ Carries(j, onward) /\ Fits(j.op, onward)
 <2>1. Fits(j.op, onward) BY <1>2 DEF Fits
 <2> QED BY <1>2, <2>1, ControlGoesOn DEF Players, Controls
<1> HIDE DEF todo
<1> QED BY <1>1, <1>2, <1>3, <1>5, <1>6, Amends DEF MusicOps, Players, Controls

\* The track that was chosen begins.
LEMMA StartTrackTurns ==
  ASSUME StoreTyped, JobsTyped, NEW h \in Handlers, StartTrack(h)
  PROVE  Turned(h, MusicOps)
<1> DEFINE j == job[h]
           todo == IF j.was = "queued" THEN {Update(j.track, [status |-> "playing"])} ELSE {}
<1>1. Typed(j) /\ j.at = "start" BY DEF JobsTyped, StartTrack, Idle
<1>2. Carries(j, "start") /\ j.op = "play" BY <1>1 DEF Typed, Fits
<1>3. Become(h, Updating(j, todo, "show")) BY DEF StartTrack
<1>4. IsTrack(j.track) BY <1>2 DEF Carries, CarriesPlayer, CarriesTrack, Players, Controls
<1> HIDE DEF j
<1>5. \A u \in todo : Mend(j, u, "show")
 <2>1. Mend(j, Update(j.track, [status |-> "playing"]), "show")
   BY <1>2, <1>4 DEF Mend, Mends, Update, IsTrack
 <2> QED BY <2>1
<1>6. Carries(j, "update") /\ Carries(j, "show") /\ Fits(j.op, "show")
 <2>1. Fits(j.op, "show") BY <1>2 DEF Fits
 <2> QED BY <1>2, <2>1, ControlGoesOn DEF Players, Controls
<1> HIDE DEF todo
<1> QED BY <1>1, <1>2, <1>3, <1>5, <1>6, Amends DEF MusicOps, Players, Controls

\* The player shows what plays.
LEMMA ShowTrackTurns ==
  ASSUME StoreTyped, JobsTyped, NEW h \in Handlers, ShowTrack(h)
  PROVE  Turned(h, MusicOps)
<1> DEFINE j == job[h]
           patch == [status |-> "playing", current |-> j.track]
<1>1. Typed(j) /\ j.at = "show" BY DEF JobsTyped, ShowTrack, Idle
<1>2. Carries(j, "show") /\ j.op \in {"play", "next"} BY <1>1 DEF Typed, Fits
<1>3. Become(h, Show(j, patch)) BY DEF ShowTrack
<1>4. IsTrack(j.track) BY <1>2 DEF Carries, CarriesPlayer, CarriesTrack, Players, Controls
<1>5. DOMAIN patch = {"status", "current"} /\ patch.current = j.track OBVIOUS
<1> HIDE DEF j, patch
<1>6. Mends(j.op, "player", patch, "end") BY <1>2, <1>5 DEF Mends
<1> QED BY <1>1, <1>2, <1>3, <1>4, <1>5, <1>6, Shows DEF Players, Controls

\* The foremost track begins, or the player stops.
LEMMA AdvanceTurns ==
  ASSUME StoreTyped, JobsTyped, NEW h \in Handlers, Advance(h)
  PROVE  Turned(h, MusicOps)
<1> DEFINE j == job[h]
           patch == [status |-> "stopped", current |-> 0]
           track == Foremost(Queued)
           k == Merge(j, [track |-> track])
<1>1. Typed(j) /\ j.at = "advance" BY DEF JobsTyped, Advance, Idle
<1>2. Basic(j) /\ Carries(j, "advance") /\ j.op = "next" BY <1>1 DEF Typed, Fits
<1>3. IF Queued = {} THEN Become(h, Show(j, patch))
      ELSE Become(h, Updating(k, {Update(track, [status |-> "playing"])}, "show"))
  BY DEF Advance
<1>4. DOMAIN patch = {"status", "current"} /\ patch.current = 0 OBVIOUS
<1>5. Queued # {} => IsTrack(track) BY ForemostIs, QueueRows
<1> HIDE DEF track, patch
<1>6. CASE Queued = {}
 <2> HIDE DEF j
 <2>1. Mends(j.op, "player", patch, "end") BY <1>2, <1>4 DEF Mends
 <2> QED BY <1>1, <1>2, <1>3, <1>4, <1>6, <2>1, Shows DEF Players, Controls
<1>7. CASE Queued # {}
 <2>1. /\ "chosen" \in DOMAIN j /\ (j.chosen = 0 \/ IsTrack(j.chosen))
       /\ "state" \in DOMAIN j /\ (j.state.current = 0 \/ IsTrack(j.state.current))
       /\ "made" \in DOMAIN j /\ IsPlayer(j.made)
   BY <1>2 DEF Carries, CarriesPlayer, Players, Controls
 <2>2. /\ Basic(k) /\ k.op = "next" /\ k.at = "advance" /\ k.began = j.began /\ k.todo = j.todo /\ k.read = j.read
       /\ "chosen" \in DOMAIN k /\ k.chosen = j.chosen /\ "state" \in DOMAIN k /\ k.state = j.state
       /\ "made" \in DOMAIN k /\ k.made = j.made
       /\ "track" \in DOMAIN k /\ k.track = track
   BY <1>1, <1>2, <2>1 DEF Merge, Basic
 <2> HIDE DEF j, k
 <2>3. ASSUME NEW at \in {"advance", "update", "show"} PROVE Carries(k, at)
  <3>1. CarriesPlayer(k, at) BY <1>5, <1>7, <2>1, <2>2, <2>3 DEF CarriesPlayer, CarriesTrack
  <3> QED BY <2>2, <2>3, <3>1, ControlCarries DEF Players, Controls
 <2>4. Typed(k) BY <1>1, <2>2, <2>3 DEF Typed, Fits
 <2>5. Mend(k, Update(track, [status |-> "playing"]), "show")
   BY <1>5, <1>7, <2>2 DEF Mend, Mends, Update, IsTrack
 <2>6. Fits(k.op, "show") BY <2>2 DEF Fits
 <2> QED BY <1>3, <1>7, <2>2, <2>3, <2>4, <2>5, <2>6, Amends DEF MusicOps, Players, Controls
<1> QED BY <1>6, <1>7

\* Whatever the music of a room does.
LEMMA MusicTurns ==
  ASSUME StoreTyped, JobsTyped, NEW h \in Handlers, MusicStep(h) \/ MusicRequest(h)
  PROVE  Turned(h, MusicOps)
<1>1. CASE MusicStep(h)
  BY <1>1, GrantDjTurns, QueueTrackTurns, RemoveTrackTurns, ReindexTurns, ReorderTurns, GetPlayerTurns, PauseTurns,
     SetVolumeTurns, ChooseTrackTurns, EndPreviousTurns, StartTrackTurns, ShowTrackTurns, AdvanceTurns DEF MusicStep
<1>2. CASE MusicRequest(h)
 <2>1. CASE \E a \in Accounts : StartGrant(h, a) \/ RevokeDj(h, a) \/ StartQueue(h, a) \/ StartLook(h, a)
   BY <2>1, StartGrantTurns, RevokeDjTurns, StartQueueTurns, StartLookTurns
 <2>2. CASE \E a \in Accounts, i \in Queued : StartRemove(h, a, i) BY <2>2, StartRemoveTurns
 <2>3. CASE \E a \in Accounts, i \in Queued : StartControl(h, "play", a, i)
   BY <2>3, StartControlTurns, QueueRows DEF Controls
 <2>4. CASE \E a \in Accounts, i \in Queued, place \in 0..Cardinality(Queued) - 1 : StartReorder(h, a, i, place)
   BY <2>4, StartReorderTurns
 <2>5. CASE \E a \in Accounts, op \in Controls : StartControl(h, op, a, 0) BY <2>5, StartControlTurns
 <2> QED BY <1>2, <2>1, <2>2, <2>3, <2>4, <2>5 DEF MusicRequest
<1> QED BY <1>1, <1>2
-----------------------------
\* Requests of support.
SupportOps == {"ticket", "reply", "attach", "escalate", "report", "review", "appeal", "assign", "decide"}
              \cup Reached

\* A ticket is opened.
LEMMA OpenTicketTurns ==
  ASSUME StoreTyped, JobsTyped, NEW h \in Handlers, NEW a, OpenTicket(h, a)
  PROVE  Turned(h, SupportOps)
<1> DEFINE k == Adding(Request("ticket", a, a, "add"), Ticket(a), "end")
<1>1. Begin(h, k) BY DEF OpenTicket
<1>2. /\ Basic(k) /\ k.op = "ticket" /\ k.at = "add" /\ k.began = writes /\ k.read = {}
      /\ k.todo = {}
      /\ "new" \in DOMAIN k /\ k.new = Ticket(a) /\ k.then = "end"
      /\ k.who = a
  BY DEF Adding, Request, Merge, Basic
<1> HIDE DEF k
<1>4. Carries(k, "add") BY <1>2, PlainCarries DEF Tells, CarriesPair, Told, Particular
<1>5. NewRow(k, k.new, k.then) BY <1>2 DEF NewRow
<1>6. Typed(k) BY <1>2, <1>4, <1>5 DEF Typed, Fits, StoreTyped
<1> QED BY <1>1, <1>2, <1>6, Begins DEF SupportOps

\* A ticket gets a reply.
LEMMA ReplyTurns ==
  ASSUME StoreTyped, JobsTyped, NEW h \in Handlers, NEW a, NEW i \in Rows, Reply(h, a, i)
  PROVE  Turned(h, SupportOps)
<1> DEFINE k == Merge(Updating(Request("reply", a, i, "update"),
             {Update(i, [replies |-> records[i].replies \cup {Entry(a)}])}, "answer"), [entry |-> Entry(a)])
<1>1. Begin(h, k) BY DEF Reply
<1>2. /\ Basic(k) /\ k.op = "reply" /\ k.at = "update" /\ k.began = writes /\ k.read = {}
      /\ k.todo = {Update(i, [replies |-> records[i].replies \cup {Entry(a)}])} /\ k.then = "answer"
      /\ "entry" \in DOMAIN k
 <2> DEFINE m == Updating(Request("reply", a, i, "update"),
              {Update(i, [replies |-> records[i].replies \cup {Entry(a)}])}, "answer")
            p == [entry |-> Entry(a)]
 <2>1. /\ DOMAIN m = {"op", "at", "key", "who", "began", "todo", "read", "then"}
       /\ m.op = "reply" /\ m.key = i /\ m.at = "update" /\ m.began = writes /\ m.read = {}
       /\ m.todo = {Update(i, [replies |-> records[i].replies \cup {Entry(a)}])} /\ m.then = "answer"
   BY DEF Updating, Request
 <2>2. DOMAIN p = {"entry"} /\ k = Merge(m, p) OBVIOUS
 <2> HIDE DEF k, m, p
 <2> QED BY <2>1, <2>2 DEF Merge, Basic
<1>3. records[i].kind = "ticket" BY DEF Reply
<1> HIDE DEF k
<1>4. Carries(k, "update")
  BY <1>2, <1>3 DEF Carries, CarriesPlayer, CarriesTrack, CarriesStep, CarriesKey, CarriesPair,
     CarriesPrivacy, CarriesMore, Tells, Told, Players, Controls, Tabs
<1>5. k.todo # {} /\ \A u \in k.todo : Mend(k, u, k.then) BY <1>2, <1>3 DEF Mend, Mends, Update
<1>6. Typed(k) BY <1>2, <1>4, <1>5 DEF Typed, Fits, StoreTyped
<1> QED BY <1>1, <1>2, <1>6, Begins DEF SupportOps

\* A reply has been answered.
LEMMA AnswerReplyTurns ==
  ASSUME StoreTyped, JobsTyped, NEW h \in Handlers, AnswerReply(h)
  PROVE  Turned(h, SupportOps)
<1> DEFINE j == job[h]
<1>1. Typed(j) /\ j.at = "answer" /\ j.op = "reply" BY DEF JobsTyped, AnswerReply, Doing, Idle
<1>2. Basic(j) /\ Carries(j, "answer") BY <1>1 DEF Typed, Fits
<1>3. Become(h, [j EXCEPT !.at = "end"]) BY DEF AnswerReply
<1> HIDE DEF j
<1>4. CASE Become(h, [j EXCEPT !.at = "end"]) BY <1>2, <1>4, Stops
<1> QED BY <1>3, <1>4

\* A ticket gets an attachment.
LEMMA AttachTurns ==
  ASSUME StoreTyped, JobsTyped, NEW h \in Handlers, NEW i \in Rows, Attach(h, i)
  PROVE  Turned(h, SupportOps)
<1> DEFINE k == Updating(Request("attach", records[i].who, i, "update"),
             {Update(i, [attachments |-> records[i].attachments \cup {Entry(records[i].who)}])}, "end")
<1>1. Begin(h, k) BY DEF Attach
<1>2. /\ Basic(k) /\ k.op = "attach" /\ k.at = "update" /\ k.began = writes /\ k.read = {}
      /\ k.todo = {Update(i, [attachments |-> records[i].attachments \cup {Entry(records[i].who)}])}
           /\ k.then = "end"
  BY DEF Updating, Request, Basic
<1>3. records[i].kind = "ticket" BY DEF Attach
<1> HIDE DEF k
<1>4. Carries(k, "update") BY <1>2, <1>3, PlainCarries DEF Tells, CarriesPair, Told, Particular
<1>5. k.todo # {} /\ \A u \in k.todo : Mend(k, u, k.then) BY <1>2, <1>3 DEF Mend, Mends, Update
<1>6. Typed(k) BY <1>2, <1>4, <1>5 DEF Typed, Fits, StoreTyped
<1> QED BY <1>1, <1>2, <1>6, Begins DEF SupportOps

\* A ticket comes to a status.
LEMMA SetStatusTurns ==
  ASSUME StoreTyped, JobsTyped, NEW h \in Handlers, NEW a, NEW i \in Rows, NEW status \in DOMAIN Transitions,
         SetStatus(h, a, i, status)
  PROVE  Turned(h, SupportOps)
<1> DEFINE k == Updating(Request(status, a, i, "update"), {Update(i, [status |-> status])}, "end")
<1>1. Begin(h, k) BY DEF SetStatus
<1>2. /\ Basic(k) /\ k.op = status /\ k.at = "update" /\ k.began = writes /\ k.read = {}
      /\ k.todo = {Update(i, [status |-> status])} /\ k.then = "end"
  BY DEF Updating, Request, Basic
<1>3. records[i].kind = "ticket" /\ status \in Reached
        /\ status \in {"in_progress", "waiting_user", "escalated", "resolved", "closed"}
 <2>1. records[i].kind = "ticket" /\ records[i].status \in DOMAIN Transitions
         /\ status \in Transitions[records[i].status]
   BY DEF SetStatus, StoreTyped, WellFormed
 <2>2. status \in {"in_progress", "waiting_user", "escalated", "resolved", "closed"} BY <2>1 DEF Transitions
 <2> QED BY <2>1, <2>2 DEF Reached
<1> HIDE DEF k
<1>4. Carries(k, "update")
 <2>1. k.op \notin Particular BY <1>2, <1>3 DEF Particular
 <2>2. k.op \notin Told /\ k.op \notin {"open", "send", "follow", "friend", "block", "mute", "seat"}
   BY <1>2, <1>3 DEF Told
 <2> QED BY <2>1, <2>2, PlainCarries DEF Tells, CarriesPair
<1>5. k.todo # {} /\ \A u \in k.todo : Mend(k, u, k.then) BY <1>2, <1>3 DEF Mend, Mends, Update
<1>6. Typed(k) BY <1>2, <1>4, <1>5 DEF Typed, Fits, StoreTyped
<1> QED BY <1>1, <1>2, <1>3, <1>6, Begins DEF SupportOps

\* A ticket is escalated.
LEMMA EscalateTurns ==
  ASSUME StoreTyped, JobsTyped, NEW h \in Handlers, NEW a, NEW i \in Rows, Escalate(h, a, i)
  PROVE  Turned(h, SupportOps)
<1> DEFINE k == Updating(Request("escalate", a, i, "update"), {Update(i, [status |-> "escalated"])}, "end")
<1>1. Begin(h, k) BY DEF Escalate
<1>2. /\ Basic(k) /\ k.op = "escalate" /\ k.at = "update" /\ k.began = writes /\ k.read = {}
      /\ k.todo = {Update(i, [status |-> "escalated"])} /\ k.then = "end"
  BY DEF Updating, Request, Basic
<1>3. records[i].kind = "ticket" BY DEF Escalate
<1> HIDE DEF k
<1>4. Carries(k, "update") BY <1>2, <1>3, PlainCarries DEF Tells, CarriesPair, Told, Particular
<1>5. k.todo # {} /\ \A u \in k.todo : Mend(k, u, k.then) BY <1>2, <1>3 DEF Mend, Mends, Update
<1>6. Typed(k) BY <1>2, <1>4, <1>5 DEF Typed, Fits, StoreTyped
<1> QED BY <1>1, <1>2, <1>6, Begins DEF SupportOps

\* An account is reported.
LEMMA OpenReportTurns ==
  ASSUME StoreTyped, JobsTyped, NEW h \in Handlers, NEW a, NEW b, OpenReport(h, a, b)
  PROVE  Turned(h, SupportOps)
<1> DEFINE k == Adding(Request("report", a, b, "add"), Report(a, b), "end")
<1>1. Begin(h, k) BY DEF OpenReport
<1>2. /\ Basic(k) /\ k.op = "report" /\ k.at = "add" /\ k.began = writes /\ k.read = {}
      /\ k.todo = {}
      /\ "new" \in DOMAIN k /\ k.new = Report(a, b) /\ k.then = "end"
      /\ k.who = a /\ k.key = b
  BY DEF Adding, Request, Merge, Basic
<1> HIDE DEF k
<1>4. Carries(k, "add") BY <1>2, PlainCarries DEF Tells, CarriesPair, Told, Particular
<1>5. NewRow(k, k.new, k.then) BY <1>2 DEF NewRow
<1>6. Typed(k) BY <1>2, <1>4, <1>5 DEF Typed, Fits, StoreTyped
<1> QED BY <1>1, <1>2, <1>6, Begins DEF SupportOps

\* A report is to be reviewed.
LEMMA StartReviewTurns ==
  ASSUME StoreTyped, JobsTyped, NEW h \in Handlers, NEW a, NEW i, NEW outcome, StartReview(h, a, i, outcome)
  PROVE  Turned(h, SupportOps)
<1> DEFINE k == Merge(Request("review", a, i, "review"), [outcome |-> outcome])
<1>1. Begin(h, k) BY DEF StartReview
<1>2. /\ Basic(k) /\ k.op = "review" /\ k.at = "review" /\ k.began = writes /\ k.read = {}
      /\ k.todo = {}
      /\ "outcome" \in DOMAIN k
  BY DEF Merge, Request, Basic
<1> HIDE DEF k
<1>4. Carries(k, "review")
  BY <1>2 DEF Carries, CarriesPlayer, CarriesTrack, CarriesStep, CarriesKey, CarriesPair, CarriesPrivacy,
     CarriesMore, Tells, Told, Players, Controls, Tabs
<1>6. Typed(k) BY <1>2, <1>4 DEF Typed, Fits, StoreTyped
<1> QED BY <1>1, <1>2, <1>6, Begins DEF SupportOps

\* A review is made, or resolved.
LEMMA FindReviewTurns ==
  ASSUME StoreTyped, JobsTyped, NEW h \in Handlers, FindReview(h)
  PROVE  Turned(h, SupportOps)
<1> DEFINE j == job[h]
           deciding == j.outcome # "none"
<1>1. Typed(j) /\ j.at = "review" /\ j.op = "review" BY DEF JobsTyped, FindReview, Doing, Idle
<1>2. Basic(j) /\ Carries(j, "review") BY <1>1 DEF Typed, Fits
<1>3. \/ Become(h, Adding(j, Review(j.who, j.key, IF deciding THEN "resolved" ELSE "in_review", j.outcome), "end"))
      \/ Become(h, [j EXCEPT !.at = "end"])
      \/ ReviewOf(j.key) # 0 /\ Become(h,
           Updating(j, {Update(ReviewOf(j.key), [status |-> "resolved", decision |-> j.outcome])}, "end"))
  BY DEF FindReview
<1> HIDE DEF j, deciding
<1>4. CASE Become(h, Adding(j, Review(j.who, j.key, IF deciding THEN "resolved" ELSE "in_review", j.outcome),
             "end"))
 <2>1. NewRow(j, Review(j.who, j.key, IF deciding THEN "resolved" ELSE "in_review", j.outcome), "end")
   BY <1>1, <1>2, <1>4 DEF NewRow
 <2>2. Carries(j, "add") BY <1>1, <1>2, CarriesOn DEF Players, Controls, Lists, Tabs
 <2>3. Typed(Adding(j, Review(j.who, j.key, IF deciding THEN "resolved" ELSE "in_review", j.outcome), "end"))
         /\ Adding(j, Review(j.who, j.key, IF deciding THEN "resolved" ELSE "in_review", j.outcome),
         "end").op = j.op
   BY <1>1, <2>1, <2>2, Adds
 <2> QED BY <1>1, <1>2, <1>4, <2>3, GoesOn DEF SupportOps
<1>5. CASE Become(h, [j EXCEPT !.at = "end"]) BY <1>2, <1>5, Stops
<1>6. CASE ReviewOf(j.key) # 0 /\ Become(h,
             Updating(j, {Update(ReviewOf(j.key), [status |-> "resolved", decision |-> j.outcome])}, "end"))
 <2>0. ReviewOf(j.key) \in Rows /\ records[ReviewOf(j.key)].kind = "review"
   BY <1>6, ReviewOfFound, SequencePlaces DEF Sought, StoreTyped, Rows
 <2>1. {Update(ReviewOf(j.key), [status |-> "resolved", decision |-> j.outcome])} # {}
         /\ \A u \in {Update(ReviewOf(j.key), [status |-> "resolved", decision |-> j.outcome])} : Mend(j, u, "end")
   BY <1>1, <1>2, <1>6, <2>0 DEF Mend, Mends, Update
 <2>2. Carries(j, "update") BY <1>1, <1>2, CarriesOn DEF Players, Controls, Lists, Tabs
 <2>3. Typed(Updating(j, {Update(ReviewOf(j.key), [status |-> "resolved", decision |-> j.outcome])}, "end"))
         /\ Updating(j, {Update(ReviewOf(j.key), [status |-> "resolved", decision |-> j.outcome])},
         "end").op = j.op
   BY <1>1, <2>1, <2>2, Updates
 <2> QED BY <1>1, <1>2, <1>6, <2>3, GoesOn DEF SupportOps
<1> QED BY <1>3, <1>4, <1>5, <1>6

\* A review is appealed against.
LEMMA StartAppealTurns ==
  ASSUME StoreTyped, JobsTyped, NEW h \in Handlers, NEW i \in Rows, StartAppeal(h, i)
  PROVE  Turned(h, SupportOps)
<1> DEFINE k == Request("appeal", records[records[i].of].whom, i, "appeal")
<1>1. Begin(h, k) BY DEF StartAppeal
<1>2. /\ Basic(k) /\ k.op = "appeal" /\ k.at = "appeal" /\ k.began = writes /\ k.read = {}
      /\ k.todo = {}
      /\ k.key = i
  BY DEF Request, Basic
<1>3. IsReview(i) BY DEF StartAppeal, IsReview
<1> HIDE DEF k
<1>4. Carries(k, "appeal")
  BY <1>2, <1>3 DEF Carries, CarriesPlayer, CarriesTrack, CarriesStep, CarriesKey, CarriesPair,
     CarriesPrivacy, CarriesMore, Tells, Told, Players, Controls, Tabs
<1>6. Typed(k) BY <1>2, <1>4 DEF Typed, Fits, StoreTyped
<1> QED BY <1>1, <1>2, <1>6, Begins DEF SupportOps

\* An appeal is made, if there is none.
LEMMA FindAppealTurns ==
  ASSUME StoreTyped, JobsTyped, NEW h \in Handlers, FindAppeal(h)
  PROVE  Turned(h, SupportOps)
<1> DEFINE j == job[h]
<1>1. Typed(j) /\ j.at = "appeal" /\ j.op = "appeal" BY DEF JobsTyped, FindAppeal, Doing, Idle
<1>2. Basic(j) /\ Carries(j, "appeal") BY <1>1 DEF Typed, Fits
<1>3. \/ Become(h, [j EXCEPT !.at = "end"])
      \/ Become(h, Adding(j, Appeal(j.who, j.key), "end"))
  BY DEF FindAppeal
<1> HIDE DEF j
<1>4. CASE Become(h, [j EXCEPT !.at = "end"]) BY <1>2, <1>4, Stops
<1>5. CASE Become(h, Adding(j, Appeal(j.who, j.key), "end"))
 <2>1. NewRow(j, Appeal(j.who, j.key), "end") BY <1>1, <1>2, <1>5 DEF NewRow
 <2>2. Carries(j, "add") BY <1>1, <1>2, CarriesOn DEF Players, Controls, Lists, Tabs
 <2>3. Typed(Adding(j, Appeal(j.who, j.key), "end")) /\ Adding(j, Appeal(j.who, j.key), "end").op = j.op
   BY <1>1, <2>1, <2>2, Adds
 <2> QED BY <1>1, <1>2, <1>5, <2>3, GoesOn DEF SupportOps
<1> QED BY <1>3, <1>4, <1>5

\* An appeal is taken on.
LEMMA AssignAppealTurns ==
  ASSUME StoreTyped, JobsTyped, NEW h \in Handlers, NEW a, NEW i \in Rows, AssignAppeal(h, a, i)
  PROVE  Turned(h, SupportOps)
<1> DEFINE k == Updating(Request("assign", a, i, "update"),
             {Update(i, [status |-> "under_review", reviewer |-> a])}, "end")
<1>1. Begin(h, k) BY DEF AssignAppeal
<1>2. /\ Basic(k) /\ k.op = "assign" /\ k.at = "update" /\ k.began = writes /\ k.read = {}
      /\ k.todo = {Update(i, [status |-> "under_review", reviewer |-> a])} /\ k.then = "end"
  BY DEF Updating, Request, Basic
<1>3. records[i].kind = "appeal" /\ Mends("assign", "appeal", [status |-> "under_review", reviewer |-> a], "end")
 <2>1. records[i].kind = "appeal" BY DEF AssignAppeal, MayDecide
 <2>2. \E b : [status |-> "under_review", reviewer |-> a] = [status |-> "under_review", reviewer |-> b]
   OBVIOUS
 <2> QED BY <2>1, <2>2, Zenon DEF Mends
<1> HIDE DEF k
<1>4. Carries(k, "update") BY <1>2, <1>3, PlainCarries DEF Tells, CarriesPair, Told, Particular
<1>5. k.todo # {} /\ \A u \in k.todo : Mend(k, u, k.then) BY <1>2, <1>3 DEF Mend, Update
<1>6. Typed(k) BY <1>2, <1>4, <1>5 DEF Typed, Fits, StoreTyped
<1> QED BY <1>1, <1>2, <1>6, Begins DEF SupportOps

\* An appeal is decided.
LEMMA DecideAppealTurns ==
  ASSUME StoreTyped, JobsTyped, NEW h \in Handlers, NEW a, NEW i \in Rows, NEW outcome,
         DecideAppeal(h, a, i, outcome)
  PROVE  Turned(h, SupportOps)
<1> DEFINE k == Merge(Updating(Request("decide", a, i, "update"),
             {Update(i, [status |-> "resolved", reviewer |-> a, outcome |-> outcome])}, "review"),
             [outcome |-> outcome])
<1>1. Begin(h, k) BY DEF DecideAppeal
<1>2. /\ Basic(k) /\ k.op = "decide" /\ k.at = "update" /\ k.began = writes /\ k.read = {}
      /\ k.todo = {Update(i, [status |-> "resolved", reviewer |-> a, outcome |-> outcome])} /\ k.then = "review"
      /\ "outcome" \in DOMAIN k /\ k.key = i
 <2> DEFINE m == Updating(Request("decide", a, i, "update"),
              {Update(i, [status |-> "resolved", reviewer |-> a, outcome |-> outcome])}, "review")
            p == [outcome |-> outcome]
 <2>1. /\ DOMAIN m = {"op", "at", "key", "who", "began", "todo", "read", "then"}
       /\ m.op = "decide" /\ m.key = i /\ m.at = "update" /\ m.began = writes /\ m.read = {}
       /\ m.todo = {Update(i, [status |-> "resolved", reviewer |-> a, outcome |-> outcome])} /\ m.then = "review"
   BY DEF Updating, Request
 <2>2. DOMAIN p = {"outcome"} /\ k = Merge(m, p) OBVIOUS
 <2> HIDE DEF k, m, p
 <2> QED BY <2>1, <2>2 DEF Merge, Basic
<1>3. records[i].kind = "appeal"
        /\ Mends("decide", "appeal", [status |-> "resolved", reviewer |-> a, outcome |-> outcome], "review")
 <2>1. records[i].kind = "appeal" BY DEF DecideAppeal, MayDecide
 <2>2. \E b, c : [status |-> "resolved", reviewer |-> a, outcome |-> outcome] = [status |-> "resolved",
         reviewer |-> b, outcome |-> c]
   OBVIOUS
 <2> QED BY <2>1, <2>2, Zenon DEF Mends
<1> HIDE DEF k
<1>4. Carries(k, "update")
  BY <1>2, <1>3 DEF Carries, CarriesPlayer, CarriesTrack, CarriesStep, CarriesKey, CarriesPair,
     CarriesPrivacy, CarriesMore, Tells, Told, Players, Controls, Tabs
<1>5. k.todo # {} /\ \A u \in k.todo : Mend(k, u, k.then) BY <1>2, <1>3 DEF Mend, Update
<1>6. Typed(k) BY <1>2, <1>4, <1>5 DEF Typed, Fits, StoreTyped
<1> QED BY <1>1, <1>2, <1>6, Begins DEF SupportOps

\* What was appealed against is told.
LEMMA ChangeReviewTurns ==
  ASSUME StoreTyped, JobsTyped, NEW h \in Handlers, ChangeReview(h)
  PROVE  Turned(h, SupportOps)
<1> DEFINE j == job[h]
           of == records[j.key].of
           patch == IF j.outcome = "overturned" THEN [appealed |-> TRUE, decision |-> "overturned"]
                    ELSE [appealed |-> TRUE]
<1>1. Typed(j) /\ j.at = "review" /\ j.op = "decide" BY DEF JobsTyped, ChangeReview, Doing, Idle
<1>2. Carries(j, "review") BY <1>1 DEF Typed
<1>3. Become(h, Updating(j, {Update(of, patch)}, "end")) BY Zenon DEF ChangeReview
<1>4. IsReview(of) BY <1>1, <1>2 DEF Carries, CarriesKey, StoreTyped, Refers
<1>5. patch \in {[appealed |-> TRUE, decision |-> "overturned"], [appealed |-> TRUE]}
        /\ "current" \notin DOMAIN patch
  OBVIOUS
<1> HIDE DEF j, of, patch
<1>6. Mend(j, Update(of, patch), "end")
 <2>1. Mends("decide", "review", patch, "end") BY <1>5 DEF Mends
 <2> QED BY <1>1, <1>4, <1>5, <2>1 DEF Mend, Update, IsReview
<1>7. Carries(j, "update") BY <1>1, <1>2, CarriesOn DEF Players, Controls
<1> QED BY <1>1, <1>3, <1>6, <1>7, Amends DEF SupportOps

\* Whatever the support does.
LEMMA SupportTurns ==
  ASSUME StoreTyped, JobsTyped, NEW h \in Handlers, SupportStep(h) \/ SupportRequest(h)
  PROVE  Turned(h, SupportOps)
<1>1. CASE SupportStep(h)
  BY <1>1, AnswerReplyTurns, FindReviewTurns, FindAppealTurns, ChangeReviewTurns DEF SupportStep
<1>2. CASE SupportRequest(h)
 <2>1. CASE \E a, b \in Accounts : OpenTicket(h, a) \/ OpenReport(h, a, b)
   BY <2>1, OpenTicketTurns, OpenReportTurns
 <2>2. CASE \E i \in Rows : Attach(h, i) \/ StartAppeal(h, i) BY <2>2, AttachTurns, StartAppealTurns
 <2>3. CASE \E a \in OnDuty, i \in Rows : Reply(h, a, i) \/ Escalate(h, a, i) \/ AssignAppeal(h, a, i)
   BY <2>3, ReplyTurns, EscalateTurns, AssignAppealTurns
 <2>4. CASE \E a \in OnDuty, i \in Rows, status \in DOMAIN Transitions : SetStatus(h, a, i, status)
   BY <2>4, SetStatusTurns
 <2>5. CASE \E a \in OnDuty, i \in Rows, outcome \in Outcomes \cup {"none"} : StartReview(h, a, i, outcome)
   BY <2>5, StartReviewTurns
 <2>6. CASE \E a \in OnDuty, i \in Rows, outcome \in {"upheld", "overturned"} : DecideAppeal(h, a, i, outcome)
   BY <2>6, DecideAppealTurns
 <2> QED BY <1>2, <2>1, <2>2, <2>3, <2>4, <2>5, <2>6 DEF SupportRequest, Rows
<1> QED BY <1>1, <1>2
-----------------------------
\* Requests of sessions, of views, of staff.
SessionOps == {"login", "call", "delete", "logout"}
ViewOps == Lists \cup Tabs \cup {"full"}
AdminOps == {"suspend", "unsuspend", "closeRoom"}

\* What a request that logs in, or has, carries.
LEMMA LoginCarries ==
  ASSUME NEW k, NEW at, k.op = "login", CarriesStep(k, at)
  PROVE  Carries(k, at)
<1>1. Tells(k) /\ CarriesKey(k) /\ CarriesPair(k) /\ CarriesPrivacy(k)
  BY DEF Tells, Told, CarriesKey, CarriesPair, CarriesPrivacy
<1>2. CarriesPlayer(k, at) /\ CarriesMore(k)
  BY DEF Players, Controls, CarriesPlayer, CarriesTrack, CarriesMore, Tabs
<1> QED BY <1>1, <1>2 DEF Carries

\* A login, or a call, goes on, as k, or ends.
LEMMA SessionGoesOn ==
  ASSUME StoreTyped, JobsTyped, NEW h \in Handlers, NEW k, NEW at,
         job[h].op \in SessionOps, job[h] # Idle, job[h].at \notin {"add", "update"},
         Basic(k), DOMAIN job[h] \subseteq DOMAIN k, k.at = at,
         \A f \in DOMAIN job[h] : f \notin {"who", "at"} => k[f] = job[h][f],
         Become(h, k) \/ Wrote(h, k),
         \/ at = "end"
         \/ at \in {"forget", "identity", "create", "bind", "session"} /\ job[h].op = "login"
              /\ (at = "forget" => job[h].at = "count")
         \/ at = "do" /\ job[h].op \in {"delete", "logout"}
         \/ at = "revokeAll" /\ job[h].op = "delete"
  PROVE  Turned(h, SessionOps)
<1> DEFINE j == job[h]
<1>1. Typed(j) BY DEF JobsTyped
<1>2. Basic(j) /\ Carries(j, j.at) /\ j.todo = {} /\ j.read = {} /\ j.began \in Nat /\ j.began <= writes
  BY <1>1 DEF Typed
<1>3. k.op = j.op /\ k.began = j.began /\ k.todo = {} /\ k.read = {} BY <1>2 DEF Basic
<1> HIDE DEF j
<1>4. CASE at = "end" BY <1>4, GoesOn
<1>5. CASE at # "end" /\ j.op = "login"
 <2>1. CarriesStep(k, at) BY <1>2, <1>3, <1>5 DEF Carries, CarriesStep, j
 <2>2. Carries(k, at) BY <1>3, <1>5, <2>1, LoginCarries
 <2>3. Fits(k.op, at) BY <1>3, <1>5 DEF Fits, j
 <2>4. Typed(k) BY <1>2, <1>3, <1>5, <2>2, <2>3 DEF Typed, j
 <2> QED BY <1>3, <1>5, <2>4, GoesOn DEF SessionOps
<1>6. CASE at # "end" /\ j.op # "login"
 <2>1. "ended" \in DOMAIN k /\ k.op \in {"delete", "logout"} /\ at \in {"do", "revokeAll"}
   BY <1>2, <1>3, <1>6 DEF Carries, CarriesMore, j
 <2>2. Carries(k, at)
   BY <2>1 DEF Carries, CarriesPlayer, CarriesTrack, CarriesStep, CarriesKey, CarriesPair, CarriesPrivacy,
      CarriesMore, Tells, Told, Players, Controls, Tabs
 <2>3. Fits(k.op, at) BY <1>3, <1>6, <2>1 DEF Fits, j
 <2>4. Typed(k) BY <1>2, <1>3, <1>6, <2>1, <2>2, <2>3 DEF Typed
 <2> QED BY <1>3, <2>1, <2>4, GoesOn DEF SessionOps
<1> QED BY <1>4, <1>5, <1>6

\* A request that is one statement turns nothing.
LEMMA WroteOnceTurns ==
  ASSUME StoreTyped, JobsTyped, NEW h \in Handlers, WroteOnce(h)
  PROVE  Turned(h, SessionOps)
  BY DEF WroteOnce, Once, StoreTyped, Turned

\* A code is shown.
LEMMA StartVerifyTurns ==
  ASSUME StoreTyped, JobsTyped, NEW h \in Handlers, NEW p, NEW right, StartVerify(h, p, right)
  PROVE  Turned(h, SessionOps)
<1> DEFINE k == Merge(Request("login", NoAccount, p, "count"),
             [challenge |-> challenges[p], right |-> right, by |-> accepted])
<1>1. Begin(h, k) BY DEF StartVerify
<1>2. /\ Basic(k) /\ k.op = "login" /\ k.at = "count" /\ k.began = writes /\ k.read = {} /\ k.todo = {}
      /\ {"challenge", "right", "by"} \subseteq DOMAIN k
  BY DEF Request, Merge, Basic
<1> HIDE DEF k
<1>3. Carries(k, "count")
  BY <1>2 DEF Carries, CarriesPlayer, CarriesTrack, CarriesStep, CarriesKey, CarriesPair, CarriesPrivacy,
     CarriesMore, Tells, Told, Players, Controls, Tabs
<1>4. Typed(k) BY <1>2, <1>3 DEF Typed, Fits, StoreTyped
<1> QED BY <1>1, <1>2, <1>4, Begins DEF SessionOps

\* A social login begins.
LEMMA StartSocialTurns ==
  ASSUME StoreTyped, JobsTyped, NEW h \in Handlers, NEW p, StartSocial(h, p)
  PROVE  Turned(h, SessionOps)
<1> DEFINE k == Request("login", NoAccount, p, "identity")
<1>1. Begin(h, k) BY DEF StartSocial
<1>2. /\ Basic(k) /\ k.op = "login" /\ k.at = "identity" /\ k.began = writes /\ k.read = {} /\ k.todo = {}
  BY DEF Request, Merge, Basic
<1> HIDE DEF k
<1>3. Carries(k, "identity")
  BY <1>2 DEF Carries, CarriesPlayer, CarriesTrack, CarriesStep, CarriesKey, CarriesPair, CarriesPrivacy,
     CarriesMore, Tells, Told, Players, Controls, Tabs
<1>4. Typed(k) BY <1>2, <1>3 DEF Typed, Fits, StoreTyped
<1> QED BY <1>1, <1>2, <1>4, Begins DEF SessionOps

\* A request comes with a session.
LEMMA StartCallTurns ==
  ASSUME StoreTyped, JobsTyped, NEW h \in Handlers, NEW op \in {"call", "delete", "logout"}, NEW n, NEW s,
         StartCall(h, op, n, s)
  PROVE  Turned(h, SessionOps)
<1> DEFINE k == Merge(Request(op, sessions[n].account, n, "account"), [ended |-> s])
<1>1. Begin(h, k) BY DEF StartCall
<1>2. /\ Basic(k) /\ k.op = op /\ k.at = "account" /\ k.began = writes /\ k.read = {} /\ k.todo = {}
      /\ "ended" \in DOMAIN k
  BY DEF Request, Merge, Basic
<1> HIDE DEF k
<1>3. Carries(k, "account")
  BY <1>2 DEF Carries, CarriesPlayer, CarriesTrack, CarriesStep, CarriesKey, CarriesPair, CarriesPrivacy,
     CarriesMore, Tells, Told, Players, Controls, Tabs
<1>4. Typed(k) BY <1>2, <1>3 DEF Typed, Fits, StoreTyped
<1> QED BY <1>1, <1>2, <1>4, Begins DEF SessionOps

\* An attempt is counted.
LEMMA CountAttemptTurns ==
  ASSUME StoreTyped, JobsTyped, NEW h \in Handlers, CountAttempt(h)
  PROVE  Turned(h, SessionOps)
<1> DEFINE j == job[h]
<1>1. j # Idle /\ Typed(j) /\ j.at = "count" /\ j.op = "login" BY DEF JobsTyped, CountAttempt, Doing, Idle
<1>2. Basic(j) BY <1>1 DEF Typed
<1> DEFINE k == [j EXCEPT !.at = IF j.right THEN "forget" ELSE "end"]
<1>3. Wrote(h, k) BY DEF CountAttempt
<1>4. /\ Basic(k) /\ DOMAIN j \subseteq DOMAIN k /\ k.at \in {"forget", "end"}
      /\ \A f \in DOMAIN j : f \notin {"who", "at"} => k[f] = j[f]
  BY <1>2 DEF Basic
<1> HIDE DEF k
<1> QED BY <1>1, <1>3, <1>4, SessionGoesOn DEF SessionOps

\* A code that was right is forgotten.
LEMMA ForgetChallengeTurns ==
  ASSUME StoreTyped, JobsTyped, NEW h \in Handlers, ForgetChallenge(h)
  PROVE  Turned(h, SessionOps)
<1> DEFINE j == job[h]
<1>1. j # Idle /\ Typed(j) /\ j.at = "forget" /\ j.op = "login"
  BY DEF JobsTyped, ForgetChallenge, Doing, Idle
<1>2. Basic(j) BY <1>1 DEF Typed
<1> DEFINE k == [j EXCEPT !.at = "identity"]
<1>3. Wrote(h, k) BY DEF ForgetChallenge
<1>4. /\ Basic(k) /\ DOMAIN j \subseteq DOMAIN k /\ k.at \in {"identity"}
      /\ \A f \in DOMAIN j : f \notin {"who", "at"} => k[f] = j[f]
  BY <1>2 DEF Basic
<1> HIDE DEF k
<1> QED BY <1>1, <1>3, <1>4, SessionGoesOn DEF SessionOps

\* The account of a phone is looked for.
LEMMA FindIdentityTurns ==
  ASSUME StoreTyped, JobsTyped, NEW h \in Handlers, FindIdentity(h)
  PROVE  Turned(h, SessionOps)
<1> DEFINE j == job[h]
<1>1. j # Idle /\ Typed(j) /\ j.at = "identity" /\ j.op = "login"
  BY DEF JobsTyped, FindIdentity, Doing, Idle
<1>2. Basic(j) BY <1>1 DEF Typed
<1> DEFINE k == [j EXCEPT !.who = identities[j.key],
             !.at = IF identities[j.key] = NoAccount THEN "create" ELSE "session"]
<1>3. Become(h, k) BY DEF FindIdentity
<1>4. /\ Basic(k) /\ DOMAIN j \subseteq DOMAIN k /\ k.at \in {"create", "session"}
      /\ \A f \in DOMAIN j : f \notin {"who", "at"} => k[f] = j[f]
  BY <1>2 DEF Basic
<1> HIDE DEF k
<1> QED BY <1>1, <1>3, <1>4, SessionGoesOn DEF SessionOps

\* An account is made.
LEMMA CreateAccountTurns ==
  ASSUME StoreTyped, JobsTyped, NEW h \in Handlers, CreateAccount(h)
  PROVE  Turned(h, SessionOps)
<1> DEFINE j == job[h]
<1>1. j # Idle /\ Typed(j) /\ j.at = "create" /\ j.op = "login" BY DEF JobsTyped, CreateAccount, Doing, Idle
<1>2. Basic(j) BY <1>1 DEF Typed
<1>5. PICK a \in Accounts : Wrote(h, [j EXCEPT !.who = a, !.at = "bind"]) BY Zenon DEF CreateAccount
<1> DEFINE k == [j EXCEPT !.who = a, !.at = "bind"]
<1>3. Wrote(h, k) BY <1>5 DEF CreateAccount
<1>4. /\ Basic(k) /\ DOMAIN j \subseteq DOMAIN k /\ k.at \in {"bind"}
      /\ \A f \in DOMAIN j : f \notin {"who", "at"} => k[f] = j[f]
  BY <1>2 DEF Basic
<1> HIDE DEF k
<1> QED BY <1>1, <1>3, <1>4, SessionGoesOn DEF SessionOps

\* An account is bound to its phone.
LEMMA BindIdentityTurns ==
  ASSUME StoreTyped, JobsTyped, NEW h \in Handlers, BindIdentity(h)
  PROVE  Turned(h, SessionOps)
<1> DEFINE j == job[h]
<1>1. j # Idle /\ Typed(j) /\ j.at = "bind" /\ j.op = "login" BY DEF JobsTyped, BindIdentity, Doing, Idle
<1>2. Basic(j) BY <1>1 DEF Typed
<1> DEFINE k == [j EXCEPT !.at = "session"]
<1>3. Wrote(h, k) BY DEF BindIdentity
<1>4. /\ Basic(k) /\ DOMAIN j \subseteq DOMAIN k /\ k.at \in {"session"}
      /\ \A f \in DOMAIN j : f \notin {"who", "at"} => k[f] = j[f]
  BY <1>2 DEF Basic
<1> HIDE DEF k
<1> QED BY <1>1, <1>3, <1>4, SessionGoesOn DEF SessionOps

\* A session is made.
LEMMA CreateSessionTurns ==
  ASSUME StoreTyped, JobsTyped, NEW h \in Handlers, CreateSession(h)
  PROVE  Turned(h, SessionOps)
<1> DEFINE j == job[h]
<1>1. j # Idle /\ Typed(j) /\ j.at = "session" /\ j.op = "login"
  BY DEF JobsTyped, CreateSession, Doing, Idle
<1>2. Basic(j) BY <1>1 DEF Typed
<1> DEFINE k == [j EXCEPT !.at = "end"]
<1>3. Wrote(h, k) BY DEF CreateSession
<1>4. /\ Basic(k) /\ DOMAIN j \subseteq DOMAIN k /\ k.at \in {"end"}
      /\ \A f \in DOMAIN j : f \notin {"who", "at"} => k[f] = j[f]
  BY <1>2 DEF Basic
<1> HIDE DEF k
<1> QED BY <1>1, <1>3, <1>4, SessionGoesOn DEF SessionOps

\* A session is revoked.
LEMMA RevokeSessionTurns ==
  ASSUME StoreTyped, JobsTyped, NEW h \in Handlers, RevokeSession(h)
  PROVE  Turned(h, SessionOps)
<1> DEFINE j == job[h]
<1>1. j # Idle /\ Typed(j) /\ j.at = "do" /\ j.op = "logout" BY DEF JobsTyped, RevokeSession, Doing, Idle
<1>2. Basic(j) BY <1>1 DEF Typed
<1> DEFINE k == [j EXCEPT !.at = "end"]
<1>3. Wrote(h, k) BY DEF RevokeSession
<1>4. /\ Basic(k) /\ DOMAIN j \subseteq DOMAIN k /\ k.at \in {"end"}
      /\ \A f \in DOMAIN j : f \notin {"who", "at"} => k[f] = j[f]
  BY <1>2 DEF Basic
<1> HIDE DEF k
<1> QED BY <1>1, <1>3, <1>4, SessionGoesOn DEF SessionOps

\* An account is deleted.
LEMMA SoftDeleteTurns ==
  ASSUME StoreTyped, JobsTyped, NEW h \in Handlers, SoftDelete(h)
  PROVE  Turned(h, SessionOps)
<1> DEFINE j == job[h]
<1>1. j # Idle /\ Typed(j) /\ j.at = "do" /\ j.op = "delete" BY DEF JobsTyped, SoftDelete, Doing, Idle
<1>2. Basic(j) BY <1>1 DEF Typed
<1> DEFINE k == [j EXCEPT !.at = "revokeAll"]
<1>3. Wrote(h, k) BY DEF SoftDelete
<1>4. /\ Basic(k) /\ DOMAIN j \subseteq DOMAIN k /\ k.at \in {"revokeAll"}
      /\ \A f \in DOMAIN j : f \notin {"who", "at"} => k[f] = j[f]
  BY <1>2 DEF Basic
<1> HIDE DEF k
<1> QED BY <1>1, <1>3, <1>4, SessionGoesOn DEF SessionOps

\* All sessions of an account are revoked.
LEMMA RevokeAllSessionsTurns ==
  ASSUME StoreTyped, JobsTyped, NEW h \in Handlers, RevokeAllSessions(h)
  PROVE  Turned(h, SessionOps)
<1> DEFINE j == job[h]
<1>1. j # Idle /\ Typed(j) /\ j.at = "revokeAll" /\ j.op = "delete"
  BY DEF JobsTyped, RevokeAllSessions, Doing, Idle
<1>2. Basic(j) BY <1>1 DEF Typed
<1> DEFINE k == [j EXCEPT !.at = "end"]
<1>3. Wrote(h, k) BY DEF RevokeAllSessions
<1>4. /\ Basic(k) /\ DOMAIN j \subseteq DOMAIN k /\ k.at \in {"end"}
      /\ \A f \in DOMAIN j : f \notin {"who", "at"} => k[f] = j[f]
  BY <1>2 DEF Basic
<1> HIDE DEF k
<1> QED BY <1>1, <1>3, <1>4, SessionGoesOn DEF SessionOps

\* The account of a session is looked at.
LEMMA CheckAccountTurns ==
  ASSUME StoreTyped, JobsTyped, NEW h \in Handlers, CheckAccount(h)
  PROVE  Turned(h, SessionOps)
<1> DEFINE j == job[h]
<1>1. j # Idle /\ Typed(j) /\ j.at = "account" BY DEF JobsTyped, CheckAccount, Idle
<1>2. Basic(j) /\ j.op \in {"call", "delete", "logout"} BY <1>1 DEF Typed, Fits
<1>3. PICK at \in {"end", "do"} : Become(h, [j EXCEPT !.at = at]) /\ (at = "do" => j.op # "call")
  BY DEF CheckAccount, Serve
<1> DEFINE k == [j EXCEPT !.at = at]
<1>4. /\ Basic(k) /\ DOMAIN j \subseteq DOMAIN k /\ k.at = at /\ Become(h, k)
      /\ \A f \in DOMAIN j : f \notin {"who", "at"} => k[f] = j[f]
  BY <1>2, <1>3 DEF Basic
<1> HIDE DEF k
<1> QED BY <1>1, <1>2, <1>3, <1>4, SessionGoesOn DEF SessionOps

\* Whatever sessions do.
LEMMA SessionTurns ==
  ASSUME StoreTyped, JobsTyped, NEW h \in Handlers, SessionStep(h) \/ SessionRequest(h)
  PROVE  Turned(h, SessionOps)
<1>1. CASE SessionStep(h)
  BY <1>1, CountAttemptTurns, ForgetChallengeTurns, FindIdentityTurns, CreateAccountTurns,
     BindIdentityTurns, CreateSessionTurns, CheckAccountTurns, RevokeSessionTurns, SoftDeleteTurns,
     RevokeAllSessionsTurns DEF SessionStep
<1>2. CASE SessionRequest(h)
 <2>1. CASE \E p \in Phones : IssueOtp(h, p) BY <2>1, WroteOnceTurns DEF IssueOtp
 <2>2. CASE \E p \in Phones : StartSocial(h, p) \/ \E right \in BOOLEAN : StartVerify(h, p, right)
   BY <2>2, StartSocialTurns, StartVerifyTurns
 <2>3. CASE \E n \in 1..Len(sessions), op \in {"call", "delete"} : StartCall(h, op, n, n)
   BY <2>3, StartCallTurns
 <2>4. CASE \E n, s \in 1..Len(sessions) : StartCall(h, "logout", n, s) BY <2>4, StartCallTurns
 <2> QED BY <1>2, <2>1, <2>2, <2>3, <2>4 DEF SessionRequest
<1> QED BY <1>1, <1>2
-----------------------------
\* What a request to see something carries.
LEMMA ViewCarries ==
  ASSUME NEW k, NEW at, k.op \in Lists \cup {"full"}, at \notin {"push", "prune", "post"},
         at = "circle" => "visible" \in DOMAIN k
  PROVE  Carries(k, at)
<1>1. k.op \in {"friends", "follows", "full"} BY DEF Lists
<1>2. Tells(k) /\ CarriesKey(k) /\ CarriesPair(k) /\ CarriesPrivacy(k)
  BY <1>1 DEF Tells, Told, CarriesKey, CarriesPair, CarriesPrivacy
<1>3. CarriesPlayer(k, at) /\ CarriesMore(k) /\ CarriesStep(k, at)
  BY <1>1 DEF Players, Controls, CarriesPlayer, CarriesTrack, CarriesMore, Tabs, CarriesStep
<1> QED BY <1>2, <1>3 DEF Carries

\* What a request for the feed carries.
LEMMA FeedCarries ==
  ASSUME NEW k, NEW at, k.op \in Tabs, at \notin {"push", "prune", "post", "circle"},
         {"lists", "visible", "live", "followed"} \subseteq DOMAIN k, k.lists \subseteq Listings(k.op)
  PROVE  Carries(k, at)
<1>1. k.op \in {"new", "live", "following"} BY DEF Tabs
<1>2. Tells(k) /\ CarriesKey(k) /\ CarriesPair(k) /\ CarriesPrivacy(k)
  BY <1>1 DEF Tells, Told, CarriesKey, CarriesPair, CarriesPrivacy
<1>3. CarriesPlayer(k, at) /\ CarriesMore(k) /\ CarriesStep(k, at)
  BY <1>1 DEF Players, Controls, CarriesPlayer, CarriesTrack, CarriesMore, Tabs, CarriesStep
<1> QED BY <1>2, <1>3 DEF Carries

\* Somebody is to be looked at.
LEMMA StartViewTurns ==
  ASSUME StoreTyped, JobsTyped, NEW h \in Handlers, NEW op \in Lists \cup {"full"}, NEW a, NEW b,
         StartView(h, op, a, b)
  PROVE  Turned(h, ViewOps)
<1> DEFINE k == Request(op, a, b, "look")
<1>1. Begin(h, k) BY DEF StartView
<1>2. Basic(k) /\ k.op = op /\ k.at = "look" /\ k.began = writes /\ k.read = {} /\ k.todo = {}
  BY DEF Request, Basic
<1> HIDE DEF k
<1>3. Carries(k, "look") BY <1>2, ViewCarries
<1>4. Typed(k) BY <1>2, <1>3 DEF Typed, Fits, StoreTyped
<1> QED BY <1>1, <1>2, <1>4, Begins DEF ViewOps

\* The profile is looked at.
LEMMA LookAtProfileTurns ==
  ASSUME StoreTyped, JobsTyped, NEW h \in Handlers, LookAtProfile(h)
  PROVE  Turned(h, ViewOps)
<1> DEFINE j == job[h]
           k == Merge(j, [at |-> "circle", visible |-> PrivacyOf(Profile(j.key)).visible])
<1>1. Typed(j) /\ j.at = "look" BY DEF JobsTyped, LookAtProfile, Idle
<1>2. Basic(j) /\ j.op \in Lists \cup {"full"} /\ j.todo = {} /\ j.read = {} /\ j.began \in Nat /\ j.began <= writes
  BY <1>1 DEF Typed, Fits
<1>3. Become(h, k) BY DEF LookAtProfile
<1>4. Basic(k) /\ k.op = j.op /\ k.at = "circle" /\ k.began = j.began /\ k.todo = {} /\ k.read = {}
      /\ "visible" \in DOMAIN k
  BY <1>2 DEF Merge, Basic
<1> HIDE DEF j, k
<1>5. Carries(k, "circle") BY <1>2, <1>4, ViewCarries
<1>6. Typed(k) BY <1>2, <1>4, <1>5 DEF Typed, Fits
<1> QED BY <1>2, <1>3, <1>4, <1>6, GoesOn DEF ViewOps

\* A profile is answered.
LEMMA AnswerFullTurns ==
  ASSUME StoreTyped, JobsTyped, NEW h \in Handlers, AnswerFull(h)
  PROVE  Turned(h, ViewOps)
<1>1. Become(h, [job[h] EXCEPT !.at = "end"]) /\ Typed(job[h]) BY DEF AnswerFull, Doing, JobsTyped, Idle
<1> QED BY <1>1, Stops DEF Typed

\* A list is answered.
LEMMA ListFollowsTurns ==
  ASSUME StoreTyped, JobsTyped, NEW h \in Handlers, ListFollows(h)
  PROVE  Turned(h, ViewOps)
<1>1. Become(h, [job[h] EXCEPT !.at = "end"]) /\ Typed(job[h]) BY DEF ListFollows, JobsTyped, Idle
<1> QED BY <1>1, Stops DEF Typed

\* A list is refused, or made, or made of what is read next.
LEMMA PassGateTurns ==
  ASSUME StoreTyped, JobsTyped, NEW h \in Handlers, PassGate(h)
  PROVE  Turned(h, ViewOps)
<1> DEFINE j == job[h]
<1>1. Typed(j) /\ j.at = "circle" /\ j.op \in Lists BY DEF JobsTyped, PassGate, Idle
<1>2. Become(h, [j EXCEPT !.at = "end"]) \/ Become(h, [j EXCEPT !.at = "list"]) BY DEF PassGate
<1> HIDE DEF j
<1>3. CASE Become(h, [j EXCEPT !.at = "end"]) BY <1>1, <1>3, Stops DEF Typed
<1>4. CASE Become(h, [j EXCEPT !.at = "list"])
 <2>1. Carries(j, "list") /\ Fits(j.op, "list") BY <1>1, ViewCarries DEF Fits
 <2>2. Typed([j EXCEPT !.at = "list"]) /\ [j EXCEPT !.at = "list"].op = j.op BY <1>1, <2>1, Moves
 <2> QED BY <1>1, <1>4, <2>2, GoesOn DEF ViewOps
<1> QED BY <1>2, <1>3, <1>4

\* A search changes no record.
LEMMA SearchTurns ==
  ASSUME StoreTyped, JobsTyped, NEW h \in Handlers, NEW a, Search(h, a)
  PROVE  Turned(h, ViewOps)
  BY DEF Search, Once, StoreTyped, Turned

\* The feed is asked for.
LEMMA StartFeedTurns ==
  ASSUME StoreTyped, JobsTyped, NEW h \in Handlers, NEW a, NEW tab \in Tabs, StartFeed(h, a, tab)
  PROVE  Turned(h, ViewOps)
<1> DEFINE k == Merge(Request(tab, a, a, "feed"),
             [lists |-> Listings(tab), visible |-> FALSE, live |-> FALSE, followed |-> FALSE])
<1>1. Begin(h, k) BY DEF StartFeed
<1>2. Basic(k) /\ k.op = tab /\ k.at = "feed" /\ k.began = writes /\ k.read = {} /\ k.todo = {}
      /\ {"lists", "visible", "live", "followed"} \subseteq DOMAIN k /\ k.lists = Listings(tab)
  BY DEF Request, Merge, Basic
<1> HIDE DEF k
<1>3. Carries(k, "feed") BY <1>2, FeedCarries
<1>4. Typed(k) BY <1>2, <1>3 DEF Typed, Fits, StoreTyped
<1> QED BY <1>1, <1>2, <1>4, Begins DEF ViewOps

\* A listing of the feed is read.
LEMMA ReadListingTurns ==
  ASSUME StoreTyped, JobsTyped, NEW h \in Handlers, ReadListing(h)
  PROVE  Turned(h, ViewOps)
<1> DEFINE j == job[h]
<1>1. Typed(j) /\ j.at = "feed" BY DEF JobsTyped, ReadListing, Idle
<1>2. Basic(j) /\ j.op \in Tabs /\ Carries(j, "feed") /\ j.todo = {} /\ j.read = {} /\ j.began \in Nat
        /\ j.began <= writes
  BY <1>1 DEF Typed, Fits
<1>3. {"lists", "visible", "live", "followed"} \subseteq DOMAIN j /\ j.lists \subseteq Listings(j.op)
  BY <1>2 DEF Carries, CarriesMore
<1>4. PICK list \in j.lists :
        Become(h, CASE list = "rooms" -> [j EXCEPT !.lists = @ \ {list}, !.visible = VisibleTo(j.who, records[1])]
                    [] list = "members" -> [j EXCEPT !.lists = @ \ {list}, !.live = Live]
                    [] list = "follows" -> [j EXCEPT !.lists = @ \ {list},
                                              !.followed = ActiveRelation("follow", j.who, RoomOwner) # 0])
  BY Zenon DEF ReadListing
<1>5. list \in {"rooms", "members", "follows"} BY <1>3 DEF Listings
<1> DEFINE k == CASE list = "rooms" -> [j EXCEPT !.lists = @ \ {list}, !.visible = VisibleTo(j.who, records[1])]
                  [] list = "members" -> [j EXCEPT !.lists = @ \ {list}, !.live = Live]
                  [] list = "follows" -> [j EXCEPT !.lists = @ \ {list},
                                            !.followed = ActiveRelation("follow", j.who, RoomOwner) # 0]
<1>6. /\ DOMAIN k = DOMAIN j /\ k.op = j.op /\ k.at = j.at /\ k.began = j.began /\ k.todo = {} /\ k.read = {}
      /\ k.lists \subseteq j.lists
  BY <1>2, <1>3, <1>5 DEF Basic
<1> HIDE DEF j, k
<1>7. Basic(k) /\ Carries(k, "feed") BY <1>2, <1>3, <1>6, FeedCarries DEF Basic
<1>8. Typed(k) BY <1>1, <1>2, <1>6, <1>7 DEF Typed, Fits
<1> QED BY <1>2, <1>4, <1>6, <1>8, GoesOn DEF ViewOps, k

\* The feed is answered.
LEMMA AnswerFeedTurns ==
  ASSUME StoreTyped, JobsTyped, NEW h \in Handlers, AnswerFeed(h)
  PROVE  Turned(h, ViewOps)
<1>1. Become(h, [job[h] EXCEPT !.at = "end"]) /\ Typed(job[h]) BY DEF AnswerFeed, JobsTyped, Idle
<1> QED BY <1>1, Stops DEF Typed

\* Whatever views do.
LEMMA ViewTurns ==
  ASSUME StoreTyped, JobsTyped, NEW h \in Handlers, ViewStep(h) \/ FeedStep(h) \/ ViewRequest(h) \/ FeedRequest(h)
  PROVE  Turned(h, ViewOps)
<1>1. CASE ViewStep(h) \/ FeedStep(h)
  BY <1>1, LookAtProfileTurns, AnswerFullTurns, PassGateTurns, ListFollowsTurns, ReadListingTurns,
     AnswerFeedTurns DEF ViewStep, FeedStep
<1>2. CASE ViewRequest(h) \/ FeedRequest(h)
  BY <1>2, SearchTurns, StartViewTurns, StartFeedTurns DEF ViewRequest, FeedRequest
<1> QED BY <1>1, <1>2
-----------------------------
\* What a request of staff carries.
LEMMA StaffCarries ==
  ASSUME NEW k, NEW at, k.op \in AdminOps, "nth" \in DOMAIN k, at \notin {"push", "prune", "post", "circle"}
  PROVE  Carries(k, at)
<1>1. Tells(k) /\ CarriesKey(k) /\ CarriesPair(k) /\ CarriesPrivacy(k)
  BY DEF AdminOps, Tells, Told, CarriesKey, CarriesPair, CarriesPrivacy
<1>2. CarriesPlayer(k, at) /\ CarriesMore(k) /\ CarriesStep(k, at)
  BY DEF AdminOps, Players, Controls, CarriesPlayer, CarriesTrack, CarriesMore, Tabs, CarriesStep
<1> QED BY <1>1, <1>2 DEF Carries

\* A suspension, or its end, begins.
LEMMA StartSuspendTurns ==
  ASSUME StoreTyped, JobsTyped, NEW h \in Handlers, NEW op \in DOMAIN Needed, NEW by, NEW a,
         StartSuspend(h, op, by, a)
  PROVE  Turned(h, AdminOps)
<1> DEFINE k == Numbered(Request(op, by, a, "set"))
<1>1. Begin(h, k) BY DEF StartSuspend
<1>2. Basic(k) /\ k.op = op /\ k.at = "set" /\ k.began = writes /\ k.read = {} /\ k.todo = {} /\ "nth" \in DOMAIN k
  BY DEF Numbered, Request, Merge, Basic
<1>3. op \in {"suspend", "unsuspend"} BY DEF Needed
<1> HIDE DEF k
<1>4. Carries(k, "set") BY <1>2, <1>3, StaffCarries DEF AdminOps
<1>5. Typed(k) BY <1>2, <1>3, <1>4 DEF Typed, Fits, StoreTyped
<1> QED BY <1>1, <1>2, <1>3, <1>5, Begins DEF AdminOps

\* Staff close the room.
LEMMA CloseRoomTurns ==
  ASSUME StoreTyped, JobsTyped, NEW h \in Handlers, NEW by, Len(records) > 0, records[1].kind = "room",
         CloseRoom(h, by)
  PROVE  Turned(h, AdminOps)
<1> DEFINE m == Updating(Request("closeRoom", by, 1, "update"), {Update(1, [status |-> "closed"])}, "audit")
           p == [nth |-> accepted]
           k == Numbered(m)
<1>1. Begin(h, k) BY DEF CloseRoom
<1>2. /\ DOMAIN m = {"op", "at", "key", "who", "began", "todo", "read", "then"}
      /\ m.op = "closeRoom" /\ m.at = "update" /\ m.began = writes /\ m.read = {}
      /\ m.todo = {Update(1, [status |-> "closed"])} /\ m.then = "audit"
  BY DEF Updating, Request
<1>3. DOMAIN p = {"nth"} /\ k = Merge(m, p) BY DEF Numbered
<1> HIDE DEF k, m, p
<1>4. /\ Basic(k) /\ k.op = "closeRoom" /\ k.at = "update" /\ k.began = writes /\ k.read = {}
      /\ k.todo = {Update(1, [status |-> "closed"])} /\ k.then = "audit" /\ "nth" \in DOMAIN k
  BY <1>2, <1>3 DEF Merge, Basic
<1>5. Carries(k, "update") BY <1>4, StaffCarries DEF AdminOps
<1>6. 1 \in Rows BY SequencePlaces DEF StoreTyped, Rows
<1>7. k.todo # {} /\ \A u \in k.todo : Mend(k, u, k.then) BY <1>4, <1>6 DEF Mend, Mends, Update
<1>8. Typed(k) BY <1>4, <1>5, <1>7 DEF Typed, Fits, StoreTyped
<1> QED BY <1>1, <1>4, <1>8, Begins DEF AdminOps

\* An account is suspended, or no longer.
LEMMA SetSuspendedTurns ==
  ASSUME StoreTyped, JobsTyped, NEW h \in Handlers, SetSuspended(h)
  PROVE  Turned(h, AdminOps)
<1> DEFINE j == job[h]
<1>1. Typed(j) /\ j.at = "set" BY DEF JobsTyped, SetSuspended, Idle
<1>2. Carries(j, "set") /\ j.op \in {"suspend", "unsuspend"} BY <1>1 DEF Typed, Fits
<1>3. Wrote(h, [j EXCEPT !.at = "audit"]) BY DEF SetSuspended
<1> HIDE DEF j
<1>4. "nth" \in DOMAIN j BY <1>2 DEF Carries, CarriesMore
<1>5. Carries(j, "audit") /\ Fits(j.op, "audit") BY <1>2, <1>4, StaffCarries DEF AdminOps, Fits
<1>6. Typed([j EXCEPT !.at = "audit"]) /\ [j EXCEPT !.at = "audit"].op = j.op BY <1>1, <1>5, Moves
<1> QED BY <1>2, <1>3, <1>6, GoesOn DEF AdminOps

\* Whatever staff do.
LEMMA AdminTurns ==
  ASSUME StoreTyped, JobsTyped, NEW h \in Handlers, AdminStep(h) \/ SuspendRequest(h)
  PROVE  Turned(h, AdminOps)
<1>1. CASE RecordAudit(h) \/ AuditFails(h)
 <2>1. Typed(job[h]) /\ (Become(h, [job[h] EXCEPT !.at = "end"]) \/ Wrote(h, [job[h] EXCEPT !.at = "end"]))
   BY <1>1 DEF RecordAudit, AuditFails, JobsTyped, Idle
 <2> QED BY <2>1, Stops DEF Typed
<1> QED BY <1>1, SetSuspendedTurns, StartSuspendTurns DEF AdminStep, SuspendRequest
-----------------------------
\* A row is written now, or stays; what is known of who wrote it stays.
RowsMove ==
  /\ \A i \in Rows : i \in Rows' /\ trace[i] \subseteq trace'[i]
  /\ \A i \in Rows' : \/ i \in Rows /\ records'[i] = records[i] /\ trace'[i] = trace[i]
                      \/ \A n \in 0..writes : Renewed(i, n)'

\* No record disappears, and each stays about what it is about.
RowsKept ==
  /\ \A i \in Rows : i \in Rows' /\ SameRow(records'[i], records[i])
  /\ writes \in Nat /\ writes' \in {writes, writes + 1}
  /\ RowsMove

\* What is a track, a player or a review stays one.
LEMMA KindsKept ==
  ASSUME RowsKept, NEW i
  PROVE  /\ IsTrack(i) => IsTrack(i)'
         /\ IsPlayer(i) => IsPlayer(i)'
         /\ IsReview(i) => IsReview(i)'
  BY DEF RowsKept, SameRow, IsTrack, IsPlayer, IsReview

\* So what a request carries stays right while others take steps.
LEMMA CarriesKept ==
  ASSUME RowsKept, NEW j, NEW at, Carries(j, at)
  PROVE  Carries(j, at)'
<1>1. \A i : (IsTrack(i) => IsTrack(i)') /\ (IsPlayer(i) => IsPlayer(i)') /\ (IsReview(i) => IsReview(i)')
  BY KindsKept
<1>2. CarriesPlayer(j, at)' BY <1>1 DEF Carries, CarriesPlayer, CarriesTrack
<1>3. CarriesKey(j)' BY <1>1 DEF Carries, CarriesKey, RowsKept, SameRow
<1> QED BY <1>2, <1>3 DEF Carries

\* What is referred to stays.
LEMMA RefersKept ==
  ASSUME RowsKept, NEW r, Refers(r)
  PROVE  Refers(r)'
  BY KindsKept DEF Refers

\* An update stays the update of the same record.
LEMMA MendKept ==
  ASSUME RowsKept, NEW j, NEW u, NEW then, Mend(j, u, then)
  PROVE  Mend(j, u, then)'
<1>1. \A i : IsTrack(i) => IsTrack(i)' BY KindsKept
<1>2. u.id \in Rows' /\ records'[u.id].kind = records[u.id].kind BY DEF RowsKept, SameRow, Mend
<1> QED BY <1>1, <1>2 DEF Mend

\* A request stays as it should be while others take steps.
LEMMA TypedKept ==
  ASSUME RowsKept, NEW j, Typed(j)
  PROVE  Typed(j)'
<1>1. Carries(j, j.at)' BY CarriesKept DEF Typed
<1>2. j.began \in Nat /\ j.began <= writes' BY DEF Typed, RowsKept
<1>3. ASSUME j.at = "update"
      PROVE  /\ \A u \in j.todo : Mend(j, u, j.then)'
             /\ \A r \in j.read : Mend(j, r.u, j.then)' /\ Copied(r)' /\ Dated(r, j.began)'
 <2>1. /\ \A u \in j.todo : Mend(j, u, j.then)
       /\ \A r \in j.read : Mend(j, r.u, j.then) /\ Copied(r) /\ Dated(r, j.began)
   BY <1>3 DEF Typed
 <2>2. \A u \in j.todo : Mend(j, u, j.then)' BY <2>1, MendKept
 <2>3. \A r \in j.read : Mend(j, r.u, j.then)' BY <2>1, MendKept
 <2>4. ASSUME NEW r \in j.read PROVE Copied(r)'
  <3>1. WellFormed(r.copy) /\ Refers(r.copy) /\ SameRow(r.copy, records[r.u.id]) /\ r.u.id \in Rows
    BY <2>1 DEF Copied, Mend
  <3>2. Refers(r.copy)' BY <3>1, RefersKept
  <3>3. SameRow(records'[r.u.id], records[r.u.id]) BY <3>1 DEF RowsKept
  <3>4. SameRow(r.copy, records'[r.u.id]) BY <3>1, <3>3 DEF SameRow
  <3> QED BY <3>1, <3>2, <3>4 DEF Copied
 <2>5. ASSUME NEW r \in j.read PROVE Dated(r, j.began)'
  <3>1. r.u.id \in Rows /\ Dated(r, j.began) /\ j.began \in 0..writes BY <2>1 DEF Mend, Typed, RowsKept
  <3>2. CASE Renewed(r.u.id, j.began) BY <3>1, <3>2 DEF RowsKept, RowsMove, Renewed, Dated
  <3>3. CASE r.copy = records[r.u.id] BY <3>1, <3>3 DEF RowsKept, RowsMove, Dated
  <3> QED BY <3>1, <3>2, <3>3 DEF Dated
 <2> QED BY <2>2, <2>3, <2>4, <2>5
<1> QED BY <1>1, <1>2, <1>3 DEF Typed

\* After a step of h all requests are as they should be, if h's is.
LEMMA JobsKept ==
  ASSUME JobsTyped, RowsKept, NEW h \in Handlers, \A g \in Handlers : g # h => job'[g] = job[g],
         job'[h] = Idle \/ Typed(job[h])'
  PROVE  JobsTyped'
<1>1. \A j : Typed(j) => Typed(j)' BY TypedKept
<1> SUFFICES ASSUME NEW g \in Handlers PROVE job'[g] = Idle \/ Typed(job[g])' BY DEF JobsTyped
<1>2. CASE g # h
 <2>1. job'[g] = job[g] BY <1>2
 <2> QED BY <2>1, <1>1 DEF JobsTyped
<1> QED BY <1>2

\* A step that changes no record leaves the store and the requests as they
\* should be.
LEMMA TurnedKeeps ==
  ASSUME StoreTyped, JobsTyped, NEW h \in Handlers, NEW ops, Turned(h, ops), serving' = serving
  PROVE  StoreTyped' /\ JobsTyped'
<1>1. RowsKept BY DEF Turned, RowsKept, RowsMove, StoreTyped, SameRow, Rows
<1>2. StoreTyped'
 <2>1. \A i \in Rows' : WellFormed(records'[i]) /\ Refers(records[i])'
  <3>1. \A r : Refers(r) => Refers(r)' BY <1>1, RefersKept
  <3>2. records' = records /\ Rows' = Rows BY DEF Turned, Rows
  <3> SUFFICES ASSUME NEW i \in Rows PROVE WellFormed(records'[i]) /\ Refers(records[i])' BY <3>2
  <3> QED BY <3>1, <3>2 DEF StoreTyped
 <2>2. DOMAIN job' = Handlers /\ writes' \in Nat /\ accepted' \in Nat BY DEF StoreTyped, Turned
 <2>3. \A i \in Rows' : \A s \in trace'[i] :
         s.began \in Nat /\ s.wrote \in Nat /\ s.began < s.wrote /\ s.wrote <= writes'
   BY DEF StoreTyped, Turned, Rows
 <2>4. Sequence(records') /\ Sequence(trace') /\ Len(trace') = Len(records') BY DEF StoreTyped, Turned
 <2> QED BY <2>1, <2>2, <2>3, <2>4 DEF StoreTyped, Turned
<1>3. \A g \in Handlers : g # h => job'[g] = job[g] BY DEF Turned
<1>4. job'[h] = Idle \/ Typed(job[h])'
 <2>1. \A j : Typed(j) => Typed(j)' BY <1>1, TypedKept
 <2>2. job'[h] = Idle \/ Typed(job'[h]) BY DEF Turned, JobsTyped
 <2> QED BY <2>1, <2>2
<1> QED BY <1>1, <1>2, <1>3, <1>4, JobsKept
-----------------------------
\* What a patch may hold.
LEMMA PatchedFields ==
  ASSUME NEW op, NEW kind, NEW patch, NEW then, Mends(op, kind, patch, then)
  PROVE  /\ {"kind", "who", "whom", "of", "in"} \cap DOMAIN patch = {}
         /\ "privacy" \in DOMAIN patch => DOMAIN DefaultPrivacy \subseteq DOMAIN patch.privacy
         /\ "position" \in DOMAIN patch => patch.position \in Nat
         /\ kind = "ticket" /\ "status" \in DOMAIN patch => patch.status \in DOMAIN Transitions
<1>1. {"kind", "who", "whom", "of", "in"} \cap DOMAIN patch = {} BY DEF Mends
<1>2. "privacy" \in DOMAIN patch => DOMAIN DefaultPrivacy \subseteq DOMAIN patch.privacy BY DEF Mends
<1>3. "position" \in DOMAIN patch => patch.position \in Nat BY DEF Mends
<1>4. kind = "ticket" /\ "status" \in DOMAIN patch => patch.status \in DOMAIN Transitions
 <2>1. DOMAIN Transitions = {"open", "in_progress", "waiting_user", "escalated", "resolved", "closed"}
   BY DEF Transitions
 <2> QED BY <2>1 DEF Mends, Reached
<1> QED BY <1>1, <1>2, <1>3, <1>4

\* A record as an update writes it.
LEMMA MendedRow ==
  ASSUME NEW j, NEW r, NEW then, Mend(j, r.u, then), Copied(r)
  PROVE  /\ WellFormed(Merge(r.copy, r.u.patch)) /\ Refers(Merge(r.copy, r.u.patch))
         /\ SameRow(Merge(r.copy, r.u.patch), records[r.u.id]) /\ r.u.id \in Rows
<1> DEFINE s == r.copy
           p == r.u.patch
           m == Merge(s, p)
<1>1. WellFormed(s) /\ Refers(s) /\ SameRow(s, records[r.u.id]) /\ r.u.id \in Rows BY DEF Mend, Copied
<1>2. Mends(j.op, s.kind, p, then) BY <1>1 DEF Mend, SameRow
<1>3. "current" \in DOMAIN p => p.current = 0 \/ IsTrack(p.current) BY DEF Mend
<1>4. /\ {"kind", "who", "whom", "of", "in"} \cap DOMAIN p = {}
      /\ "privacy" \in DOMAIN p => DOMAIN DefaultPrivacy \subseteq DOMAIN p.privacy
      /\ "position" \in DOMAIN p => p.position \in Nat
      /\ s.kind = "ticket" /\ "status" \in DOMAIN p => p.status \in DOMAIN Transitions
  BY <1>2, PatchedFields
<1>5. /\ DOMAIN m = DOMAIN s \cup DOMAIN p
      /\ \A f \in DOMAIN s \cup DOMAIN p : m[f] = IF f \in DOMAIN p THEN p[f] ELSE s[f]
  BY DEF Merge
<1> HIDE DEF s, p, m
<1>6. "kind" \in DOMAIN m /\ m.kind = s.kind /\ "status" \in DOMAIN m BY <1>1, <1>4, <1>5 DEF WellFormed
<1>7. /\ m.kind # "player" => "who" \in DOMAIN m /\ m.who = s.who
      /\ m.kind \in Relations => "whom" \in DOMAIN m /\ m.whom = s.whom
      /\ m.kind = "report" => "whom" \in DOMAIN m /\ m.whom = s.whom
      /\ m.kind \in {"review", "appeal"} => "of" \in DOMAIN m /\ m.of = s.of
      /\ m.kind = "attendance" => "in" \in DOMAIN m /\ m.in = s.in
  BY <1>1, <1>4, <1>5, <1>6 DEF WellFormed
<1>8. WellFormed(m)
 <2>1. m.kind = "profile" => "privacy" \in DOMAIN m /\ DOMAIN DefaultPrivacy \subseteq DOMAIN m.privacy
   BY <1>1, <1>4, <1>5, <1>6 DEF WellFormed
 <2>2. m.kind = "track" => "position" \in DOMAIN m /\ m.position \in Nat
   BY <1>1, <1>4, <1>5, <1>6 DEF WellFormed
 <2>3. m.kind = "ticket" => {"replies", "attachments"} \subseteq DOMAIN m /\ m.status \in DOMAIN Transitions
   BY <1>1, <1>4, <1>5, <1>6 DEF WellFormed
 <2>4. m.kind = "player" => {"current", "volume"} \subseteq DOMAIN m BY <1>1, <1>5, <1>6 DEF WellFormed
 <2>5. m.kind \in Relations => {"whom", "quiet"} \subseteq DOMAIN m /\ {m.who, m.whom} \subseteq Accounts
  <3>1. m.kind \in Relations => m.kind # "player" BY DEF Relations
  <3> QED BY <3>1, <1>1, <1>5, <1>6, <1>7 DEF WellFormed
 <2>6. m.kind \in {"room", "seat"} => m.who \in Accounts BY <1>1, <1>6, <1>7 DEF WellFormed
 <2>7. (m.kind = "review" => "decision" \in DOMAIN m) /\ (m.kind = "appeal" => "outcome" \in DOMAIN m)
   BY <1>1, <1>5, <1>6 DEF WellFormed
 <2> QED BY <1>6, <1>7, <2>1, <2>2, <2>3, <2>4, <2>5, <2>6, <2>7 DEF WellFormed
<1>9. Refers(m)
 <2>1. m.kind = "player" => m.current = 0 \/ IsTrack(m.current)
   BY <1>1, <1>3, <1>5, <1>6 DEF Refers, WellFormed
 <2> QED BY <1>1, <1>6, <1>7, <2>1 DEF Refers
<1>10. SameRow(m, records[r.u.id]) BY <1>1, <1>6, <1>7 DEF SameRow
<1> QED BY <1>1, <1>8, <1>9, <1>10 DEF m, s, p

\* Where a request is after its updates.
LEMMA UpdatesLead ==
  ASSUME NEW j, Carries(j, "update"), NEW u, NEW then, Mend(j, u, then), then # "end"
  PROVE  then \notin {"add", "update"} /\ Fits(j.op, then) /\ Carries(j, then)
<1>1. \/ j.op \in {"accepted"} /\ then = "hear"
      \/ j.op \in {"kick", "ban", "memberMute", "unban", "setting"} /\ then = "log"
      \/ j.op = "answer" /\ then = "notify"
      \/ j.op = "closeRoom" /\ then = "audit"
      \/ j.op = "close" /\ then = "dismiss"
      \/ j.op = "remove" /\ then = "reindex"
      \/ j.op = "play" /\ then = "start"
      \/ j.op = "next" /\ then = "advance"
      \/ j.op \in {"play", "next"} /\ then = "show"
      \/ j.op = "reply" /\ then = "answer"
      \/ j.op = "decide" /\ then = "review"
  BY DEF Mend, Mends
<1>2. then \notin {"add", "update"} /\ Fits(j.op, then) BY <1>1 DEF Fits, Telling1
<1>3. CarriesPlayer(j, then)
 <2>1. CarriesTrack(j, then) BY <1>1 DEF Carries, CarriesPlayer, CarriesTrack, Mend
 <2> QED BY <1>1, <2>1 DEF Carries, CarriesPlayer
<1>4. CarriesStep(j, then) BY <1>1 DEF CarriesStep
<1> QED BY <1>2, <1>3, <1>4 DEF Carries

\* A record is read that is to be updated.
LEMMA ReadRowTurns ==
  ASSUME StoreTyped, JobsTyped, NEW h \in Handlers, ReadRow(h)
  PROVE  Turned(h, {job[h].op})
<1> DEFINE j == job[h]
<1>1. Typed(j) /\ j.at = "update" BY DEF JobsTyped, ReadRow, Idle
<1>2. PICK u \in j.todo :
        job' = [job EXCEPT ![h].todo = @ \ {u}, ![h].read = @ \cup {[u |-> u, copy |-> records[u.id]]}]
  BY Zenon DEF ReadRow
<1> DEFINE r == [u |-> u, copy |-> records[u.id]]
           k == [j EXCEPT !.todo = @ \ {u}, !.read = @ \cup {r}]
<1>3. job' = [job EXCEPT ![h] = k] /\ DOMAIN job = Handlers BY <1>2 DEF StoreTyped
<1>4. r.u = u /\ r.copy = records[u.id] OBVIOUS
<1>5. Basic(j) BY <1>1 DEF Typed
<1>6. DOMAIN k = DOMAIN j /\ k.at = "update" /\ k.todo = j.todo \ {u} /\ k.read = j.read \cup {r} /\ k.then = j.then
  BY <1>1, <1>5 DEF Basic
<1>7. Alike(k, j) BY <1>5 DEF Alike, Basic
<1> HIDE DEF j, k, r
<1>8. Basic(k) /\ Carries(k, "update") BY <1>1, <1>5, <1>7, AlikeCarry DEF Typed
<1>9. \A v : Mend(j, v, j.then) => Mend(k, v, k.then) BY <1>6, <1>7 DEF Mend, Alike
<1>10. Mend(j, u, j.then) BY <1>1 DEF Typed
<1>11. Copied(r) BY <1>4, <1>10 DEF Copied, Mend, StoreTyped, SameRow
<1>12. Typed(k)
 <2>1. Fits(k.op, "update") BY DEF Fits
 <2>2. \A v \in k.todo : Mend(k, v, k.then) BY <1>1, <1>6, <1>9 DEF Typed
 <2>3. \A q \in k.read : Mend(k, q.u, k.then) /\ Copied(q) /\ Dated(q, k.began)
   BY <1>1, <1>4, <1>6, <1>7, <1>9, <1>10, <1>11 DEF Typed, Dated, Alike
 <2>4. k.todo \cup k.read # {} BY <1>6
 <2>5. k.began \in Nat /\ k.began <= writes BY <1>1, <1>7 DEF Alike, Typed
 <2> QED BY <1>6, <1>8, <2>1, <2>2, <2>3, <2>4, <2>5 DEF Typed
<1>13. k.op = j.op BY <1>7 DEF Alike
<1>14. DOMAIN job' = Handlers /\ job'[h] = k /\ \A g \in Handlers : g # h => job'[g] = job[g] BY <1>3
<1> QED BY <1>12, <1>13, <1>14 DEF Turned, ReadRow, j, StoreTyped
-----------------------------
\* What a request k was told, j was told, but for where it is.
Resumes(k, j) ==
  /\ DOMAIN j \subseteq DOMAIN k
  /\ \A f \in DOMAIN j \ {"at", "todo", "read", "then", "new", "made"} : k[f] = j[f]

\* A record is written.
LEMMA WriteRowKeeps ==
  ASSUME StoreTyped, JobsTyped, NEW h \in Handlers, WriteRow(h), serving' = serving
  PROVE  /\ StoreTyped' /\ JobsTyped' /\ RowsKept
         /\ \E r \in job[h].read :
              /\ r.u.id \in Rows /\ Mend(job[h], r.u, job[h].then) /\ Copied(r)
              /\ records' = [records EXCEPT ![r.u.id] = Merge(r.copy, r.u.patch)]
              /\ trace' = [trace EXCEPT ![r.u.id] = @ \cup {Span(h)}]
              /\ \/ job'[h] = Idle
                 \/ Resumes(job'[h], job[h]) /\ job'[h].at \notin {"add", "update"} /\ job'[h].todo = {}
                      /\ job'[h].read = {}
                 \/ Resumes(job'[h], job[h]) /\ job'[h].at = "update" /\ job'[h].then = job[h].then
                      /\ job'[h].todo = job[h].todo /\ job'[h].read = job[h].read \ {r}
         /\ writes' = writes + 1 /\ dropped' = dropped
         /\ \A g \in Handlers : g # h => job'[g] = job[g]
<1> DEFINE j == job[h]
<1>1. Typed(j) /\ j.at = "update" BY DEF JobsTyped, WriteRow, Idle
<1>2. PICK r \in j.read :
        /\ records' = [records EXCEPT ![r.u.id] = Merge(r.copy, r.u.patch)]
        /\ trace' = [trace EXCEPT ![r.u.id] = @ \cup {Span(h)}]
        /\ Onward(h, [j EXCEPT !.read = @ \ {r}],
                  IF j.todo = {} /\ j.read = {r} THEN j.then ELSE "update")
  BY Zenon DEF WriteRow
<1>3. writes' = writes + 1 /\ accepted' = accepted /\ dropped' = dropped BY DEF WriteRow
<1> DEFINE i == r.u.id
           m == Merge(r.copy, r.u.patch)
           next == IF j.todo = {} /\ j.read = {r} THEN j.then ELSE "update"
           k == [[j EXCEPT !.read = @ \ {r}] EXCEPT !.at = next]
<1>4. /\ DOMAIN job' = Handlers /\ job'[h] = (IF next = "end" THEN Idle ELSE k)
      /\ \A g \in Handlers : g # h => job'[g] = job[g]
  BY <1>2 DEF Onward, StoreTyped
<1>5. Basic(j) /\ Carries(j, "update") BY <1>1 DEF Typed
<1>6. Mend(j, r.u, j.then) /\ Copied(r) BY <1>1 DEF Typed
<1>7. DOMAIN k = DOMAIN j /\ k.at = next /\ k.todo = j.todo /\ k.read = j.read \ {r} /\ k.then = j.then
  BY <1>5 DEF Basic
<1>8. Alike(k, j) BY <1>5 DEF Alike, Basic
<1>9. WellFormed(m) /\ Refers(m) /\ SameRow(m, records[i]) /\ i \in Rows BY <1>6, MendedRow
<1>10. Rows = DOMAIN records /\ Rows = DOMAIN trace /\ Sequence(records) /\ Sequence(trace)
  BY SequencePlaces DEF StoreTyped, Rows
<1>11. next = "update" \/ (next = j.then /\ j.todo = {} /\ j.read = {r}) BY Zenon
<1>12. records' = [records EXCEPT ![i] = m] /\ trace' = [trace EXCEPT ![i] = trace[i] \cup {Span(h)}]
  BY <1>2
<1>22. Resumes(k, j)
 <2>1. \A f \in DOMAIN j \ {"at", "read"} : k[f] = j[f] OBVIOUS
 <2> HIDE DEF k
 <2> QED BY <1>7, <2>1 DEF Resumes
<1> HIDE DEF j, i, m, next, k
<1>13. /\ Sequence(records') /\ Len(records') = Len(records)
       /\ Sequence(trace') /\ Len(trace') = Len(trace)
 <2>1. Sequence([records EXCEPT ![i] = m]) /\ Len([records EXCEPT ![i] = m]) = Len(records)
   BY <1>10, SequenceExcept
 <2> DEFINE w == trace[i] \cup {Span(h)}
 <2> HIDE DEF w
 <2>2. Sequence([trace EXCEPT ![i] = w]) /\ Len([trace EXCEPT ![i] = w]) = Len(trace)
   BY <1>10, SequenceExcept
 <2> QED BY <1>12, <2>1, <2>2 DEF w
<1>14. Rows' = Rows BY <1>13 DEF Rows
<1>15. \A n \in Rows : records'[n] = (IF n = i THEN m ELSE records[n]) BY <1>10, <1>12
<1>16. \A n \in Rows : trace'[n] = (IF n = i THEN trace[n] \cup {Span(h)} ELSE trace[n]) BY <1>10, <1>12
<1>23. RowsMove
 <2>1. Span(h) \in trace'[i] /\ Span(h).wrote = writes + 1 /\ writes \in Nat
   BY <1>9, <1>16 DEF Span, StoreTyped
 <2>2. \A n \in 0..writes : Renewed(i, n)' BY <2>1 DEF Renewed
 <2> QED BY <1>14, <1>15, <1>16, <2>2 DEF RowsMove
<1>17. RowsKept BY <1>3, <1>9, <1>14, <1>15, <1>23 DEF RowsKept, SameRow, StoreTyped
<1>18. StoreTyped'
 <2>1. \A s : Refers(s) => Refers(s)' BY <1>17, RefersKept
 <2>2. \A n \in Rows' : WellFormed(records'[n]) /\ Refers(records[n])'
  <3> SUFFICES ASSUME NEW n \in Rows PROVE WellFormed(records'[n]) /\ Refers(records[n])' BY <1>14
  <3>1. CASE n = i
   <4>1. records'[n] = m BY <1>15, <3>1
   <4> QED BY <1>9, <2>1, <4>1
  <3>2. CASE n # i
   <4>1. records'[n] = records[n] BY <1>15, <3>2
   <4> QED BY <2>1, <4>1 DEF StoreTyped
  <3> QED BY <3>1, <3>2
 <2>3. ASSUME NEW n \in Rows, NEW s \in trace'[n]
       PROVE  s.began \in Nat /\ s.wrote \in Nat /\ s.began < s.wrote /\ s.wrote <= writes'
  <3>1. CASE s \in trace[n] BY <1>3, <3>1 DEF StoreTyped
  <3>2. CASE s = Span(h)
   <4>1. s.began = j.began /\ s.wrote = writes + 1 BY <3>2 DEF Span, j
   <4> QED BY <1>1, <1>3, <4>1 DEF Typed, StoreTyped
  <3> QED BY <1>16, <3>1, <3>2
 <2>4. writes' \in Nat /\ accepted' \in Nat BY <1>3 DEF StoreTyped
 <2>5. serving' \in InRooms => Len(records') > 0 /\ records'[1].kind = "room"
  <3>1. serving \in InRooms => 1 \in Rows /\ Len(records) > 0 /\ records[1].kind = "room"
    BY <1>10, SequencePlaces DEF StoreTyped, Rows
  <3>2. \A n \in Rows : records'[n].kind = records[n].kind BY <1>17 DEF RowsKept, SameRow
  <3> QED BY <1>13, <3>1, <3>2
 <2> QED BY <1>4, <1>13, <1>14, <2>2, <2>3, <2>4, <2>5 DEF StoreTyped
<1>19. next = "end" \/ Typed(k)
 <2>1. CASE next = "update"
  <3>1. \A v : Mend(j, v, j.then) => Mend(k, v, k.then) BY <1>7, <1>8 DEF Mend, Alike
  <3>2. Basic(k) /\ Carries(k, "update") BY <1>5, <1>8, AlikeCarry
  <3>3. k.todo \cup k.read # {}
   <4>1. next = j.then => next # "update" BY <1>6 DEF Mend, Mends
   <4>2. ~(j.todo = {} /\ j.read = {r}) BY <4>1, <2>1 DEF next
   <4> QED BY <1>7, <4>2
  <3>4. \A u \in k.todo : Mend(k, u, k.then) BY <1>1, <1>7, <3>1 DEF Typed
  <3>5. \A q \in k.read : Mend(k, q.u, k.then) /\ Copied(q) /\ Dated(q, k.began)
    BY <1>1, <1>7, <1>8, <3>1 DEF Typed, Alike
  <3>6. k.began \in Nat /\ k.began <= writes BY <1>1, <1>8 DEF Alike, Typed
  <3>7. Fits(k.op, "update") BY DEF Fits
  <3> QED BY <1>7, <2>1, <3>2, <3>3, <3>4, <3>5, <3>6, <3>7 DEF Typed
 <2>2. CASE next = j.then /\ j.todo = {} /\ j.read = {r} /\ next # "end"
  <3>1. next \notin {"add", "update"} /\ Fits(j.op, next) /\ Carries(j, next)
    BY <1>5, <1>6, <2>2, UpdatesLead
  <3>2. Basic(k) /\ Carries(k, next) BY <1>5, <1>8, <3>1, AlikeCarry
  <3>3. k.op = j.op /\ k.began = j.began /\ k.todo = {} /\ k.read = {} BY <1>7, <1>8, <2>2 DEF Alike
  <3> QED BY <1>1, <1>7, <2>2, <3>1, <3>2, <3>3 DEF Typed
 <2> QED BY <1>11, <2>1, <2>2
<1>20. JobsTyped'
 <2>1. \A v : Typed(v) => Typed(v)' BY <1>17, TypedKept
 <2>2. job'[h] = Idle \/ Typed(job'[h]) BY <1>4, <1>19
 <2>3. job'[h] = Idle \/ Typed(job[h])' BY <2>1, <2>2
 <2> QED BY <1>4, <1>17, <2>3, JobsKept
<1>21. \/ job'[h] = Idle
       \/ Resumes(job'[h], j) /\ job'[h].at \notin {"add", "update"} /\ job'[h].todo = {} /\ job'[h].read = {}
       \/ Resumes(job'[h], j) /\ job'[h].at = "update" /\ job'[h].then = j.then
            /\ job'[h].todo = j.todo /\ job'[h].read = j.read \ {r}
 <2>1. CASE next = "end" BY <1>4, <2>1
 <2>2. CASE next = "update" BY <1>4, <1>7, <1>22, <2>2
 <2>3. CASE next = j.then /\ j.todo = {} /\ j.read = {r} /\ next # "end"
  <3>1. next \notin {"add", "update"} BY <1>5, <1>6, <2>3, UpdatesLead
  <3> QED BY <1>4, <1>7, <1>22, <2>3, <3>1
 <2> QED BY <1>11, <2>1, <2>2, <2>3
<1> QED BY <1>3, <1>4, <1>6, <1>9, <1>12, <1>17, <1>18, <1>20, <1>21 DEF j, i, m
-----------------------------
\* A record that a request adds.
LEMMA NewRowFits ==
  ASSUME StoreTyped, NEW j, NEW new, NEW then, NewRow(j, new, then), Carries(j, "add")
  PROVE  WellFormed(new) /\ Refers(new)
<1>1. /\ j.op \in Told => j.to \in Accounts
      /\ j.op \in {"follow", "friend", "block", "mute", "seat"} => j.who \in Accounts
      /\ j.op \in {"block", "mute"} => j.key \in Accounts
      /\ j.op = "appeal" => IsReview(j.key)
  BY DEF Carries, Tells, CarriesPair, CarriesKey
<1>2. CASE j.op = "follow" \/ j.op = "friend" \/ j.op \in {"block", "mute"}
  BY <1>1, <1>2 DEF NewRow, Told, Relation, Relations, WellFormed, Refers, Players, Controls
<1>3. CASE j.op = "privacy" BY <1>3 DEF NewRow, WellFormed, Refers, Relations, Players, Controls
<1>4. CASE j.op \in {"join", "seat"}
  BY <1>1, <1>4 DEF NewRow, Membership, Seat, WellFormed, Refers, Relations, Players, Controls
<1>5. CASE j.op \in {"memberMute", "kick", "ban", "unban", "setting"}
  BY <1>5 DEF NewRow, Ban, Logged, WellFormed, Refers, Relations, Players, Controls
<1>6. CASE j.op \in {"create", "attend", "grant", "queue"}
  BY <1>6 DEF NewRow, Breakout, Attending, Dj, Track, WellFormed, Refers, Relations, Players, Controls
<1>7. CASE j.op \in Players BY <1>7 DEF NewRow, NewPlayer, WellFormed, Refers, Relations, Players, Controls
<1>8. CASE j.op \in {"ticket", "report"}
 <2>1. "open" \in DOMAIN Transitions BY DEF Transitions
 <2> QED BY <1>8, <2>1 DEF NewRow, Ticket, Report, WellFormed, Refers, Relations, Players, Controls
<1>9. CASE j.op = "review" BY <1>9 DEF NewRow, Review, WellFormed, Refers, Relations, Players, Controls
<1>10. CASE j.op = "appeal"
  BY <1>1, <1>10 DEF NewRow, Appeal, WellFormed, Refers, Relations, Players, Controls
<1> QED BY <1>2, <1>3, <1>4, <1>5, <1>6, <1>7, <1>8, <1>9, <1>10 DEF NewRow

\* Where a request is after it has added a record.
LEMMA AddLeads ==
  ASSUME NEW j, Carries(j, "add"), NEW new, NEW then, NewRow(j, new, then), then # "end"
  PROVE  /\ then \notin {"add", "update"} /\ Fits(j.op, then)
         /\ j.op \notin Players => Carries(j, then)
         /\ j.op \in Players => new = NewPlayer /\ then \in {"previous", "pause", "volume", "play"}
                                /\ (j.op = "play" => then = "play")
<1>1. CASE j.op \notin Players
 <2>1. \/ j.op \in {"follow", "friend"} /\ then = "hear"
       \/ j.op = "ban" /\ then = "evict"
   BY <1>1 DEF NewRow
 <2>2. Carries(j, then) BY <1>1, <2>1, CarriesOn
 <2> QED BY <1>1, <2>1, <2>2 DEF Fits
<1>2. CASE j.op \in Players
 <2>1. /\ new = NewPlayer
       /\ then = CASE j.op = "next" -> "previous" [] j.op = "state" -> "end" [] OTHER -> j.op
   BY <1>2 DEF NewRow, Players, Controls
 <2>2. \/ j.op = "next" /\ then = "previous"
       \/ j.op \in {"play", "pause", "volume"} /\ then = j.op
   BY <1>2, <2>1 DEF Players, Controls
 <2> QED BY <1>2, <2>1, <2>2 DEF Fits
<1> QED BY <1>1, <1>2

\* A request that has added a record goes on as k, which knows its place n.
LEMMA AfterAdd ==
  ASSUME NEW j, Typed(j), j.at = "add", j.then # "end", RowsKept, NEW n, NEW k,
         j.new = NewPlayer => n \in Rows' /\ records'[n].kind = "player",
         DOMAIN k = DOMAIN j \cup {"made"}, k.at = j.then, k.made = n,
         \A f \in DOMAIN j \ {"made", "at"} : k[f] = j[f]
  PROVE  Typed(k)'
<1>1. /\ Basic(j) /\ Carries(j, "add") /\ NewRow(j, j.new, j.then) /\ j.todo = {} /\ j.read = {}
      /\ j.began \in Nat /\ j.began <= writes
  BY DEF Typed
<1>2. Basic(k) /\ k.op = j.op /\ k.key = j.key /\ k.who = j.who /\ k.began = j.began /\ k.todo = {} /\ k.read = {}
  BY <1>1 DEF Basic
<1>3. /\ j.then \notin {"add", "update"} /\ Fits(j.op, j.then)
      /\ j.op \notin Players => Carries(j, j.then)
      /\ j.op \in Players => j.new = NewPlayer /\ j.then \in {"previous", "pause", "volume", "play"}
                             /\ (j.op = "play" => j.then = "play")
  BY <1>1, AddLeads
<1>4. Tells(k) BY <1>1, <1>2 DEF Carries, Tells
<1>5. CarriesPair(k)
 <2>1. j.op \in {"open", "send"} => "to" \in DOMAIN j BY <1>1 DEF Carries, Tells, Told
 <2> QED BY <1>1, <1>2, <2>1 DEF Carries, CarriesPair
<1>6. CarriesPrivacy(k) /\ CarriesMore(k) BY <1>1, <1>2 DEF Carries, CarriesPrivacy, CarriesMore
<1>7. CASE j.op \notin Players
 <2>1. CarriesPlayer(k, j.then) BY <1>2, <1>7 DEF CarriesPlayer, CarriesTrack, Players, Controls
 <2>2. CarriesStep(k, j.then) /\ CarriesKey(k)
   BY <1>1, <1>2, <1>3, <1>7 DEF Carries, CarriesStep, CarriesKey
 <2>3. Carries(k, j.then) BY <1>4, <1>5, <1>6, <2>1, <2>2 DEF Carries
 <2>4. Typed(k) BY <1>1, <1>2, <1>3, <2>3 DEF Typed
 <2> QED BY <2>4, TypedKept
<1>8. CASE j.op \in Players
 <2>1. /\ "chosen" \in DOMAIN k /\ (k.chosen = 0 \/ IsTrack(k.chosen))
       /\ "state" \in DOMAIN k /\ (k.state.current = 0 \/ IsTrack(k.state.current))
   BY <1>1, <1>8 DEF Carries, CarriesPlayer
 <2>2. \A i : IsTrack(i) => IsTrack(i)' BY KindsKept
 <2>3. "made" \in DOMAIN k /\ IsPlayer(k.made)' BY <1>3, <1>8 DEF IsPlayer
 <2>4. CarriesTrack(k, j.then) BY <1>2, <1>3, <1>8 DEF CarriesTrack
 <2>5. CarriesPlayer(k, j.then)' BY <2>1, <2>2, <2>3, <2>4 DEF CarriesPlayer, CarriesTrack
 <2>6. CarriesStep(k, j.then) BY <1>2, <1>3, <1>8 DEF CarriesStep, Players, Controls
 <2>7. CarriesKey(k)' BY <1>2, <1>8 DEF CarriesKey, Players, Controls
 <2>8. Carries(k, j.then)' BY <1>4, <1>5, <1>6, <2>5, <2>6, <2>7 DEF Carries
 <2>9. k.began \in Nat /\ k.began <= writes' BY <1>1, <1>2 DEF RowsKept
 <2> QED BY <1>2, <1>3, <2>8, <2>9 DEF Typed
<1> QED BY <1>7, <1>8

\* A record is added.
LEMMA AddRowKeeps ==
  ASSUME StoreTyped, JobsTyped, NEW h \in Handlers, AddRow(h), serving' = serving
  PROVE  /\ StoreTyped' /\ JobsTyped' /\ RowsKept
         /\ NewRow(job[h], job[h].new, job[h].then)
         /\ Len(records') = Len(records) + 1
         /\ \A i \in Rows : records'[i] = records[i] /\ trace'[i] = trace[i]
         /\ records'[Len(records) + 1] = job[h].new /\ trace'[Len(records) + 1] = {Span(h)}
         /\ \/ job'[h] = Idle
            \/ Resumes(job'[h], job[h]) /\ job'[h].at \notin {"add", "update"} /\ job'[h].todo = {}
                 /\ job'[h].read = {}
         /\ writes' = writes + 1 /\ dropped' = dropped
         /\ \A g \in Handlers : g # h => job'[g] = job[g]
<1> DEFINE j == job[h]
           m == Merge(j, [made |-> Len(records) + 1])
           k == [m EXCEPT !.at = j.then]
<1>1. Typed(j) /\ j.at = "add" BY DEF JobsTyped, AddRow, Idle
<1>2. /\ records' = Append(records, j.new) /\ trace' = Append(trace, {Span(h)})
      /\ Onward(h, m, j.then) /\ writes' = writes + 1 /\ accepted' = accepted /\ dropped' = dropped
  BY DEF AddRow
<1>3. /\ DOMAIN job' = Handlers /\ job'[h] = (IF j.then = "end" THEN Idle ELSE k)
      /\ \A g \in Handlers : g # h => job'[g] = job[g]
  BY <1>2 DEF Onward, StoreTyped
<1>4. Basic(j) /\ Carries(j, "add") /\ NewRow(j, j.new, j.then) /\ j.todo = {} /\ j.read = {}
      /\ j.began \in Nat /\ j.began <= writes
  BY <1>1 DEF Typed
<1>5. WellFormed(j.new) /\ Refers(j.new) BY <1>4, NewRowFits
<1>6. /\ DOMAIN m = DOMAIN j \cup {"made"} /\ m.made = Len(records) + 1
      /\ \A f \in DOMAIN j \ {"made"} : m[f] = j[f]
  BY DEF Merge
<1> HIDE DEF m
<1>7. /\ DOMAIN k = DOMAIN j \cup {"made"} /\ k.at = j.then
      /\ k.made = Len(records) + 1 /\ \A f \in DOMAIN j \ {"made", "at"} : k[f] = j[f]
  BY <1>4, <1>6 DEF Basic
<1> HIDE DEF j, k
<1>8. Basic(k) /\ k.op = j.op /\ k.key = j.key /\ k.who = j.who /\ k.began = j.began /\ k.todo = {} /\ k.read = {}
  BY <1>4, <1>7 DEF Basic
<1>9. Len(records) \in Nat /\ Rows = DOMAIN records /\ Sequence(records) /\ Sequence(trace)
        /\ Len(trace) = Len(records)
  BY SequencePlaces DEF StoreTyped, Rows
<1>10. /\ Sequence(records') /\ Len(records') = Len(records) + 1
       /\ \A i \in Rows : records'[i] = records[i]
       /\ records'[Len(records) + 1] = j.new
  BY <1>2, <1>9, SequenceAppend DEF Rows
<1>11. /\ Sequence(trace') /\ Len(trace') = Len(records) + 1
       /\ \A i \in Rows : trace'[i] = trace[i]
       /\ trace'[Len(records) + 1] = {Span(h)}
 <2> DEFINE w == {Span(h)}
 <2>1. trace' = Append(trace, w) BY <1>2
 <2> HIDE DEF w
 <2>2. /\ Sequence(trace') /\ Len(trace') = Len(records) + 1
       /\ \A i \in Rows : trace'[i] = trace[i]
       /\ trace'[Len(records) + 1] = w
   BY <2>1, <1>9, SequenceAppend DEF Rows
 <2> QED BY <2>2 DEF w
<1>12. Rows' = Rows \cup {Len(records) + 1} /\ Len(records) + 1 \notin Rows BY <1>9, <1>10 DEF Rows
<1>18. RowsMove
 <2>1. Span(h) \in trace'[Len(records) + 1] /\ Span(h).wrote = writes + 1 /\ writes \in Nat
   BY <1>11 DEF Span, StoreTyped
 <2>2. \A q : q = Len(records) + 1 => \A n \in 0..writes : Renewed(q, n)' BY <2>1 DEF Renewed
 <2> QED BY <1>10, <1>11, <1>12, <2>2 DEF RowsMove
<1>13. RowsKept BY <1>2, <1>10, <1>12, <1>18 DEF RowsKept, SameRow, StoreTyped
<1>14. StoreTyped'
 <2>1. \A s : Refers(s) => Refers(s)' BY <1>13, RefersKept
 <2>2. \A n \in Rows' : WellFormed(records'[n]) /\ Refers(records[n])'
  <3> SUFFICES ASSUME NEW n \in Rows' PROVE WellFormed(records'[n]) /\ Refers(records[n])' OBVIOUS
  <3>1. CASE n = Len(records) + 1
   <4>1. records'[n] = j.new BY <1>10, <3>1
   <4> QED BY <1>5, <2>1, <4>1
  <3>2. CASE n \in Rows
   <4>1. records'[n] = records[n] BY <1>10, <3>2
   <4> QED BY <2>1, <3>2, <4>1 DEF StoreTyped
  <3> QED BY <1>12, <3>1, <3>2
 <2>3. ASSUME NEW n \in Rows', NEW s \in trace'[n]
       PROVE  s.began \in Nat /\ s.wrote \in Nat /\ s.began < s.wrote /\ s.wrote <= writes'
  <3>1. CASE n \in Rows
   <4>1. s \in trace[n] BY <1>11, <3>1
   <4>2. s.began \in Nat /\ s.wrote \in Nat /\ s.began < s.wrote /\ s.wrote <= writes
     BY <3>1, <4>1 DEF StoreTyped
   <4> QED BY <1>2, <4>2 DEF StoreTyped
  <3>2. CASE n = Len(records) + 1
   <4>1. s.began = j.began /\ s.wrote = writes + 1 BY <1>11, <3>2 DEF Span, j
   <4> QED BY <1>2, <1>4, <4>1 DEF StoreTyped
  <3> QED BY <1>12, <3>1, <3>2
 <2>4. writes' \in Nat /\ accepted' \in Nat BY <1>2 DEF StoreTyped
 <2>5. serving' \in InRooms => Len(records') > 0 /\ records'[1].kind = "room"
  <3>1. serving \in InRooms => 1 \in Rows /\ Len(records) > 0 /\ records[1].kind = "room"
    BY <1>9 DEF StoreTyped, Rows
  <3> QED BY <1>9, <1>10, <3>1
 <2> QED BY <1>3, <1>10, <1>11, <2>2, <2>3, <2>4, <2>5 DEF StoreTyped
<1>15. job'[h] = Idle \/ Typed(job[h])'
 <2>1. CASE j.then = "end" BY <1>3, <2>1
 <2>2. CASE j.then # "end"
  <3>1. j.new = NewPlayer => Len(records) + 1 \in Rows' /\ records'[Len(records) + 1].kind = "player"
    BY <1>10, <1>12 DEF NewPlayer
  <3>2. \A v, n : v = k /\ n = Len(records) + 1 => Typed(v)'
   <4> SUFFICES ASSUME NEW v, NEW n, v = k, n = Len(records) + 1 PROVE Typed(v)' OBVIOUS
   <4>1. j.new = NewPlayer => n \in Rows' /\ records'[n].kind = "player" BY <3>1
   <4>2. /\ DOMAIN v = DOMAIN j \cup {"made"} /\ v.at = j.then
         /\ v.made = n /\ \A f \in DOMAIN j \ {"made", "at"} : v[f] = j[f]
     BY <1>7
   <4> QED BY <1>1, <1>13, <2>2, <4>1, <4>2, AfterAdd
  <3>3. Typed(job[h])'
   <4>1. job'[h] = k BY <1>3, <2>2
   <4> QED BY <3>2, <4>1
  <3> QED BY <3>3
 <2> QED BY <2>1, <2>2
<1>16. JobsTyped' BY <1>3, <1>13, <1>15, JobsKept
<1>17. \/ job'[h] = Idle
       \/ Resumes(job'[h], j) /\ job'[h].at \notin {"add", "update"} /\ job'[h].todo = {} /\ job'[h].read = {}
 <2>1. CASE j.then = "end" BY <1>3, <2>1
 <2>2. CASE j.then # "end"
  <3>1. j.then \notin {"add", "update"} BY <1>4, <2>2, AddLeads
  <3>2. Resumes(k, j) BY <1>7 DEF Resumes
  <3> QED BY <1>3, <1>7, <1>8, <2>2, <3>1, <3>2
 <2> QED BY <2>1, <2>2
<1> QED BY <1>2, <1>3, <1>4, <1>9, <1>10, <1>11, <1>13, <1>14, <1>16, <1>17 DEF j
-----------------------------
\* h is idle, or works on a request of one of these kinds.
Works(h, ops) == job[h] = Idle \/ job[h].op \in ops

\* h takes a step of a request of one of these kinds.
Acts(h, ops) == Turned(h, ops) /\ Works(h, ops)

\* Who begins was idle.
LEMMA BeginnersAreIdle ==
  ASSUME NEW h, NEW ops, (\E j : Begin(h, j)) \/ Once(h)
  PROVE  Works(h, ops)
  BY DEF Begin, Accept, Ready, Once, Works

\* Who takes a step comes from one that its kind of request comes to.
LEMMA StepsFit ==
  ASSUME JobsTyped, NEW h \in Handlers, job[h].at # "none"
  PROVE  Fits(job[h].op, job[h].at)
  BY DEF JobsTyped, Typed, Idle

\* Whatever notifications do.
LEMMA NoticesAct ==
  ASSUME StoreTyped, JobsTyped, NEW h \in Handlers, NotifyStep(h) \/ MarkRead(h) \/ NoticeRequest(h)
  PROVE  Acts(h, NoticeOps)
<1>1. CASE NotifyStep(h) \/ MarkRead(h)
 <2>1. job[h].at \in {"notify", "preferences", "devices", "push", "prune", "mark"}
   BY <1>1, Zenon DEF NotifyStep, CreateNotification, ReadPreferences, ListDevices, Push, Prune, MarkRead, Doing
 <2>2. Works(h, NoticeOps)
  <3>1. Fits(job[h].op, job[h].at) BY <2>1, StepsFit
  <3> QED BY <2>1, <3>1 DEF Works, Fits, Telling1, NoticeOps
 <2> QED BY <1>1, <2>2, NoticeTurns DEF Acts
<1>2. CASE NoticeRequest(h)
 <2>1. (\E j : Begin(h, j)) \/ Once(h)
   BY <1>2 DEF NoticeRequest, MarkAllRead, StartRead, Redeliver, SetPreferences, RegisterDevice, RemoveDevice
 <2> QED BY <1>2, <2>1, BeginnersAreIdle, NoticeTurns DEF Acts
<1> QED BY <1>1, <1>2

\* Whatever the social part does.
LEMMA SocialActs ==
  ASSUME StoreTyped, JobsTyped, NEW h \in Handlers,
         \/ SocialStep(h) \/ SocialRequest(h) \/ MuteRequest(h)
         \/ \E a, b \in Accounts : StartRelation(h, "follow", a, b) \/ Bar(h, "block", a, b)
                                      \/ Lift(h, "block", a, b)
         \/ \E a, b : Lift(h, "follow", a, b)
         \/ \E a \in Accounts, i \in Rows : Answer(h, a, i, "accepted")
  PROVE  Acts(h, SocialOps \cup {"send"})
<1>1. CASE SocialStep(h)
 <2>1. Works(h, SocialOps \cup {"send"})
   BY <1>1, StepsFit DEF SocialStep, FindFollow, FindFriend, Hear, Doing, Works, Fits, SocialOps
 <2> QED BY <1>1, <2>1, SocialTurns DEF Acts
<1>2. CASE ~SocialStep(h)
 <2>1. \E j : Begin(h, j) BY <1>2 DEF SocialRequest, MuteRequest, StartRelation, Bar, Lift, Answer, SetQuiet
 <2>2. Works(h, SocialOps \cup {"send"}) BY <2>1, BeginnersAreIdle
 <2> QED BY <2>2, SocialTurns DEF Acts
<1> QED BY <1>1, <1>2

\* Whatever chat does.
LEMMA ChatActs ==
  ASSUME StoreTyped, JobsTyped, ChatTyped, NEW h \in Handlers, ChatStep(h) \/ ChatRequest(h)
  PROVE  Acts(h, ChatOps)
<1>1. CASE ChatStep(h)
 <2>1. job[h].at \in {"privacy", "friends", "insert", "allowed", "presence", "post", "chat"}
   BY <1>1, Zenon DEF ChatStep, ReadPrivacy, ReadFriendship, OpenConversation, CheckAllowed, ReadPresence,
      PostMessage, ChangeMessages, Doing
 <2>2. Works(h, ChatOps)
  <3>1. Fits(job[h].op, job[h].at) BY <2>1, StepsFit
  <3> QED BY <2>1, <3>1 DEF Works, Fits, ChatOps
 <2> QED BY <1>1, <2>2, ChatTurns DEF Acts
<1>2. CASE ChatRequest(h)
 <2>1. (\E j : Begin(h, j)) \/ Once(h)
   BY <1>2 DEF ChatRequest, StartOpen, StartSend, StartOnChat, SetPresence
 <2> QED BY <1>2, <2>1, BeginnersAreIdle, ChatTurns DEF Acts
<1> QED BY <1>1, <1>2

\* Whatever changes the privacy.
LEMMA PrivacyActs ==
  ASSUME StoreTyped, JobsTyped, NEW h \in Handlers, SaveProfile(h) \/ PrivacyRequest(h) \/ VisibilityRequest(h)
  PROVE  Acts(h, PrivacyOps)
<1>1. CASE SaveProfile(h) BY <1>1, SaveProfileTurns DEF SaveProfile, Doing, Works, PrivacyOps, Acts
<1>2. CASE PrivacyRequest(h)
 <2>1. \E a \in Accounts : \E patch : StartPrivacy(h, a, patch) BY <1>2 DEF PrivacyRequest
 <2> QED BY <2>1, StartPrivacyTurns, BeginnersAreIdle DEF Acts, StartPrivacy
<1>3. CASE VisibilityRequest(h)
 <2>1. \E a \in Accounts : \E patch : StartPrivacy(h, a, patch) BY <1>3 DEF VisibilityRequest
 <2> QED BY <2>1, StartPrivacyTurns, BeginnersAreIdle DEF Acts, StartPrivacy
<1> QED BY <1>1, <1>2, <1>3

\* Whatever rooms do.
LEMMA RoomActs ==
  ASSUME StoreTyped, JobsTyped, NEW h \in Handlers, NEW value,
         \/ RoomStep(h) \/ RoomRequest(h)
         \/ (SeatRequest(h) \/ Setting(h, value)) /\ Len(records) > 0 /\ records[1].kind = "room"
         \/ \E a \in Accounts : StartJoin(h, a) \/ MoveRequest(h, a)
  PROVE  Acts(h, RoomOps)
<1>1. CASE RoomStep(h)
  BY <1>1, StepsFit, RoomTurns DEF RoomStep, CheckBan, FindMember, CountMembers, Evict, WriteLog, Doing,
     Works, Fits, RoomOps, Acts
<1>2. CASE ~RoomStep(h)
 <2>1. \E j : Begin(h, j)
   BY <1>2 DEF RoomRequest, SeatRequest, StartJoin, MoveRequest, StartMove, Kick, StartBan, Unban,
      RequestSeat, MuteMember, AnswerSeat, MuteSeat, Setting
 <2> QED BY <2>1, BeginnersAreIdle, RoomTurns DEF Acts
<1> QED BY <1>1, <1>2

\* Whatever breakouts do.
LEMMA BreakoutActs ==
  ASSUME StoreTyped, JobsTyped, NEW h \in Handlers, BreakoutStep(h) \/ BreakoutRequest(h)
  PROVE  Acts(h, BreakoutOps)
<1>1. CASE BreakoutStep(h)
  BY <1>1, StepsFit, BreakoutTurns DEF BreakoutStep, Dismiss, CheckMember, FindAttendance, CountAudience,
     Doing, Works, BreakoutOps, Acts
<1>2. CASE BreakoutRequest(h)
 <2>1. \E j : Begin(h, j)
   BY <1>2 DEF BreakoutRequest, CreateBreakout, EndBreakout, StartAttend, LeaveBreakout
 <2> QED BY <1>2, <2>1, BeginnersAreIdle, BreakoutTurns DEF Acts
<1> QED BY <1>1, <1>2

\* Whatever the music does.
LEMMA MusicActs ==
  ASSUME StoreTyped, JobsTyped, NEW h \in Handlers, MusicStep(h) \/ MusicRequest(h)
  PROVE  Acts(h, MusicOps)
<1>1. CASE MusicStep(h)
 <2>1. \/ job[h].op \in {"grant", "queue", "remove", "reorder"}
       \/ job[h].at \in {"player", "pause", "volume", "play", "previous", "start", "show", "advance"}
   BY <1>1, Zenon DEF MusicStep, GrantDj, QueueTrack, RemoveTrack, Reindex, Reorder, GetPlayer, Pause,
      SetVolume, ChooseTrack, EndPrevious, StartTrack, ShowTrack, Advance, Doing
 <2>2. Works(h, MusicOps)
  <3>1. CASE job[h].op \in {"grant", "queue", "remove", "reorder"} BY <3>1 DEF Works, MusicOps
  <3>2. CASE job[h].at \in {"player", "pause", "volume", "play", "previous", "start", "show", "advance"}
   <4>1. Fits(job[h].op, job[h].at) BY <3>2, StepsFit
   <4> QED BY <3>2, <4>1 DEF Works, Fits, MusicOps, Players, Controls
  <3> QED BY <2>1, <3>1, <3>2
 <2> QED BY <1>1, <2>2, MusicTurns DEF Acts
<1>2. CASE MusicRequest(h)
 <2>1. \E j : Begin(h, j)
   BY <1>2 DEF MusicRequest, StartGrant, RevokeDj, StartQueue, StartLook, StartRemove, StartControl, StartReorder
 <2> QED BY <1>2, <2>1, BeginnersAreIdle, MusicTurns DEF Acts
<1> QED BY <1>1, <1>2

\* Whatever support does.
LEMMA SupportActs ==
  ASSUME StoreTyped, JobsTyped, NEW h \in Handlers, SupportStep(h) \/ SupportRequest(h)
  PROVE  Acts(h, SupportOps)
<1>1. CASE SupportStep(h)
  BY <1>1, SupportTurns DEF SupportStep, AnswerReply, FindReview, FindAppeal, ChangeReview, Doing, Works,
     SupportOps, Acts
<1>2. CASE SupportRequest(h)
 <2>1. \E j : Begin(h, j)
   BY <1>2, Zenon DEF SupportRequest, OpenTicket, OpenReport, Attach, StartAppeal, Reply, Escalate,
      AssignAppeal, SetStatus, StartReview, DecideAppeal
 <2> QED BY <1>2, <2>1, BeginnersAreIdle, SupportTurns DEF Acts
<1> QED BY <1>1, <1>2

\* Whatever sessions do.
LEMMA SessionsAct ==
  ASSUME StoreTyped, JobsTyped, NEW h \in Handlers, SessionStep(h) \/ SessionRequest(h)
  PROVE  Acts(h, SessionOps)
<1>1. CASE SessionStep(h)
 <2>1. job[h].at \in {"count", "forget", "identity", "create", "bind", "session", "account", "do", "revokeAll"}
       /\ (job[h].at = "count" => job[h].op = "login")
   BY <1>1, Zenon DEF SessionStep, CountAttempt, ForgetChallenge, FindIdentity, CreateAccount, BindIdentity,
      CreateSession, CheckAccount, RevokeSession, SoftDelete, RevokeAllSessions, Doing
 <2>2. Works(h, SessionOps)
  <3>1. Fits(job[h].op, job[h].at) BY <2>1, StepsFit
  <3> QED BY <2>1, <3>1 DEF Works, Fits, SessionOps
 <2> QED BY <1>1, <2>2, SessionTurns DEF Acts
<1>2. CASE SessionRequest(h)
 <2>1. (\E j : Begin(h, j)) \/ Once(h)
   BY <1>2 DEF SessionRequest, IssueOtp, WroteOnce, StartSocial, StartVerify, StartCall
 <2> QED BY <1>2, <2>1, BeginnersAreIdle, SessionTurns DEF Acts
<1> QED BY <1>1, <1>2

\* Whatever views do.
LEMMA ViewsAct ==
  ASSUME StoreTyped, JobsTyped, NEW h \in Handlers, ViewStep(h) \/ FeedStep(h) \/ ViewRequest(h) \/ FeedRequest(h)
  PROVE  Acts(h, ViewOps)
<1>1. CASE ViewStep(h) \/ FeedStep(h)
 <2>1. job[h].at \in {"look", "circle", "list", "feed"}
   BY <1>1, Zenon DEF ViewStep, FeedStep, LookAtProfile, AnswerFull, PassGate, ListFollows, ReadListing,
      AnswerFeed, Doing
 <2>2. Works(h, ViewOps)
  <3>1. Fits(job[h].op, job[h].at) BY <2>1, StepsFit
  <3> QED BY <2>1, <3>1 DEF Works, Fits, ViewOps
 <2> QED BY <1>1, <2>2, ViewTurns DEF Acts
<1>2. CASE ViewRequest(h) \/ FeedRequest(h)
 <2>1. (\E j : Begin(h, j)) \/ Once(h) BY <1>2 DEF ViewRequest, FeedRequest, Search, StartView, StartFeed
 <2> QED BY <1>2, <2>1, BeginnersAreIdle, ViewTurns DEF Acts
<1> QED BY <1>1, <1>2

\* Whatever staff does.
LEMMA AdminActs ==
  ASSUME StoreTyped, JobsTyped, NEW h \in Handlers,
         \/ AdminStep(h) \/ SuspendRequest(h)
         \/ Len(records) > 0 /\ records[1].kind = "room" /\ \E by : CloseRoom(h, by)
  PROVE  Acts(h, AdminOps)
<1>1. CASE AdminStep(h)
 <2>1. Works(h, AdminOps)
   BY <1>1, StepsFit DEF AdminStep, SetSuspended, RecordAudit, AuditFails, Works, Fits, AdminOps
 <2> QED BY <1>1, <2>1, AdminTurns DEF Acts
<1>2. CASE ~AdminStep(h)
 <2>1. \E j : Begin(h, j) BY <1>2 DEF SuspendRequest, StartSuspend, CloseRoom
 <2> QED BY <1>2, <2>1, BeginnersAreIdle, AdminTurns, CloseRoomTurns DEF Acts
<1> QED BY <1>1, <1>2
-----------------------------
\* Kinds of requests, but for those of staff and of sessions.
PlainOps == NoticeOps \cup SocialOps \cup ChatOps \cup PrivacyOps \cup RoomOps \cup BreakoutOps \cup MusicOps
            \cup SupportOps \cup ViewOps

\* What every step is.
Store(h) == StoreStep(h) \/ CutOff(h)

\* It is of more kinds as well.
LEMMA MoreActs ==
  ASSUME NEW h, NEW S, NEW T, S \subseteq T, Acts(h, S)
  PROVE  Acts(h, T)
  BY DEF Acts, Turned, Works

\* The records and the requests that work on them are what they should be.
Inv1 == StoreTyped /\ JobsTyped /\ ChatTyped

\* The disjuncts of the next-state relation are steps of a handler.
LEMMA PlainSteps ==
  ASSUME Inv1,
         \/ Notices \/ Socializing \/ Chatting \/ KeepingAway \/ Rooming \/ BreakingOut
         \/ PlayingMusic \/ Supporting \/ Viewing \/ Hiding \/ Happening \/ Staying
  PROVE  \/ \E h \in Handlers : Acts(h, PlainOps)
         \/ UNCHANGED storeVars
<1>1. StoreTyped /\ JobsTyped /\ ChatTyped BY DEF Inv1
<1>2. ASSUME NEW h \in Handlers, NEW S, S \subseteq PlainOps, Acts(h, S) PROVE \E g \in Handlers : Acts(g, PlainOps)
  BY <1>2, MoreActs
<1>3. NoticeOps \subseteq PlainOps /\ SocialOps \cup {"send"} \subseteq PlainOps /\ ChatOps \subseteq PlainOps
  BY DEF PlainOps, ChatOps
<1>4. PrivacyOps \subseteq PlainOps /\ RoomOps \subseteq PlainOps /\ BreakoutOps \subseteq PlainOps
  BY DEF PlainOps
<1>5. MusicOps \subseteq PlainOps /\ SupportOps \subseteq PlainOps /\ ViewOps \subseteq PlainOps
  BY DEF PlainOps
<1>6. serving \in InRooms => Len(records) > 0 /\ records[1].kind = "room" BY <1>1 DEF StoreTyped
<1>7. CASE Notices
 <2>1. PICK h \in Handlers : NotifyStep(h) \/ MarkRead(h) \/ NoticeRequest(h) BY <1>7 DEF Notices
 <2>2. Acts(h, NoticeOps) BY <1>1, <2>1, NoticesAct
 <2> QED BY <1>2, <1>3, <2>2
<1>8. CASE Socializing
 <2>1. PICK h \in Handlers :
         \/ SocialStep(h) \/ SocialRequest(h) \/ MuteRequest(h)
         \/ \E a, b \in Accounts : StartRelation(h, "follow", a, b)
   BY <1>8 DEF Socializing
 <2>2. Acts(h, SocialOps \cup {"send"}) BY <1>1, <2>1, SocialActs
 <2> QED BY <1>2, <1>3, <2>2
<1>9. CASE Chatting
 <2>1. CASE \E h \in Handlers : ChatStep(h) \/ ChatRequest(h)
  <3>1. PICK h \in Handlers : ChatStep(h) \/ ChatRequest(h) BY <2>1
  <3>2. Acts(h, ChatOps) BY <1>1, <3>1, ChatActs
  <3> QED BY <1>2, <1>3, <3>2
 <2>2. CASE \E a \in Accounts : PresenceExpires(a) BY <2>2 DEF PresenceExpires
 <2> QED BY <1>9, <2>1, <2>2 DEF Chatting
<1>10. CASE KeepingAway
 <2>1. PICK h \in Handlers :
         \/ SaveProfile(h) \/ PrivacyRequest(h)
         \/ \E a, b \in Accounts : Bar(h, "block", a, b) \/ Lift(h, "block", a, b)
   BY <1>10 DEF KeepingAway
 <2>2. Acts(h, PrivacyOps) \/ Acts(h, SocialOps \cup {"send"}) BY <1>1, <2>1, PrivacyActs, SocialActs
 <2> QED BY <1>2, <1>3, <1>4, <2>2
<1>11. CASE Rooming
 <2>1. PICK h \in Handlers : RoomStep(h) \/ RoomRequest(h) \/ (Takes(h, "seats") /\ SeatRequest(h))
   BY <1>11 DEF Rooming
 <2>2. Takes(h, "seats") => Len(records) > 0 /\ records[1].kind = "room" BY <1>6 DEF Takes, InRooms
 <2>3. Acts(h, RoomOps) BY <1>1, <2>1, <2>2, RoomActs
 <2> QED BY <1>2, <1>4, <2>3
<1>12. CASE BreakingOut
 <2>1. PICK h \in Handlers : BreakoutStep(h) \/ BreakoutRequest(h) BY <1>12 DEF BreakingOut
 <2>2. Acts(h, BreakoutOps) BY <1>1, <2>1, BreakoutActs
 <2> QED BY <1>2, <1>4, <2>2
<1>13. CASE PlayingMusic
 <2>1. PICK h \in Handlers : MusicStep(h) \/ MusicRequest(h) BY <1>13 DEF PlayingMusic
 <2>2. Acts(h, MusicOps) BY <1>1, <2>1, MusicActs
 <2> QED BY <1>2, <1>5, <2>2
<1>14. CASE Supporting
 <2>1. PICK h \in Handlers : SupportStep(h) \/ SupportRequest(h) BY <1>14 DEF Supporting
 <2>2. Acts(h, SupportOps) BY <1>1, <2>1, SupportActs
 <2> QED BY <1>2, <1>5, <2>2
<1>15. CASE Viewing
 <2>1. PICK h \in Handlers : ViewStep(h) \/ FeedStep(h) \/ ViewRequest(h) \/ FeedRequest(h)
   BY <1>15 DEF Viewing
 <2>2. Acts(h, ViewOps) BY <1>1, <2>1, ViewsAct
 <2> QED BY <1>2, <1>5, <2>2
<1>16. CASE Hiding
 <2>1. PICK h \in Handlers :
         \/ VisibilityRequest(h)
         \/ \E a, b \in Accounts : Bar(h, "block", a, b) \/ Lift(h, "block", a, b)
         \/ \E a \in Accounts, i \in Rows : Answer(h, a, i, "accepted")
   BY <1>16 DEF Hiding, Rows
 <2>2. Acts(h, PrivacyOps) \/ Acts(h, SocialOps \cup {"send"}) BY <1>1, <2>1, PrivacyActs, SocialActs
 <2> QED BY <1>2, <1>3, <1>4, <2>2
<1>17. CASE Happening
 <2>1. PICK h \in Handlers :
         /\ Takes(h, "home")
         /\ \/ Setting(h, "private")
            \/ \E a \in Accounts : MoveRequest(h, a) \/ Lift(h, "follow", a, RoomOwner)
   BY <1>17 DEF Happening
 <2>2. Len(records) > 0 /\ records[1].kind = "room" BY <1>6, <2>1 DEF Takes, InRooms
 <2>3. CASE Setting(h, "private") \/ \E a \in Accounts : MoveRequest(h, a)
  <3>1. Acts(h, RoomOps) BY <1>1, <2>2, <2>3, RoomActs
  <3> QED BY <1>2, <1>4, <3>1
 <2>4. CASE \E a \in Accounts : Lift(h, "follow", a, RoomOwner)
  <3>1. Acts(h, SocialOps \cup {"send"}) BY <1>1, <2>4, SocialActs
  <3> QED BY <1>2, <1>3, <3>1
 <2> QED BY <2>1, <2>3, <2>4
<1>18. CASE Staying
 <2>1. PICK h \in Handlers, value \in RoomSettings \cup {"none"} :
         /\ Takes(h, "closing")
         /\ (\E a \in Accounts : StartJoin(h, a)) \/ Setting(h, value)
   BY <1>18 DEF Staying
 <2>2. Len(records) > 0 /\ records[1].kind = "room" BY <1>6, <2>1 DEF Takes, InRooms
 <2>3. Acts(h, RoomOps) BY <1>1, <2>1, <2>2, RoomActs
 <2> QED BY <1>2, <1>4, <2>3
<1> QED BY <1>7, <1>8, <1>9, <1>10, <1>11, <1>12, <1>13, <1>14, <1>15, <1>16, <1>17, <1>18
-----------------------------
\* Sessions take steps of theirs.
LEMMA SessionSteps ==
  ASSUME Inv1, LoggingIn
  PROVE  \E h \in Handlers : Acts(h, SessionOps)
<1>1. PICK h \in Handlers : SessionStep(h) \/ SessionRequest(h) BY DEF LoggingIn
<1> QED BY <1>1, SessionsAct DEF Inv1

\* Staff take steps of theirs.
LEMMA StaffSteps ==
  ASSUME Inv1, Administering
  PROVE  \E h \in Handlers : Acts(h, AdminOps)
<1>1. PICK h \in Handlers :
        \/ AdminStep(h) \/ SuspendRequest(h)
        \/ Takes(h, "closing") /\ \E by \in Admins : CloseRoom(h, by)
  BY DEF Administering
<1>2. Takes(h, "closing") => Len(records) > 0 /\ records[1].kind = "room"
  BY DEF Takes, InRooms, Inv1, StoreTyped
<1> QED BY <1>1, <1>2, AdminActs DEF Inv1

\* Kinds of requests.
AllOps == PlainOps \cup SessionOps \cup AdminOps

\* A step is a step of a handler, in the store or not, or has no part in it.
LEMMA StepShape ==
  ASSUME Inv1, [PlatformNext]_platformVars
  PROVE  /\ serving' = serving
         /\ \/ \E h \in Handlers : Acts(h, AllOps)
            \/ \E h \in Handlers : StoreStep(h) \/ CutOff(h)
            \/ UNCHANGED storeVars
<1>1. CASE \/ Notices \/ Socializing \/ Chatting \/ KeepingAway \/ Rooming \/ BreakingOut
           \/ PlayingMusic \/ Supporting \/ Viewing \/ Hiding \/ Happening \/ Staying
 <2>1. (\E h \in Handlers : Acts(h, PlainOps)) \/ UNCHANGED storeVars BY <1>1, PlainSteps
 <2>2. serving' = serving
   BY <1>1 DEF Notices, Socializing, Chatting, KeepingAway, Rooming, BreakingOut, PlayingMusic, Supporting,
      Viewing, Hiding, Happening, Staying
 <2> QED BY <2>1, <2>2, MoreActs DEF AllOps
<1>2. CASE LoggingIn
 <2>1. SessionOps \subseteq AllOps BY DEF AllOps
 <2> QED BY <1>2, <2>1, SessionSteps, MoreActs DEF LoggingIn
<1>3. CASE Administering
 <2>1. AdminOps \subseteq AllOps BY DEF AllOps
 <2> QED BY <1>3, <2>1, StaffSteps, MoreActs DEF Administering
<1>4. CASE Records BY <1>4 DEF Records
<1>5. CASE UNCHANGED platformVars BY <1>5 DEF platformVars
<1> QED BY <1>1, <1>2, <1>3, <1>4, <1>5 DEF PlatformNext

\* A request that is cut off is gone.
LEMMA CutOffKeeps ==
  ASSUME StoreTyped, JobsTyped, NEW h \in Handlers, CutOff(h), serving' = serving
  PROVE  StoreTyped' /\ JobsTyped' /\ RowsKept
<1>1. UNCHANGED <<accepted, records, writes, trace>> /\ job' = [job EXCEPT ![h] = Idle] BY DEF CutOff
<1>2. DOMAIN job' = Handlers /\ job'[h] = Idle /\ \A g \in Handlers : g # h => job'[g] = job[g]
  BY <1>1 DEF StoreTyped
<1>3. RowsKept BY <1>1 DEF RowsKept, RowsMove, StoreTyped, SameRow, Rows
<1>4. StoreTyped'
 <2>1. \A r : Refers(r) => Refers(r)' BY <1>3, RefersKept
 <2>2. records' = records /\ Rows' = Rows BY <1>1 DEF Rows
 <2>3. ASSUME NEW i \in Rows PROVE WellFormed(records'[i]) /\ Refers(records[i])'
   BY <2>1, <2>2 DEF StoreTyped
 <2> QED BY <1>1, <1>2, <2>2, <2>3 DEF StoreTyped
<1> QED BY <1>2, <1>3, <1>4, JobsKept

\* The store and the requests stay as they should be.
LEMMA StoreKeeps ==
  ASSUME Inv1, [PlatformNext]_platformVars
  PROVE  StoreTyped' /\ JobsTyped' /\ RowsKept
<1>1. serving' = serving BY StepShape
<1>2. CASE \E h \in Handlers : Acts(h, AllOps)
 <2>1. PICK h \in Handlers : Acts(h, AllOps) BY <1>2
 <2>2. RowsKept BY <2>1 DEF Acts, Turned, RowsKept, RowsMove, Inv1, StoreTyped, SameRow, Rows
 <2> QED BY <1>1, <2>1, <2>2, TurnedKeeps DEF Acts, Inv1
<1>3. CASE \E h \in Handlers : StoreStep(h) \/ CutOff(h)
 <2>1. PICK h \in Handlers : StoreStep(h) \/ CutOff(h) BY <1>3
 <2>2. CASE AddRow(h) BY <1>1, <2>2, AddRowKeeps DEF Inv1
 <2>3. CASE ReadRow(h)
  <3>1. Turned(h, {job[h].op}) BY <2>3, ReadRowTurns DEF Inv1
  <3>2. RowsKept BY <3>1 DEF Turned, RowsKept, RowsMove, Inv1, StoreTyped, SameRow, Rows
  <3> QED BY <1>1, <3>1, <3>2, TurnedKeeps DEF Inv1
 <2>4. CASE WriteRow(h) BY <1>1, <2>4, WriteRowKeeps DEF Inv1
 <2>5. CASE CutOff(h) BY <1>1, <2>5, CutOffKeeps DEF Inv1
 <2> QED BY <2>1, <2>2, <2>3, <2>4, <2>5 DEF StoreStep
<1>4. CASE UNCHANGED storeVars
 <2>1. UNCHANGED <<job, accepted, records, writes, trace>> BY <1>4 DEF storeVars, handlerVars
 <2>2. RowsKept BY <2>1 DEF RowsKept, RowsMove, Inv1, StoreTyped, SameRow, Rows
 <2>3. \A r : Refers(r) => Refers(r)' BY <2>2, RefersKept
 <2>4. \A j : Typed(j) => Typed(j)' BY <2>2, TypedKept
 <2>5. records' = records /\ Rows' = Rows BY <2>1 DEF Rows
 <2>6. ASSUME NEW i \in Rows PROVE WellFormed(records'[i]) /\ Refers(records[i])'
   BY <2>3, <2>5 DEF Inv1, StoreTyped
 <2>7. StoreTyped' BY <1>1, <2>1, <2>5, <2>6 DEF Inv1, StoreTyped
 <2>8. JobsTyped'
  <3> SUFFICES ASSUME NEW g \in Handlers PROVE job'[g] = Idle \/ Typed(job[g])' BY DEF JobsTyped
  <3>1. job'[g] = job[g] BY <2>1
  <3> QED BY <2>4, <3>1 DEF Inv1, JobsTyped
 <2> QED BY <2>2, <2>7, <2>8
<1> QED BY <1>2, <1>3, <1>4, StepShape

\* Conversations stay those of two accounts.
LEMMA ChatKeeps ==
  ASSUME Inv1, [PlatformNext]_platformVars
  PROVE  ChatTyped'
<1>1. CASE UNCHANGED conversations BY <1>1 DEF Inv1, ChatTyped, IsOpen
<1>2. CASE \E h \in Handlers : OpenConversation(h)
 <2>1. PICK h \in Handlers : OpenConversation(h) BY <1>2
 <2> DEFINE j == job[h]
 <2>2. Typed(j) /\ j.op = "open" BY <2>1 DEF OpenConversation, Doing, Inv1, JobsTyped, Idle
 <2>3. j.who \in Accounts /\ j.to \in Accounts /\ j.who # j.to /\ j.key = {j.who, j.to}
   BY <2>2 DEF Typed, Carries, Tells, Told, CarriesPair
 <2>4. conversations' = IF IsOpen(j.key) THEN conversations
                        ELSE [conversations EXCEPT ![j.key] = [opener |-> j.who, began |-> j.began]]
   BY <2>1 DEF OpenConversation
 <2> HIDE DEF j
 <2>5. CASE IsOpen(j.key) BY <2>4, <2>5, <1>1
 <2>6. CASE ~IsOpen(j.key)
  <3>1. DOMAIN conversations' = Pairs /\ \A c \in Pairs \ {j.key} : conversations'[c] = conversations[c]
    BY <2>4, <2>6 DEF Inv1, ChatTyped
  <3>2. j.key \in Pairs => conversations'[j.key].opener = j.who BY <2>4, <2>6 DEF Inv1, ChatTyped
  <3> SUFFICES ASSUME NEW c \in Pairs, IsOpen(c)'
               PROVE  conversations'[c].opener \in c /\ \E a, b \in Accounts : a # b /\ c = {a, b}
    BY <3>1 DEF ChatTyped
  <3>3. CASE c = j.key BY <2>3, <3>2, <3>3
  <3>4. CASE c # j.key BY <3>1, <3>4 DEF Inv1, ChatTyped, IsOpen
  <3> QED BY <3>3, <3>4
 <2> QED BY <2>5, <2>6
<1>3. UNCHANGED conversations \/ \E h \in Handlers : OpenConversation(h)
 <2>1. CASE Chatting
   BY <2>1, Zenon DEF Chatting, ChatStep, ChatRequest, ReadPrivacy, ReadFriendship, CheckAllowed, ReadPresence,
      PostMessage, ChangeMessages, StartOpen, StartSend, StartOnChat, SetPresence, PresenceExpires, chatVars
 <2>2. CASE ~Chatting
   BY <2>2 DEF PlatformNext, platformVars, chatVars, Records, Notices, Socializing, KeepingAway, Rooming,
      BreakingOut, PlayingMusic, Supporting, LoggingIn, Viewing, Hiding, Administering, Happening, Staying
 <2> QED BY <2>1, <2>2
<1> QED BY <1>1, <1>2, <1>3

\* They stay so, and no record disappears.
LEMMA Inv1Keeps ==
  ASSUME Inv1, [PlatformNext]_platformVars
  PROVE  Inv1' /\ RowsKept
  BY StoreKeeps, ChatKeeps DEF Inv1
-----------------------------
\* It begins with what an earlier use left, and no request.
LEMMA InitInv1 ==
  ASSUME PlatformInit
  PROVE  Inv1
<1>1. PICK seed \in Seeds[serving] : StoreInit(seed) BY DEF PlatformInit
<1>2. serving \in Services /\ job = [h \in Handlers |-> Idle] /\ accepted = 0
  BY DEF PlatformInit, HandlersInit
<1>3. records = seed /\ writes = 0 /\ trace = [i \in 1..Len(seed) |-> {}] BY <1>1 DEF StoreInit
<1>4. /\ seed \in Seq({seed[i] : i \in 1..Len(seed)})
      /\ serving \in InRooms => Len(seed) > 0 /\ seed[1].kind = "room"
      /\ \A i \in 1..Len(seed) :
          /\ WellFormed(seed[i])
          /\ seed[i].kind = "player" => seed[i].current \in {0} \cup OfKind(seed, "track")
          /\ seed[i].kind = "appeal" => seed[i].of \in OfKind(seed, "review")
  BY <1>1, <1>2, SeedsAssumption
<1>5. Len(seed) \in Nat /\ DOMAIN seed = 1..Len(seed) BY <1>4
<1>6. Sequence(seed) /\ Sequence(trace) /\ Len(trace) = Len(seed)
 <2>1. trace \in Seq({{}}) BY <1>3, <1>5
 <2>2. Len(trace) = Len(seed) BY <1>3, <1>5, <2>1
 <2> QED BY <1>3, <1>4, <1>5, <2>1, <2>2 DEF Sequence
<1>7. Rows = 1..Len(seed) BY <1>3 DEF Rows
<1>8. ASSUME NEW i \in Rows PROVE WellFormed(records[i]) /\ Refers(records[i])
  BY <1>3, <1>4, <1>7 DEF Refers, IsTrack, IsReview, OfKind
<1>9. StoreTyped BY <1>2, <1>3, <1>4, <1>6, <1>7, <1>8 DEF StoreTyped
<1>10. JobsTyped BY <1>2 DEF JobsTyped
<1>11. ChatTyped BY DEF PlatformInit, ChatInit, ChatTyped, IsOpen
<1> QED BY <1>9, <1>10, <1>11 DEF Inv1
-----------------------------
(* Sessions: what a login and a request of an account know while others
   are at work, and what has been tried, bound and served. *)
SessionJob(j) ==
  /\ j.op = "login" => j.key \in Phones
  /\ j.op = "login" /\ j.at \in {"bind", "session"} => j.who \in existing
  /\ j.op \in {"call", "delete", "logout"} =>
       j.key \in 1..Len(sessions) /\ j.who = sessions[j.key].account /\ j.ended \in 1..Len(sessions)
  /\ j.op \in {"call", "delete", "logout"} /\ j.at = "account" =>
       sessions[j.key].revokedAt = 0 \/ j.began < sessions[j.key].revokedAt

\* What the tables of accounts, identities and sessions keep.
SessionsData ==
  /\ existing \subseteq Accounts
  /\ Sequence(sessions)
  /\ \A n \in 1..Len(sessions) : sessions[n] \in [account : existing, revokedAt : 0..writes]
  /\ deletedAt \in [Accounts -> 0..writes]
  /\ identities \in [Phones -> existing \cup {NoAccount}]

\* And what requests carry that work on them.
SessionsTyped == SessionsData /\ \A h \in Handlers : SessionJob(job[h])

\* Who was served was let in before its session or its account ended.
ServedSound ==
  /\ \A x \in served : x.session \in 1..Len(sessions) /\ x.account \in Accounts /\ x.began \in 0..writes
  /\ ServedOnlyLive

\* Attempts at code c.
Mine(c) == {x \in attempts : x.code = c}
Failed(c) == {x \in Mine(c) : ~x.opened}
Opened(c) == {x \in Mine(c) : x.opened}
Clash(c) == \E x, y \in Mine(c) : x.by # y.by /\ Together(x, y)

\* A login that is at its code.
AtCode(j) == j.op = "login" /\ j.at \in {"count", "forget"}

\* Another login has tried the code since this one read it.
Late(j) == \E x \in Mine(j.challenge.code) : x.by # j.by /\ j.began < x.wrote

\* What a login has read of its code still holds, or it is too late, which
\* shows when it writes.
CodeJob(j) ==
  LET c == j.challenge.code IN
  /\ j.by \in Nat /\ j.by < accepted
  /\ j.challenge \in [code : 1..writes, tries : 0..MaxTries] /\ j.challenge.tries < MaxTries
  /\ \/ Clash(c) \/ Late(j)
     \/ Opened(c) = {} /\ (j.at = "count" => Cardinality(Failed(c)) <= j.challenge.tries)

\* What is kept of the code of a phone is right.
PhoneCode(p) ==
  LET c == challenges[p].code IN
  \/ challenges[p] = NoCode
  \/ c # 0 /\ (Clash(c) \/ (Opened(c) = {} /\ Cardinality(Failed(c)) <= challenges[p].tries))

\* A code opens one login and takes so many attempts, or two of them overlapped.
CodeBound(c) == Clash(c) \/ (Cardinality(Opened(c)) <= 1 /\ Cardinality(Failed(c)) <= MaxTries)

\* What is kept right of codes and of attempts at them.
CodesInv ==
  /\ challenges \in [Phones -> [code : 0..writes, tries : 0..MaxTries]]
  /\ IsFiniteSet(attempts)
  /\ \A x \in attempts : x.code \in 1..writes /\ x.began \in 0..writes /\ x.wrote \in 0..writes
       /\ x.opened \in BOOLEAN
  /\ \A h \in Handlers : AtCode(job[h]) => CodeJob(job[h])
  /\ \A g, h \in Handlers : g # h /\ AtCode(job[g]) /\ AtCode(job[h]) => job[g].by # job[h].by
  /\ \A p \in Phones : PhoneCode(p)
  /\ \A c \in 1..writes : CodeBound(c)

\* A code is one phone's.
CodesApart ==
  /\ \A p, q \in Phones : challenges[p].code # 0 /\ challenges[p].code = challenges[q].code => p = q
  /\ \A h \in Handlers, p \in Phones :
       AtCode(job[h]) /\ challenges[p].code = job[h].challenge.code => p = job[h].key
  /\ \A g, h \in Handlers :
       AtCode(job[g]) /\ AtCode(job[h]) /\ job[g].challenge.code = job[h].challenge.code => job[g].key = job[h].key

\* A phone that has no account has had none, and a login that makes one began
\* before any other was bound.
BoundInv ==
  /\ \A x \in bound : x.phone \in Phones /\ x.began \in 0..writes /\ x.wrote \in 0..writes /\ x.began < x.wrote
  /\ \A x \in bound : identities[x.phone] # NoAccount
  /\ \A h \in Handlers : job[h].op = "login" /\ job[h].at \in {"create", "bind"} =>
       \A x \in bound : x.phone = job[h].key => job[h].began < x.wrote
  /\ \A x, y \in bound : x.phone = y.phone => x = y \/ Together(x, y)
-----------------------------
\* Who adds or updates a record works for none of these.
LEMMA RecordsApart ==
  ASSUME NEW j, Typed(j), j.at \in {"add", "update"}
  PROVE  j.op \notin SessionOps \cup {"suspend", "unsuspend"}
<1>1. CASE j.at = "add"
 <2>1. NewRow(j, j.new, j.then) BY <1>1 DEF Typed
 <2> QED BY <2>1 DEF NewRow, SessionOps, Players, Controls
<1>2. CASE j.at = "update"
 <2>1. \E u : Mend(j, u, j.then) BY <1>2 DEF Typed
 <2>2. \E kind, patch : Mends(j.op, kind, patch, j.then) BY <2>1 DEF Mend
 <2> QED BY <2>2 DEF Mends, SessionOps, Reached, Transitions
<1> QED BY <1>1, <1>2

\* No request of these kinds comes, or goes on.
Apart(ops) == \A g \in Handlers : job'[g] \in {Idle, job[g]} \/ job'[g].op \notin ops

\* A step that a request of other kinds takes.
LEMMA ActsApart ==
  ASSUME NEW h \in Handlers, NEW S, NEW T, S \cap T = {}, Acts(h, S)
  PROVE  Apart(T)
<1> SUFFICES ASSUME NEW g \in Handlers PROVE job'[g] \in {Idle, job[g]} \/ job'[g].op \notin T BY DEF Apart
<1> QED BY DEF Acts, Turned

\* A record that is added, read or updated, or a request that is cut off.
LEMMA StoreApart ==
  ASSUME Inv1, serving' = serving, NEW h \in Handlers, StoreStep(h) \/ CutOff(h)
  PROVE  Apart(SessionOps \cup {"suspend", "unsuspend"}) /\ accepted' = accepted
<1>1. accepted' = accepted BY Zenon DEF StoreStep, AddRow, ReadRow, WriteRow, CutOff
<1>2. job[h] = Idle \/ Typed(job[h]) BY DEF Inv1, JobsTyped
<1>3. StoreTyped /\ JobsTyped BY DEF Inv1
<1> DEFINE T == SessionOps \cup {"suspend", "unsuspend"}
<1>4. job[h].at \in {"add", "update"} => job[h].op \notin T BY <1>2, RecordsApart DEF Idle
<1> HIDE DEF T
<1>5. CASE CutOff(h)
 <2>1. job'[h] = Idle /\ \A g \in Handlers : g # h => job'[g] = job[g] BY <1>3, <1>5 DEF CutOff, StoreTyped
 <2> QED BY <1>1, <2>1 DEF Apart, T
<1>6. CASE ReadRow(h)
 <2>1. job[h].at = "update" BY <1>6 DEF ReadRow
 <2>2. Turned(h, {job[h].op}) BY <1>3, <1>6, ReadRowTurns
 <2> QED BY <1>1, <1>4, <2>1, <2>2 DEF Apart, Turned, T
<1>7. CASE AddRow(h)
 <2>1. /\ \A g \in Handlers : g # h => job'[g] = job[g]
       /\ job'[h] = Idle \/ Resumes(job'[h], job[h])
   BY <1>3, <1>7, AddRowKeeps
 <2>2. job[h].at = "add" BY <1>7 DEF AddRow
 <2>3. Basic(job[h]) BY <1>2, <2>2 DEF Typed, Idle
 <2>4. job'[h] = Idle \/ job'[h].op = job[h].op BY <2>1, <2>3 DEF Resumes, Basic
 <2> QED BY <1>1, <1>4, <2>1, <2>2, <2>4 DEF Apart, T
<1>8. CASE WriteRow(h)
 <2>1. /\ \A g \in Handlers : g # h => job'[g] = job[g]
       /\ job'[h] = Idle \/ Resumes(job'[h], job[h])
   BY <1>3, <1>8, WriteRowKeeps
 <2>2. job[h].at = "update" BY <1>8 DEF WriteRow
 <2>3. Basic(job[h]) BY <1>2, <2>2 DEF Typed, Idle
 <2>4. job'[h] = Idle \/ job'[h].op = job[h].op BY <2>1, <2>3 DEF Resumes, Basic
 <2> QED BY <1>1, <1>4, <2>1, <2>2, <2>4 DEF Apart, T
<1> QED BY <1>5, <1>6, <1>7, <1>8 DEF StoreStep

\* The kinds of requests are apart.
LEMMA KindsApart ==
  /\ PlainOps \cap (SessionOps \cup {"suspend", "unsuspend", "closeRoom"}) = {}
  /\ SessionOps \cap AdminOps = {}
<1>1. PlainOps \cap SessionOps = {}
  BY DEF PlainOps, NoticeOps, SocialOps, ChatOps, PrivacyOps, RoomOps, BreakoutOps, MusicOps, SupportOps,
     ViewOps, Players, Controls, Reached, Transitions, Lists, Tabs, SessionOps
<1>2. PlainOps \cap AdminOps = {}
  BY DEF PlainOps, NoticeOps, SocialOps, ChatOps, PrivacyOps, RoomOps, BreakoutOps, MusicOps, SupportOps,
     ViewOps, Players, Controls, Reached, Transitions, Lists, Tabs, AdminOps
<1> QED BY <1>1, <1>2 DEF SessionOps, AdminOps

\* writes and accepted only grow.
LEMMA CountsGrow ==
  ASSUME Inv1, [PlatformNext]_platformVars
  PROVE  /\ writes \in Nat /\ writes' \in {writes, writes + 1}
         /\ accepted \in Nat /\ accepted' \in {accepted, accepted + 1}
<1>1. writes \in Nat /\ writes' \in {writes, writes + 1} BY Inv1Keeps DEF RowsKept
<1>2. accepted \in Nat BY DEF Inv1, StoreTyped
<1>3. CASE \E h \in Handlers : Acts(h, AllOps) BY <1>1, <1>2, <1>3 DEF Acts, Turned
<1>4. CASE \E h \in Handlers : StoreStep(h) \/ CutOff(h) BY <1>1, <1>2, <1>4, StoreApart, StepShape
<1>5. CASE UNCHANGED storeVars BY <1>1, <1>2, <1>5 DEF storeVars, handlerVars
<1> QED BY <1>3, <1>4, <1>5, StepShape

\* What others do leaves the sessions alone.
LEMMA SessionsApart ==
  ASSUME Inv1, [PlatformNext]_platformVars, ~LoggingIn
  PROVE  UNCHANGED loginVars /\ Apart(SessionOps)
<1>1. CASE \/ Notices \/ Socializing \/ Chatting \/ KeepingAway \/ Rooming \/ BreakingOut
           \/ PlayingMusic \/ Supporting \/ Viewing \/ Hiding \/ Happening \/ Staying
 <2>1. UNCHANGED loginVars
   BY <1>1 DEF Notices, Socializing, Chatting, KeepingAway, Rooming, BreakingOut, PlayingMusic, Supporting,
      Viewing, Hiding, Happening, Staying
 <2>2. CASE \E h \in Handlers : Acts(h, PlainOps)
  <3>1. PlainOps \cap SessionOps = {} BY KindsApart
  <3> QED BY <2>1, <2>2, <3>1, ActsApart
 <2>3. CASE UNCHANGED storeVars BY <2>1, <2>3 DEF storeVars, handlerVars, Apart
 <2> QED BY <1>1, <2>2, <2>3, PlainSteps
<1>2. CASE Administering
 <2>1. PICK h \in Handlers : Acts(h, AdminOps) BY <1>2, StaffSteps
 <2>2. AdminOps \cap SessionOps = {} BY KindsApart
 <2> QED BY <1>2, <2>1, <2>2, ActsApart DEF Administering
<1>3. CASE Records
 <2>1. UNCHANGED loginVars /\ serving' = serving BY <1>3 DEF Records
 <2>2. PICK h \in Handlers : StoreStep(h) \/ CutOff(h) BY <1>3 DEF Records
 <2>3. Apart(SessionOps \cup {"suspend", "unsuspend"}) BY <2>1, <2>2, StoreApart
 <2> QED BY <2>1, <2>3 DEF Apart
<1>4. CASE UNCHANGED platformVars BY <1>4 DEF platformVars, storeVars, handlerVars, Apart
<1> QED BY <1>1, <1>2, <1>3, <1>4 DEF PlatformNext

\* What others do leaves the deeds of staff alone.
LEMMA StaffApart ==
  ASSUME Inv1, [PlatformNext]_platformVars, ~Administering
  PROVE  UNCHANGED adminVars /\ Apart({"suspend", "unsuspend"})
<1>1. CASE \/ Notices \/ Socializing \/ Chatting \/ KeepingAway \/ Rooming \/ BreakingOut
           \/ PlayingMusic \/ Supporting \/ Viewing \/ Hiding \/ Happening \/ Staying
 <2>1. UNCHANGED adminVars
   BY <1>1 DEF Notices, Socializing, Chatting, KeepingAway, Rooming, BreakingOut, PlayingMusic, Supporting,
      Viewing, Hiding, Happening, Staying
 <2>2. CASE \E h \in Handlers : Acts(h, PlainOps)
  <3>1. PlainOps \cap {"suspend", "unsuspend"} = {} BY KindsApart
  <3> QED BY <2>1, <2>2, <3>1, ActsApart
 <2>3. CASE UNCHANGED storeVars BY <2>1, <2>3 DEF storeVars, handlerVars, Apart
 <2> QED BY <1>1, <2>2, <2>3, PlainSteps
<1>2. CASE LoggingIn
 <2>1. PICK h \in Handlers : Acts(h, SessionOps) BY <1>2, SessionSteps
 <2>2. SessionOps \cap {"suspend", "unsuspend"} = {} BY DEF SessionOps
 <2> QED BY <1>2, <2>1, <2>2, ActsApart DEF LoggingIn
<1>3. CASE Records
 <2>1. UNCHANGED adminVars /\ serving' = serving BY <1>3 DEF Records
 <2>2. PICK h \in Handlers : StoreStep(h) \/ CutOff(h) BY <1>3 DEF Records
 <2>3. Apart(SessionOps \cup {"suspend", "unsuspend"}) BY <2>1, <2>2, StoreApart
 <2> QED BY <2>1, <2>3 DEF Apart
<1>4. CASE UNCHANGED platformVars BY <1>4 DEF platformVars, storeVars, handlerVars, Apart
<1> QED BY <1>1, <1>2, <1>3, <1>4 DEF PlatformNext
-----------------------------
\* k is the request of j, at another step.
SameLogin(k, j) == k.op = j.op /\ k.key = j.key /\ k.began = j.began

\* A code is shown.
LEMMA VerifyFacts ==
  ASSUME StoreTyped, NEW h \in Handlers, NEW p, NEW right, StartVerify(h, p, right)
  PROVE  /\ challenges[p] # NoCode /\ challenges[p].tries < MaxTries
         /\ job'[h].op = "login" /\ job'[h].at = "count" /\ job'[h].key = p /\ job'[h].began = writes
         /\ job'[h].challenge = challenges[p] /\ job'[h].by = accepted
         /\ accepted' = accepted + 1 /\ writes' = writes /\ UNCHANGED loginVars
<1> DEFINE k == Merge(Request("login", NoAccount, p, "count"),
             [challenge |-> challenges[p], right |-> right, by |-> accepted])
<1>1. Begin(h, k) BY DEF StartVerify
<1>2. k.op = "login" /\ k.at = "count" /\ k.began = writes /\ k.key = p /\ k.challenge = challenges[p]
        /\ k.by = accepted
  BY DEF Request, Merge
<1> HIDE DEF k
<1>3. job'[h] = k BY <1>1 DEF Begin, Accept, StoreTyped
<1> QED BY <1>1, <1>2, <1>3 DEF StartVerify, Begin, Accept

\* A social login begins.
LEMMA SocialFacts ==
  ASSUME StoreTyped, NEW h \in Handlers, NEW p, StartSocial(h, p)
  PROVE  /\ job'[h].op = "login" /\ job'[h].at = "identity" /\ job'[h].key = p
         /\ writes' = writes /\ UNCHANGED loginVars
<1>1. Begin(h, Request("login", NoAccount, p, "identity")) /\ UNCHANGED loginVars BY DEF StartSocial
<1> QED BY <1>1 DEF Begin, Accept, StoreTyped, Request

\* A request comes with a session.
LEMMA CallFacts ==
  ASSUME StoreTyped, NEW h \in Handlers, NEW op, NEW n, NEW s, StartCall(h, op, n, s)
  PROVE  /\ sessions[n].revokedAt = 0
         /\ job'[h].op = op /\ job'[h].at = "account" /\ job'[h].key = n /\ job'[h].began = writes
         /\ job'[h].who = sessions[n].account /\ job'[h].ended = s
         /\ writes' = writes /\ UNCHANGED loginVars
<1> DEFINE k == Merge(Request(op, sessions[n].account, n, "account"), [ended |-> s])
<1>1. Begin(h, k) BY DEF StartCall
<1>2. k.op = op /\ k.at = "account" /\ k.began = writes /\ k.key = n /\ k.who = sessions[n].account /\ k.ended = s
  BY DEF Request, Merge
<1> HIDE DEF k
<1>3. job'[h] = k BY <1>1 DEF Begin, Accept, StoreTyped
<1> QED BY <1>1, <1>2, <1>3 DEF StartCall, Begin, Accept

\* k is j at another step, and perhaps of another account.
Alters(k, j, at) ==
  \/ k = [j EXCEPT !.at = at]
  \/ \E a : k = [j EXCEPT !.who = a, !.at = at]

\* The rest is as it was.
LEMMA AltersKeeps ==
  ASSUME NEW j, Basic(j), NEW k, NEW at, Alters(k, j, at)
  PROVE  /\ k.at = at /\ SameLogin(k, j)
         /\ "ended" \in DOMAIN j => k.ended = j.ended
         /\ "by" \in DOMAIN j => k.by = j.by
         /\ "challenge" \in DOMAIN j => k.challenge = j.challenge
<1>1. k.at = at /\ \A f \in DOMAIN j \ {"at", "who"} : k[f] = j[f]
 <2>1. CASE k = [j EXCEPT !.at = at] BY <2>1 DEF Basic
 <2>2. CASE \E a : k = [j EXCEPT !.who = a, !.at = at] BY <2>2 DEF Basic
 <2> QED BY <2>1, <2>2, Zenon DEF Alters
<1> QED BY <1>1 DEF Basic, SameLogin

\* A request goes on, or ends.
LEMMA StepFacts ==
  ASSUME StoreTyped, JobsTyped, NEW h \in Handlers, job[h].op \in SessionOps, NEW at,
         NEW k, Become(h, k) \/ Wrote(h, k), Alters(k, job[h], at)
  PROVE  /\ Typed(job[h]) /\ job[h] # Idle
         /\ accepted' = accepted
         /\ job'[h] = (IF at = "end" THEN Idle ELSE k) /\ k.at = at /\ SameLogin(k, job[h])
         /\ "ended" \in DOMAIN job[h] => k.ended = job[h].ended
         /\ "by" \in DOMAIN job[h] => k.by = job[h].by
         /\ "challenge" \in DOMAIN job[h] => k.challenge = job[h].challenge
<1>1. Typed(job[h]) /\ job[h] # Idle BY DEF JobsTyped, Idle, SessionOps
<1>2. Basic(job[h]) BY <1>1 DEF Typed
<1>3. accepted' = accepted /\ job' = [job EXCEPT ![h] = IF k.at = "end" THEN Idle ELSE k]
  BY DEF Become, Wrote
<1>4. job'[h] = IF k.at = "end" THEN Idle ELSE k BY <1>3 DEF StoreTyped
<1> QED BY <1>1, <1>2, <1>3, <1>4, AltersKeeps

\* An attempt at a code is counted, or opens the login.
LEMMA AttemptFacts ==
  ASSUME StoreTyped, JobsTyped, NEW h \in Handlers, CountAttempt(h) \/ ForgetChallenge(h)
  PROVE  /\ AtCode(job[h]) /\ job[h].began \in 0..writes
         /\ accepted' = accepted /\ writes' = writes + 1
         /\ attempts' = attempts \cup {Attempt(job[h], job[h].at = "forget")}
         /\ CountAttempt(h) => job[h].at = "count"
         /\ ForgetChallenge(h) => job[h].at = "forget"
         /\ AtCode(job'[h]) => /\ CountAttempt(h) /\ job'[h].at = "forget" /\ SameLogin(job'[h], job[h])
                               /\ job'[h].challenge = job[h].challenge /\ job'[h].by = job[h].by
         /\ job'[h] = Idle \/ (SameLogin(job'[h], job[h]) /\ job'[h].at \in {"forget", "identity"})
<1> DEFINE j == job[h]
<1>1. j.op = "login" /\ j.at \in {"count", "forget"} /\ (CountAttempt(h) => j.at = "count")
        /\ (ForgetChallenge(h) => j.at = "forget")
  BY DEF CountAttempt, ForgetChallenge, Doing
<1>2. j # Idle /\ Typed(j) /\ StoreTyped BY <1>1 DEF JobsTyped, Idle
<1>3. j.began \in 0..writes /\ {"challenge", "by"} \subseteq DOMAIN j
  BY <1>1, <1>2 DEF Typed, StoreTyped, Carries, CarriesStep
<1>4. CASE CountAttempt(h)
 <2> DEFINE at == IF j.right THEN "forget" ELSE "end"
            k == [j EXCEPT !.at = at]
 <2>1. Wrote(h, k) /\ attempts' = attempts \cup {Attempt(j, FALSE)} BY <1>4 DEF CountAttempt
 <2>2. writes' = writes + 1 /\ at \in {"forget", "end"} BY <2>1 DEF Wrote
 <2> HIDE DEF at
 <2>3. j.op \in SessionOps /\ Alters(k, j, k.at) BY <1>1, <1>2 DEF SessionOps, Alters, Typed, Basic
 <2>4. /\ accepted' = accepted /\ job'[h] = (IF at = "end" THEN Idle ELSE k) /\ k.at = at /\ SameLogin(k, j)
       /\ k.by = j.by /\ k.challenge = j.challenge
  <3>1. k.at = at BY <1>2 DEF Typed, Basic
  <3> QED BY <1>3, <2>1, <2>3, <3>1, StepFacts
 <2>5. attempts' = attempts \cup {Attempt(j, j.at = "forget")}
  <3>1. (j.at = "forget") = FALSE BY <1>1, <1>4
  <3> QED BY <2>1, <3>1, Zenon
 <2>6. ~ForgetChallenge(h) BY <1>1, <1>4
 <2> HIDE DEF k, j
 <2>7. CASE at = "end" BY <1>1, <1>3, <1>4, <2>2, <2>4, <2>5, <2>6, <2>7 DEF AtCode, Idle, j
 <2>8. CASE at = "forget" BY <1>1, <1>3, <1>4, <2>2, <2>4, <2>5, <2>6, <2>8 DEF AtCode, Idle, j
 <2> QED BY <2>2, <2>7, <2>8
<1>5. CASE ForgetChallenge(h)
 <2> DEFINE k == [j EXCEPT !.at = "identity"]
 <2>1. Wrote(h, k) /\ attempts' = attempts \cup {Attempt(j, TRUE)} BY <1>5 DEF ForgetChallenge
 <2>2. writes' = writes + 1 BY <2>1 DEF Wrote
 <2>3. j.op \in SessionOps /\ Alters(k, j, k.at) BY <1>1, <1>2 DEF SessionOps, Alters, Typed, Basic
 <2>4. accepted' = accepted /\ job'[h] = k /\ k.at = "identity" /\ SameLogin(k, j)
  <3>1. k.at = "identity" BY <1>2 DEF Typed, Basic
  <3> QED BY <1>3, <2>1, <2>3, <3>1, StepFacts
 <2>5. attempts' = attempts \cup {Attempt(j, j.at = "forget")}
  <3>1. (j.at = "forget") = TRUE BY <1>1, <1>5
  <3> QED BY <2>1, <3>1, Zenon
 <2>6. ~CountAttempt(h) BY <1>1, <1>5
 <2> HIDE DEF k, j
 <2> QED BY <1>1, <1>3, <1>5, <2>2, <2>4, <2>5, <2>6 DEF AtCode, Idle, j
<1> QED BY <1>4, <1>5
-----------------------------
\* What is as it was while others take steps.
LEMMA CodesFrame ==
  ASSUME CodesInv, CodesApart, UNCHANGED <<attempts, challenges>>,
         writes \in Nat, writes' \in {writes, writes + 1}, accepted \in Nat, accepted' \in {accepted, accepted + 1},
         \A g \in Handlers : AtCode(job'[g]) => job'[g] = job[g]
  PROVE  CodesInv' /\ CodesApart'
<1>1. \A c : /\ Mine(c)' = Mine(c) /\ Failed(c)' = Failed(c) /\ Opened(c)' = Opened(c)
             /\ Clash(c)' <=> Clash(c)
  BY DEF Mine, Failed, Opened, Clash
<1>2. \A c \in 1..writes' : c \notin 1..writes => Opened(c) = {} /\ Failed(c) = {}
  BY DEF CodesInv, Mine, Opened, Failed
<1>3. ASSUME NEW j, CodeJob(j) PROVE CodeJob(j)'
 <2>1. Late(j)' <=> Late(j) BY <1>1 DEF Late
 <2> QED BY <1>1, <1>3, <2>1 DEF CodeJob
<1>4. CodesInv'
 <2>1. challenges' \in [Phones -> [code : 0..writes', tries : 0..MaxTries]] BY DEF CodesInv
 <2>2. IsFiniteSet(attempts') BY DEF CodesInv
 <2>3. \A x \in attempts' : x.code \in 1..writes' /\ x.began \in 0..writes' /\ x.wrote \in 0..writes'
         /\ x.opened \in BOOLEAN
   BY DEF CodesInv
 <2>4. \A h \in Handlers : AtCode(job'[h]) => CodeJob(job[h])'
  <3> SUFFICES ASSUME NEW h \in Handlers, AtCode(job'[h]) PROVE CodeJob(job[h])' OBVIOUS
  <3>1. job'[h] = job[h] /\ CodeJob(job[h]) BY DEF CodesInv
  <3>2. \A j : j = job[h] => CodeJob(j)' BY <1>3, <3>1
  <3> QED BY <3>1, <3>2
 <2>5. \A g, h \in Handlers : g # h /\ AtCode(job'[g]) /\ AtCode(job'[h]) => job'[g].by # job'[h].by
   BY DEF CodesInv
 <2>6. \A p \in Phones : PhoneCode(p)' BY <1>1 DEF CodesInv, PhoneCode
 <2>7. ASSUME NEW c \in 1..writes'
       PROVE  CodeBound(c)'
  <3>1. CASE c \in 1..writes BY <1>1, <3>1 DEF CodesInv, CodeBound
  <3>2. CASE c \notin 1..writes
   <4>1. Cardinality({}) = 0 BY FS_EmptySet
   <4>2. Opened(c)' = {} /\ Failed(c)' = {} BY <1>1, <1>2, <3>2
   <4> QED BY <4>1, <4>2, TriesAssumption DEF CodeBound
  <3> QED BY <3>1, <3>2
 <2> QED BY <2>1, <2>2, <2>3, <2>4, <2>5, <2>6, <2>7 DEF CodesInv
<1>5. CodesApart' BY DEF CodesApart
<1> QED BY <1>4, <1>5

\* A code is sent: nobody has it yet.
LEMMA CodesIssue ==
  ASSUME Inv1, CodesInv, CodesApart, NEW h \in Handlers, NEW p \in Phones, IssueOtp(h, p)
  PROVE  CodesInv' /\ CodesApart'
<1> DEFINE n == writes + 1
<1>1. /\ writes' = n /\ accepted' = accepted + 1 /\ UNCHANGED <<job, attempts>>
      /\ challenges' = [challenges EXCEPT ![p] = [code |-> n, tries |-> 0]]
  BY DEF IssueOtp, WroteOnce, Once
<1>2. writes \in Nat /\ accepted \in Nat /\ n \in Nat /\ n # 0 /\ n > writes BY DEF Inv1, StoreTyped
<1>3. \A c : /\ Mine(c)' = Mine(c) /\ Failed(c)' = Failed(c) /\ Opened(c)' = Opened(c)
             /\ Clash(c)' <=> Clash(c)
  BY <1>1 DEF Mine, Failed, Opened, Clash
<1>4. Opened(n) = {} /\ Failed(n) = {} /\ Cardinality({}) = 0
  BY <1>2, FS_EmptySet DEF CodesInv, Mine, Opened, Failed
<1>5. ASSUME NEW j, CodeJob(j) PROVE CodeJob(j)' /\ j.challenge.code # n /\ j.challenge.code # 0
 <2>1. Late(j)' <=> Late(j) BY <1>3 DEF Late
 <2> QED BY <1>1, <1>2, <1>3, <1>5, <2>1 DEF CodeJob
<1>6. /\ challenges'[p] = [code |-> n, tries |-> 0]
      /\ \A q \in Phones : q # p => challenges'[q] = challenges[q]
      /\ \A q \in Phones : challenges[q].code \in 0..writes
      /\ challenges' \in [Phones -> [code : 0..n, tries : 0..MaxTries]]
 <2>1. [code |-> n, tries |-> 0] \in [code : 0..n, tries : 0..MaxTries] BY <1>2, TriesAssumption
 <2>2. challenges \in [Phones -> [code : 0..writes, tries : 0..MaxTries]] BY DEF CodesInv
 <2>3. [code : 0..writes, tries : 0..MaxTries] \subseteq [code : 0..n, tries : 0..MaxTries] BY <1>2
 <2> HIDE DEF n
 <2> QED BY <1>1, <2>1, <2>2, <2>3
<1>7. CodesInv'
 <2>1. challenges' \in [Phones -> [code : 0..writes', tries : 0..MaxTries]] BY <1>1, <1>6
 <2>2. IsFiniteSet(attempts') BY <1>1 DEF CodesInv
 <2>3. \A x \in attempts' : x.code \in 1..writes' /\ x.began \in 0..writes' /\ x.wrote \in 0..writes'
         /\ x.opened \in BOOLEAN
   BY <1>1, <1>2 DEF CodesInv
 <2>4. \A g \in Handlers : AtCode(job'[g]) => CodeJob(job[g])'
  <3> SUFFICES ASSUME NEW g \in Handlers, AtCode(job'[g]) PROVE CodeJob(job[g])' OBVIOUS
  <3>1. job'[g] = job[g] /\ CodeJob(job[g]) BY <1>1 DEF CodesInv
  <3>2. \A j : j = job[g] => CodeJob(j)' BY <1>5, <3>1
  <3> QED BY <3>1, <3>2
 <2>5. \A g, k \in Handlers : g # k /\ AtCode(job'[g]) /\ AtCode(job'[k]) => job'[g].by # job'[k].by
   BY <1>1 DEF CodesInv
 <2>6. ASSUME NEW q \in Phones
       PROVE  PhoneCode(q)'
  <3>1. CASE q = p
   <4>1. challenges'[q].code = n /\ challenges'[q].tries = 0 BY <1>6, <3>1
   <4>2. \A c : c = n => Opened(c)' = {} /\ Failed(c)' = {} /\ Cardinality({}) = 0 /\ c # 0
     BY <1>2, <1>3, <1>4
   <4> QED BY <4>1, <4>2 DEF PhoneCode
  <3>2. CASE q # p BY <1>3, <1>6, <3>2 DEF CodesInv, PhoneCode
  <3> QED BY <3>1, <3>2
 <2>7. ASSUME NEW c \in 1..writes'
       PROVE  CodeBound(c)'
  <3>1. CASE c \in 1..writes BY <1>3, <3>1 DEF CodesInv, CodeBound
  <3>2. CASE c = n BY <1>3, <1>4, <3>2, TriesAssumption DEF CodeBound
  <3> QED BY <1>1, <1>2, <3>1, <3>2
 <2> QED BY <2>1, <2>2, <2>3, <2>4, <2>5, <2>6, <2>7 DEF CodesInv
<1>8. CodesApart'
 <2>1. \A r, q \in Phones : challenges'[r].code # 0 /\ challenges'[r].code = challenges'[q].code => r = q
  <3> SUFFICES ASSUME NEW r \in Phones, NEW q \in Phones, challenges'[r].code # 0,
                      challenges'[r].code = challenges'[q].code PROVE r = q
    OBVIOUS
  <3>1. CASE r # p /\ q # p BY <1>6, <3>1 DEF CodesApart
  <3>2. CASE r = p \/ q = p BY <1>2, <1>6, <3>2
  <3> QED BY <3>1, <3>2
 <2>2. ASSUME NEW g \in Handlers, NEW q \in Phones, AtCode(job'[g]), challenges'[q].code = job'[g].challenge.code
       PROVE  q = job'[g].key
  <3>1. AtCode(job[g]) /\ job'[g] = job[g] /\ CodeJob(job[g]) BY <1>1, <2>2 DEF CodesInv
  <3>2. q # p BY <1>5, <1>6, <2>2, <3>1
  <3> QED BY <1>6, <2>2, <3>1, <3>2 DEF CodesApart
 <2>3. \A g, k \in Handlers :
         AtCode(job'[g]) /\ AtCode(job'[k])
           /\ job'[g].challenge.code = job'[k].challenge.code => job'[g].key = job'[k].key
   BY <1>1 DEF CodesApart
 <2> QED BY <2>1, <2>2, <2>3 DEF CodesApart
<1> QED BY <1>7, <1>8
-----------------------------
\* A login reads its code.
LEMMA CodesVerify ==
  ASSUME Inv1, CodesInv, CodesApart, NEW h \in Handlers, NEW p \in Phones, NEW right, StartVerify(h, p, right),
         \A g \in Handlers : g # h => job'[g] = job[g]
  PROVE  CodesInv' /\ CodesApart'
<1>1. /\ challenges[p] # NoCode /\ challenges[p].tries < MaxTries
      /\ job'[h].op = "login" /\ job'[h].at = "count" /\ job'[h].key = p
      /\ job'[h].challenge = challenges[p] /\ job'[h].by = accepted
      /\ accepted' = accepted + 1 /\ writes' = writes /\ UNCHANGED <<attempts, challenges>>
  BY VerifyFacts DEF Inv1, loginVars
<1>2. writes \in Nat /\ accepted \in Nat BY DEF Inv1, StoreTyped
<1>3. \A c : /\ Mine(c)' = Mine(c) /\ Failed(c)' = Failed(c) /\ Opened(c)' = Opened(c)
             /\ Clash(c)' <=> Clash(c)
  BY <1>1 DEF Mine, Failed, Opened, Clash
<1>4. ASSUME NEW j, CodeJob(j) PROVE CodeJob(j)' /\ j.by < accepted
 <2>1. Late(j)' <=> Late(j) BY <1>3 DEF Late
 <2> QED BY <1>1, <1>2, <1>3, <1>4, <2>1 DEF CodeJob
<1>5. challenges[p].code \in 1..writes /\ challenges[p] \in [code : 1..writes, tries : 0..MaxTries]
  BY <1>1 DEF CodesInv, PhoneCode
<1>6. ASSUME NEW j, j.op = "login", j.at = "count", j.challenge = challenges[p], j.by = accepted
      PROVE  CodeJob(j)'
 <2>1. Clash(j.challenge.code) \/ (Opened(j.challenge.code) = {}
         /\ Cardinality(Failed(j.challenge.code)) <= j.challenge.tries)
   BY <1>1, <1>6 DEF CodesInv, PhoneCode
 <2> QED BY <1>1, <1>2, <1>3, <1>5, <1>6, <2>1 DEF CodeJob
<1>7. \A g \in Handlers : AtCode(job'[g]) => CodeJob(job[g])'
 <2> SUFFICES ASSUME NEW g \in Handlers, AtCode(job'[g]) PROVE CodeJob(job[g])' OBVIOUS
 <2>1. CASE g = h
  <3>1. \A j : j = job'[h] => CodeJob(j)' BY <1>1, <1>6
  <3> QED BY <2>1, <3>1
 <2>2. CASE g # h
  <3>1. job'[g] = job[g] /\ CodeJob(job[g]) BY <2>2 DEF CodesInv
  <3>2. \A j : j = job[g] => CodeJob(j)' BY <1>4, <3>1
  <3> QED BY <3>1, <3>2
 <2> QED BY <2>1, <2>2
<1>8. \A g \in Handlers : g # h /\ AtCode(job'[g]) => job'[g] = job[g] /\ AtCode(job[g]) /\ CodeJob(job[g])
        /\ job[g].by < accepted
  BY <1>4 DEF CodesInv
<1>9. \A g, k \in Handlers : g # k /\ AtCode(job'[g]) /\ AtCode(job'[k]) => job'[g].by # job'[k].by
 <2>1. \A g \in Handlers : g # h /\ AtCode(job'[g]) => job'[g].by # accepted BY <1>2, <1>8 DEF CodeJob
 <2> QED BY <1>1, <1>8, <2>1 DEF CodesInv
<1>10. CodesInv'
 <2>1. \A q \in Phones : PhoneCode(q)' BY <1>1, <1>3 DEF CodesInv, PhoneCode
 <2>2. \A c \in 1..writes' : CodeBound(c)' BY <1>1, <1>3 DEF CodesInv, CodeBound
 <2> QED BY <1>1, <1>7, <1>9, <2>1, <2>2 DEF CodesInv
<1>11. CodesApart'
 <2>1. \A r, q \in Phones : challenges'[r].code # 0 /\ challenges'[r].code = challenges'[q].code => r = q
   BY <1>1 DEF CodesApart
 <2>2. ASSUME NEW g \in Handlers, NEW q \in Phones, AtCode(job'[g]), challenges'[q].code = job'[g].challenge.code
       PROVE  q = job'[g].key
  <3>1. CASE g = h BY <1>1, <1>5, <2>2, <3>1 DEF CodesApart
  <3>2. CASE g # h BY <1>1, <1>8, <2>2, <3>2 DEF CodesApart
  <3> QED BY <3>1, <3>2
 <2>3. ASSUME NEW g \in Handlers, NEW k \in Handlers, AtCode(job'[g]), AtCode(job'[k]),
              job'[g].challenge.code = job'[k].challenge.code
       PROVE  job'[g].key = job'[k].key
  <3>1. CASE g = h /\ k # h BY <1>1, <1>8, <2>3, <3>1 DEF CodesApart
  <3>2. CASE k = h /\ g # h BY <1>1, <1>8, <2>3, <3>2 DEF CodesApart
  <3>3. CASE g # h /\ k # h BY <1>8, <2>3, <3>3 DEF CodesApart
  <3> QED BY <3>1, <3>2, <3>3
 <2> QED BY <2>1, <2>2, <2>3 DEF CodesApart
<1> QED BY <1>10, <1>11

\* A login tries its code.
LEMMA CodesAttempt ==
  ASSUME Inv1, CodesInv, CodesApart, NEW h \in Handlers, CountAttempt(h) \/ ForgetChallenge(h),
         \A g \in Handlers : g # h => job'[g] = job[g]
  PROVE  CodesInv' /\ CodesApart'
<1> DEFINE c == job[h].challenge.code
           p == job[h].key
           t == job[h].challenge.tries
           a == Attempt(job[h], job[h].at = "forget")
           wh == writes + 1
           opens == ForgetChallenge(h)
<1>1. /\ AtCode(job[h]) /\ job[h].began \in 0..writes
      /\ accepted' = accepted /\ writes' = wh /\ attempts' = attempts \cup {a}
      /\ job[h].at = IF opens THEN "forget" ELSE "count"
      /\ AtCode(job'[h]) => /\ ~opens /\ job'[h].at = "forget" /\ SameLogin(job'[h], job[h])
                            /\ job'[h].challenge = job[h].challenge /\ job'[h].by = job[h].by
 <2>1. ForgetChallenge(h) => ~CountAttempt(h) BY DEF ForgetChallenge, CountAttempt, Doing
 <2> QED BY <2>1, AttemptFacts DEF Inv1
<1>2. writes \in Nat /\ accepted \in Nat /\ wh \in Nat /\ wh > writes BY DEF Inv1, StoreTyped
<1>3. CodeJob(job[h]) BY <1>1 DEF CodesInv
<1>4. /\ c \in 1..writes /\ t \in 0..MaxTries /\ t < MaxTries /\ t + 1 \in 0..MaxTries
      /\ job[h].challenge \in [code : 1..writes, tries : 0..MaxTries]
  BY <1>2, <1>3, TriesAssumption DEF CodeJob
<1>5. /\ a.code = c /\ a.by = job[h].by /\ a.began = job[h].began /\ a.wrote = wh
      /\ a.opened \in BOOLEAN /\ (a.opened <=> opens)
  BY <1>1 DEF Attempt
<1>6. opens \/ challenges' = [challenges EXCEPT ![p] = [code |-> c, tries |-> t + 1]]
 <2>1. [job[h].challenge EXCEPT !.tries = @ + 1] = [code |-> c, tries |-> t + 1] BY <1>4
 <2> QED BY <2>1, Zenon DEF CountAttempt
<1>7. opens => challenges' = [challenges EXCEPT ![p] = NoCode] BY DEF ForgetChallenge
<1> HIDE DEF c, p, t, a, wh, opens
<1>8. \A d : d # c => Mine(d)' = Mine(d) /\ Failed(d)' = Failed(d) /\ Opened(d)' = Opened(d)
 <2>1. \A d : d # c => Mine(d)' = Mine(d) BY <1>1, <1>5 DEF Mine
 <2> QED BY <2>1 DEF Failed, Opened
<1>9. \A d : Clash(d) => Clash(d)' BY <1>1 DEF Clash, Mine
<1>10. \A d : d = c => /\ a \in Mine(d)'
                       /\ Opened(d)' = IF opens THEN Opened(d) \cup {a} ELSE Opened(d)
                       /\ Failed(d)' = IF opens THEN Failed(d) ELSE Failed(d) \cup {a}
  BY <1>1, <1>5 DEF Mine, Opened, Failed
<1>11. Late(job[h]) => \A d : d = c => Clash(d)'
 <2> SUFFICES ASSUME Late(job[h]) PROVE \A d : d = c => Clash(d)' OBVIOUS
 <2>1. PICK x \in Mine(c) : x.by # job[h].by /\ job[h].began < x.wrote BY DEF Late, c
 <2>2. x.began \in 0..writes /\ x \in attempts BY <2>1 DEF Mine, CodesInv
 <2>3. Together(x, a) BY <1>2, <1>5, <2>1, <2>2 DEF Together
 <2>4. \A d : d = c => x \in Mine(d)' BY <1>1, <2>1, <2>2 DEF Mine
 <2> QED BY <1>5, <1>10, <2>1, <2>3, <2>4 DEF Clash
<1>12. ASSUME NEW j, CodeJob(j), j.by # job[h].by, j.began \in 0..writes
       PROVE  CodeJob(j)'
 <2>1. CASE j.challenge.code = c
  <3>1. Late(j)' BY <1>2, <1>5, <1>10, <1>12, <2>1 DEF Late
  <3> QED BY <1>1, <1>2, <1>12, <3>1 DEF CodeJob
 <2>2. CASE j.challenge.code # c
  <3>1. Late(j) => Late(j)' BY <1>8, <2>2 DEF Late
  <3> QED BY <1>1, <1>2, <1>8, <1>9, <1>12, <2>2, <3>1 DEF CodeJob
 <2> QED BY <2>1, <2>2
<1>13. ASSUME NEW j, j.at = "forget", j.challenge = job[h].challenge, j.by = job[h].by, ~opens
       PROVE  CodeJob(j)'
 <2>1. j.challenge.code = c BY <1>13 DEF c
 <2>2. Clash(c) \/ Late(job[h]) \/ Opened(c) = {} BY <1>3 DEF CodeJob, c
 <2>3. \A d : d = c => Clash(d)' \/ Opened(d)' = {} BY <1>9, <1>10, <1>11, <1>13, <2>2
 <2>4. j.by \in Nat /\ j.by < accepted' BY <1>1, <1>3, <1>13 DEF CodeJob
 <2>5. j.challenge \in [code : 1..wh, tries : 0..MaxTries] /\ j.challenge.tries < MaxTries
   BY <1>2, <1>4, <1>13 DEF t
 <2> QED BY <1>1, <1>13, <2>1, <2>3, <2>4, <2>5 DEF CodeJob
<1>14. \A g \in Handlers : AtCode(job'[g]) => /\ AtCode(job[g]) /\ job'[g].challenge = job[g].challenge
                                              /\ job'[g].key = job[g].key /\ job'[g].by = job[g].by
  BY <1>1 DEF SameLogin
<1>15. \A g \in Handlers : AtCode(job'[g]) => CodeJob(job[g])'
 <2> SUFFICES ASSUME NEW g \in Handlers, AtCode(job'[g]) PROVE CodeJob(job[g])' OBVIOUS
 <2>1. CASE g = h
  <3>1. \A j : j = job'[h] => CodeJob(j)' BY <1>1, <1>13, <2>1
  <3> QED BY <2>1, <3>1
 <2>2. CASE g # h
  <3>1. job'[g] = job[g] /\ AtCode(job[g]) /\ CodeJob(job[g]) /\ job[g].by # job[h].by
    BY <1>1, <1>14, <2>2 DEF CodesInv
  <3>2. job[g].began \in 0..writes
   <4>1. Typed(job[g]) BY <3>1 DEF Inv1, JobsTyped, AtCode, Idle
   <4> QED BY <1>2, <4>1 DEF Typed
  <3>3. \A j : j = job[g] => CodeJob(j)' BY <1>12, <3>1, <3>2
  <3> QED BY <3>1, <3>3
 <2> QED BY <2>1, <2>2
<1>16. p \in Phones =>
         /\ challenges'[p] = IF opens THEN NoCode ELSE [code |-> c, tries |-> t + 1]
         /\ \A q \in Phones : q # p => challenges'[q] = challenges[q]
  BY <1>6, <1>7 DEF CodesInv
<1>17. p \notin Phones => challenges' = challenges BY <1>6, <1>7 DEF CodesInv
<1>18. challenges' \in [Phones -> [code : 0..wh, tries : 0..MaxTries]]
 <2>1. challenges \in [Phones -> [code : 0..writes, tries : 0..MaxTries]] BY DEF CodesInv
 <2>2. [code : 0..writes, tries : 0..MaxTries] \subseteq [code : 0..wh, tries : 0..MaxTries] BY <1>2
 <2>3. NoCode \in [code : 0..wh, tries : 0..MaxTries]
         /\ [code |-> c, tries |-> t + 1] \in [code : 0..wh, tries : 0..MaxTries]
   BY <1>2, <1>4, TriesAssumption DEF NoCode
 <2> QED BY <1>6, <1>7, <2>1, <2>2, <2>3
<1>19. IsFiniteSet(Failed(c)) /\ IsFiniteSet(Opened(c)) /\ IsFiniteSet(attempts')
 <2>1. Failed(c) \subseteq attempts /\ Opened(c) \subseteq attempts BY DEF Failed, Opened, Mine
 <2> QED BY <1>1, <2>1, FS_Subset, FS_AddElement DEF CodesInv
<1>20. ~opens => \/ \A d : d = c => Clash(d)'
                 \/ \A d : d = c => Opened(d)' = {} /\ Cardinality(Failed(d)') <= t + 1
 <2> SUFFICES ASSUME ~opens, ~\A d : d = c => Clash(d)'
              PROVE \A d : d = c => Opened(d)' = {} /\ Cardinality(Failed(d)') <= t + 1
   OBVIOUS
 <2>1. Opened(c) = {} /\ Cardinality(Failed(c)) <= t BY <1>1, <1>3, <1>9, <1>11 DEF CodeJob, c, t
 <2>2. Cardinality(Failed(c) \cup {a}) <= Cardinality(Failed(c)) + 1 /\ Cardinality(Failed(c)) \in Nat
       /\ Cardinality(Failed(c) \cup {a}) \in Nat
  <3>1. /\ IsFiniteSet(Failed(c) \cup {a})
        /\ Cardinality(Failed(c) \cup {a}) = IF a \in Failed(c) THEN Cardinality(Failed(c)) ELSE Cardinality(Failed(c)) + 1
    BY <1>19, FS_AddElement
  <3>2. Cardinality(Failed(c)) \in Nat BY <1>19, FS_CardinalityType
  <3> QED BY <3>1, <3>2
 <2>3. Cardinality(Failed(c) \cup {a}) <= t + 1 BY <1>4, <2>1, <2>2
 <2> QED BY <1>10, <2>1, <2>3
<1>21. \A q \in Phones : PhoneCode(q)'
 <2> SUFFICES ASSUME NEW q \in Phones PROVE PhoneCode(q)' OBVIOUS
 <2>1. CASE q = p /\ opens BY <1>16, <2>1 DEF PhoneCode
 <2>2. CASE q = p /\ ~opens
  <3>1. challenges'[q].code = c /\ challenges'[q].tries = t + 1 /\ c # 0 BY <1>4, <1>16, <2>2
  <3> QED BY <1>20, <2>2, <3>1 DEF PhoneCode
 <2>3. CASE q # p
  <3>1. challenges'[q] = challenges[q] BY <1>16, <1>17, <2>3
  <3>2. challenges[q].code # c BY <1>1, <2>3 DEF CodesApart, c, p
  <3> QED BY <1>8, <1>9, <3>1, <3>2 DEF PhoneCode, CodesInv
 <2> QED BY <2>1, <2>2, <2>3
<1>22. ASSUME NEW d \in 1..wh PROVE CodeBound(d)'
 <2>1. CASE d # c /\ d \in 1..writes BY <1>8, <1>9, <2>1 DEF CodesInv, CodeBound
 <2>2. CASE d # c /\ d \notin 1..writes
  <3>1. Opened(d) = {} /\ Failed(d) = {} /\ Cardinality({}) = 0
    BY <2>2, FS_EmptySet DEF Opened, Failed, Mine, CodesInv
  <3>2. Opened(d)' = {} /\ Failed(d)' = {} BY <1>8, <2>2, <3>1
  <3> QED BY <3>1, <3>2, TriesAssumption DEF CodeBound
 <2>3. CASE d = c /\ ~opens
  <3>1. Cardinality({}) = 0 BY FS_EmptySet
  <3>2. CASE ~Clash(d)'
   <4>1. Opened(d)' = {} /\ Cardinality(Failed(d)') <= t + 1 BY <1>20, <2>3, <3>2
   <4>2. t + 1 <= MaxTries /\ t + 1 \in Nat BY <1>4
   <4>3. Cardinality(Failed(d)') \in Nat BY <1>10, <1>19, <2>3, FS_AddElement, FS_CardinalityType
   <4> QED BY <3>1, <4>1, <4>2, <4>3, TriesAssumption DEF CodeBound
  <3> QED BY <3>2 DEF CodeBound
 <2>4. CASE d = c /\ opens
  <3>1. CASE ~Clash(d)'
   <4>1. Opened(c) = {} /\ CodeBound(c) /\ ~Clash(c)
     BY <1>3, <1>4, <1>9, <1>11, <2>4, <3>1 DEF CodeJob, CodesInv, c
   <4>2. Opened(d)' = {a} /\ Failed(d)' = Failed(c) BY <1>10, <2>4, <4>1
   <4>3. Cardinality({a}) = 1 BY FS_Singleton
   <4> QED BY <4>1, <4>2, <4>3 DEF CodeBound
  <3> QED BY <3>1 DEF CodeBound
 <2> QED BY <2>1, <2>2, <2>3, <2>4
<1>23. CodesInv'
 <2>1. \A x \in attempts' : x.code \in 1..writes' /\ x.began \in 0..writes' /\ x.wrote \in 0..writes'
         /\ x.opened \in BOOLEAN
  <3>1. a.code \in 1..wh /\ a.began \in 0..wh /\ a.wrote \in 0..wh BY <1>1, <1>2, <1>4, <1>5
  <3>2. \A x \in attempts : x.code \in 1..wh /\ x.began \in 0..wh /\ x.wrote \in 0..wh /\ x.opened \in BOOLEAN
    BY <1>2 DEF CodesInv
  <3> QED BY <1>1, <1>5, <3>1, <3>2
 <2>2. \A g, k \in Handlers : g # k /\ AtCode(job'[g]) /\ AtCode(job'[k]) => job'[g].by # job'[k].by
   BY <1>14 DEF CodesInv
 <2> QED BY <1>1, <1>15, <1>18, <1>19, <1>21, <1>22, <2>1, <2>2 DEF CodesInv
<1>24. CodesApart'
 <2>1. ASSUME NEW r \in Phones, NEW q \in Phones, challenges'[r].code # 0,
              challenges'[r].code = challenges'[q].code, r # q
       PROVE  FALSE
  <3>1. CASE r # p /\ q # p
   <4>1. challenges'[r] = challenges[r] /\ challenges'[q] = challenges[q] BY <1>16, <1>17, <3>1
   <4> QED BY <2>1, <4>1 DEF CodesApart
  <3>2. ASSUME NEW s \in Phones, s # p, challenges'[s].code = c PROVE FALSE
    BY <1>1, <1>16, <1>17, <3>2 DEF CodesApart, c, p
  <3>3. CASE (r = p \/ q = p) /\ opens BY <1>16, <2>1, <3>3 DEF NoCode
  <3>4. CASE (r = p \/ q = p) /\ ~opens BY <1>16, <2>1, <3>2, <3>4
  <3> QED BY <3>1, <3>3, <3>4
 <2>2. ASSUME NEW g \in Handlers, NEW q \in Phones, AtCode(job'[g]), challenges'[q].code = job'[g].challenge.code
       PROVE  q = job'[g].key
  <3>1. AtCode(job[g]) /\ CodeJob(job[g]) /\ job'[g].challenge = job[g].challenge /\ job'[g].key = job[g].key
    BY <1>14, <2>2 DEF CodesInv
  <3>2. CASE q # p BY <1>16, <1>17, <2>2, <3>1, <3>2 DEF CodesApart
  <3>3. CASE q = p /\ ~opens
   <4>1. job[g].challenge.code = job[h].challenge.code BY <1>16, <2>2, <3>1, <3>3 DEF c
   <4> QED BY <1>1, <3>1, <3>3, <4>1 DEF CodesApart, p
  <3>4. CASE q = p /\ opens BY <1>16, <2>2, <3>1, <3>4 DEF NoCode, CodeJob
  <3> QED BY <3>2, <3>3, <3>4
 <2>3. \A g, k \in Handlers :
         AtCode(job'[g]) /\ AtCode(job'[k])
           /\ job'[g].challenge.code = job'[k].challenge.code => job'[g].key = job'[k].key
   BY <1>14 DEF CodesApart
 <2> QED BY <2>1, <2>2, <2>3 DEF CodesApart
<1> QED BY <1>23, <1>24
-----------------------------
\* A login looks for the account of its phone.
LEMMA IdentityFacts ==
  ASSUME StoreTyped, JobsTyped, NEW h \in Handlers, FindIdentity(h)
  PROVE  LET a == identities[job[h].key] IN
         /\ job[h].op = "login" /\ job[h].at = "identity" /\ writes' = writes /\ UNCHANGED loginVars
         /\ SameLogin(job'[h], job[h]) /\ job'[h].who = a
         /\ job'[h].at = IF a = NoAccount THEN "create" ELSE "session"
<1> DEFINE j == job[h]
           a == identities[j.key]
           at == IF a = NoAccount THEN "create" ELSE "session"
           k == [j EXCEPT !.who = a, !.at = at]
<1>1. j.op = "login" /\ j.at = "identity" /\ Become(h, k) /\ UNCHANGED loginVars BY DEF FindIdentity, Doing
<1>2. Typed(j) BY <1>1 DEF JobsTyped, Idle
<1>3. k.who = a BY <1>2 DEF Typed, Basic
<1>4. Alters(k, j, at) /\ j.op \in SessionOps BY <1>1, Zenon DEF Alters, SessionOps
<1>5. at # "end" OBVIOUS
<1> HIDE DEF k, at
<1>6. job'[h] = k /\ k.at = at /\ SameLogin(k, j) BY <1>1, <1>4, <1>5, StepFacts
<1> QED BY <1>1, <1>3, <1>6 DEF Become, at

\* A login makes an account.
LEMMA CreateFacts ==
  ASSUME StoreTyped, JobsTyped, NEW h \in Handlers, CreateAccount(h)
  PROVE  /\ job[h].op = "login" /\ job[h].at = "create" /\ writes' = writes + 1
         /\ UNCHANGED <<deletedAt, identities, challenges, sessions, attempts, bound, served>>
         /\ SameLogin(job'[h], job[h]) /\ job'[h].at = "bind" /\ job'[h].who \in Accounts
         /\ existing' = existing \cup {job'[h].who}
<1> DEFINE j == job[h]
<1>1. j.op = "login" /\ j.at = "create"
      /\ UNCHANGED <<deletedAt, identities, challenges, sessions, attempts, bound, served>>
  BY DEF CreateAccount, Doing
<1>2. PICK a \in Accounts : existing' = existing \cup {a} /\ Wrote(h, [j EXCEPT !.who = a, !.at = "bind"])
  BY Zenon DEF CreateAccount
<1> DEFINE k == [j EXCEPT !.who = a, !.at = "bind"]
<1>3. Typed(j) BY <1>1 DEF JobsTyped, Idle
<1>4. k.who = a BY <1>3 DEF Typed, Basic
<1>5. Alters(k, j, "bind") /\ j.op \in SessionOps BY <1>1, Zenon DEF Alters, SessionOps
<1>6. Wrote(h, k) BY <1>2
<1> HIDE DEF k
<1>7. job'[h] = k /\ k.at = "bind" /\ SameLogin(k, j) BY <1>5, <1>6, StepFacts
<1> QED BY <1>1, <1>2, <1>4, <1>6, <1>7 DEF Wrote

\* A request that goes on with another step, and nothing else.
LEMMA OnwardFacts ==
  ASSUME StoreTyped, JobsTyped, NEW h \in Handlers, job[h].op \in SessionOps, NEW at,
         Become(h, [job[h] EXCEPT !.at = at]) \/ Wrote(h, [job[h] EXCEPT !.at = at])
  PROVE  \/ at = "end" /\ job'[h] = Idle
         \/ /\ at # "end" /\ SameLogin(job'[h], job[h]) /\ job'[h].at = at /\ job'[h].who = job[h].who
            /\ "ended" \in DOMAIN job[h] => job'[h].ended = job[h].ended
<1> DEFINE j == job[h]
           k == [j EXCEPT !.at = at]
<1>1. Become(h, k) \/ Wrote(h, k) OBVIOUS
<1>2. Typed(j) BY DEF JobsTyped, Idle, SessionOps
<1>3. k.who = j.who BY <1>2 DEF Typed, Basic
<1>4. Alters(k, j, at) BY Zenon DEF Alters
<1> HIDE DEF k
<1>5. /\ job'[h] = (IF at = "end" THEN Idle ELSE k) /\ k.at = at /\ SameLogin(k, j)
      /\ "ended" \in DOMAIN j => k.ended = j.ended
  BY <1>1, <1>4, StepFacts
<1> HIDE DEF j
<1> QED BY <1>3, <1>5 DEF j

\* The account is bound to the phone.
LEMMA BindFacts ==
  ASSUME StoreTyped, JobsTyped, NEW h \in Handlers, BindIdentity(h)
  PROVE  /\ job[h].op = "login" /\ job[h].at = "bind" /\ writes' = writes + 1
         /\ identities' = [identities EXCEPT ![job[h].key] = IF @ = NoAccount THEN job[h].who ELSE @]
         /\ bound' = bound \cup {[account |-> job[h].who, phone |-> job[h].key, began |-> job[h].began,
              wrote |-> writes + 1]}
         /\ UNCHANGED <<existing, deletedAt, challenges, sessions, attempts, served>>
         /\ SameLogin(job'[h], job[h]) /\ job'[h].at = "session" /\ job'[h].who = job[h].who
<1>1. /\ job[h].op = "login" /\ job[h].at = "bind"
      /\ identities' = [identities EXCEPT ![job[h].key] = IF @ = NoAccount THEN job[h].who ELSE @]
      /\ bound' = bound \cup {[account |-> job[h].who, phone |-> job[h].key, began |-> job[h].began,
           wrote |-> writes + 1]}
      /\ UNCHANGED <<existing, deletedAt, challenges, sessions, attempts, served>>
      /\ Wrote(h, [job[h] EXCEPT !.at = "session"])
  BY DEF BindIdentity, Doing
<1>2. job[h].op \in SessionOps BY <1>1 DEF SessionOps
<1>3. SameLogin(job'[h], job[h]) /\ job'[h].at = "session" /\ job'[h].who = job[h].who
  BY <1>1, <1>2, OnwardFacts
<1> QED BY <1>1, <1>3 DEF Wrote

\* The login ends with a session.
LEMMA SessionFacts ==
  ASSUME StoreTyped, JobsTyped, NEW h \in Handlers, CreateSession(h)
  PROVE  /\ job[h].op = "login" /\ job[h].at = "session" /\ writes' = writes + 1 /\ job'[h] = Idle
         /\ sessions' = Append(sessions, [account |-> job[h].who, revokedAt |-> 0])
         /\ UNCHANGED <<existing, deletedAt, identities, challenges, attempts, bound, served>>
<1>1. job[h].op = "login" /\ job[h].at = "session" /\ Wrote(h, [job[h] EXCEPT !.at = "end"])
  BY DEF CreateSession, Doing
<1>2. job[h].op \in SessionOps BY <1>1 DEF SessionOps
<1>3. job'[h] = Idle BY <1>1, <1>2, OnwardFacts
<1> QED BY <1>1, <1>3 DEF Wrote, CreateSession

\* The middleware has looked for the account.
LEMMA CheckFacts ==
  ASSUME StoreTyped, JobsTyped, NEW h \in Handlers, CheckAccount(h)
  PROVE  /\ job[h].op \in {"call", "delete", "logout"} /\ job[h].at = "account" /\ writes' = writes
         /\ UNCHANGED <<existing, deletedAt, identities, challenges, sessions, attempts, bound>>
         /\ \/ served' = served /\ job'[h] = Idle
            \/ /\ deletedAt[job[h].who] = 0
               /\ served' = served \cup {[session |-> job[h].key, account |-> job[h].who, began |-> job[h].began]}
               /\ \/ job'[h] = Idle
                  \/ /\ job'[h].at = "do" /\ SameLogin(job'[h], job[h]) /\ job'[h].who = job[h].who
                     /\ job'[h].ended = job[h].ended
<1>1. job[h].at = "account" BY DEF CheckAccount
<1>2. Typed(job[h]) BY <1>1 DEF JobsTyped, Idle
<1>3. job[h].op \in {"call", "delete", "logout"} /\ "ended" \in DOMAIN job[h]
  BY <1>1, <1>2 DEF Typed, Fits, Carries, CarriesMore
<1>4. job[h].op \in SessionOps BY <1>3 DEF SessionOps
<1>5. CASE deletedAt[job[h].who] = 0
 <2> DEFINE at == IF job[h].op = "call" THEN "end" ELSE "do"
 <2>1. /\ served' = served \cup {[session |-> job[h].key, account |-> job[h].who, began |-> job[h].began]}
       /\ Become(h, [job[h] EXCEPT !.at = at])
       /\ UNCHANGED <<existing, deletedAt, identities, challenges, sessions, attempts, bound>>
   BY <1>5 DEF CheckAccount, Serve
 <2>2. at \in {"end", "do"} OBVIOUS
 <2>3. writes' = writes BY <2>1 DEF Become
 <2> HIDE DEF at
 <2>4. \/ job'[h] = Idle
       \/ job'[h].at = "do" /\ SameLogin(job'[h], job[h]) /\ job'[h].who = job[h].who
            /\ job'[h].ended = job[h].ended
   BY <1>3, <1>4, <2>1, <2>2, OnwardFacts
 <2> QED BY <1>1, <1>3, <1>5, <2>1, <2>3, <2>4
<1>6. CASE deletedAt[job[h].who] # 0
 <2>1. Become(h, [job[h] EXCEPT !.at = "end"]) /\ UNCHANGED loginVars BY <1>6 DEF CheckAccount
 <2>2. job'[h] = Idle BY <1>4, <2>1, OnwardFacts
 <2> QED BY <1>1, <1>3, <2>1, <2>2 DEF Become, loginVars
<1> QED BY <1>5, <1>6

\* A session is revoked.
LEMMA RevokeFacts ==
  ASSUME StoreTyped, JobsTyped, NEW h \in Handlers, RevokeSession(h)
  PROVE  /\ job[h].op = "logout" /\ writes' = writes + 1 /\ job'[h] = Idle
         /\ sessions' = [sessions EXCEPT ![job[h].ended].revokedAt = IF @ = 0 THEN writes + 1 ELSE @]
         /\ UNCHANGED <<existing, deletedAt, identities, challenges, attempts, bound, served>>
<1>1. job[h].op = "logout" /\ Wrote(h, [job[h] EXCEPT !.at = "end"]) BY DEF RevokeSession, Doing
<1>2. job[h].op \in SessionOps BY <1>1 DEF SessionOps
<1>3. job'[h] = Idle BY <1>1, <1>2, OnwardFacts
<1> QED BY <1>1, <1>3 DEF Wrote, RevokeSession

\* An account is deleted.
LEMMA DeleteFacts ==
  ASSUME StoreTyped, JobsTyped, NEW h \in Handlers, SoftDelete(h)
  PROVE  /\ job[h].op = "delete" /\ writes' = writes + 1
         /\ deletedAt' = [deletedAt EXCEPT ![job[h].who] = IF @ = 0 THEN writes + 1 ELSE @]
         /\ UNCHANGED <<existing, identities, challenges, sessions, attempts, bound, served>>
         /\ SameLogin(job'[h], job[h]) /\ job'[h].at = "revokeAll" /\ job'[h].who = job[h].who
              /\ job'[h].ended = job[h].ended
<1>1. /\ job[h].op = "delete" /\ job[h].at = "do" /\ Wrote(h, [job[h] EXCEPT !.at = "revokeAll"])
  BY DEF SoftDelete, Doing
<1>2. Typed(job[h]) BY <1>1 DEF JobsTyped, Idle
<1>3. job[h].op \in SessionOps /\ "ended" \in DOMAIN job[h]
  BY <1>1, <1>2 DEF SessionOps, Typed, Carries, CarriesMore
<1>4. SameLogin(job'[h], job[h]) /\ job'[h].at = "revokeAll" /\ job'[h].who = job[h].who
        /\ job'[h].ended = job[h].ended
 <2>1. \/ job'[h] = Idle /\ "revokeAll" = "end"
       \/ /\ SameLogin(job'[h], job[h]) /\ job'[h].at = "revokeAll" /\ job'[h].who = job[h].who
          /\ "ended" \in DOMAIN job[h] => job'[h].ended = job[h].ended
   BY <1>1, <1>3, OnwardFacts
 <2> QED BY <1>3, <2>1
<1> QED BY <1>1, <1>4 DEF Wrote, SoftDelete

\* Its sessions are revoked.
LEMMA RevokeAllFacts ==
  ASSUME StoreTyped, JobsTyped, NEW h \in Handlers, RevokeAllSessions(h)
  PROVE  /\ job[h].op = "delete" /\ writes' = writes + 1 /\ job'[h] = Idle
         /\ sessions' = [n \in 1..Len(sessions) |->
                           IF sessions[n].account = job[h].who /\ sessions[n].revokedAt = 0
                           THEN [sessions[n] EXCEPT !.revokedAt = writes + 1] ELSE sessions[n]]
         /\ UNCHANGED <<existing, deletedAt, identities, challenges, attempts, bound, served>>
<1>1. job[h].op = "delete" /\ Wrote(h, [job[h] EXCEPT !.at = "end"]) BY DEF RevokeAllSessions, Doing
<1>2. job[h].op \in SessionOps BY <1>1 DEF SessionOps
<1>3. job'[h] = Idle BY <1>1, <1>2, OnwardFacts
<1> QED BY <1>1, <1>3 DEF Wrote, RevokeAllSessions
-----------------------------
\* What a step of the sessions is, of which handler.
LEMMA LoginCases ==
  ASSUME Inv1, LoggingIn
  PROVE  \E h \in Handlers :
           /\ \A g \in Handlers : g # h => job'[g] = job[g]
           /\ \/ \E p \in Phones : IssueOtp(h, p) \/ StartSocial(h, p) \/ \E right : StartVerify(h, p, right)
              \/ \E n, s \in 1..Len(sessions), op \in {"call", "delete", "logout"} : StartCall(h, op, n, s)
              \/ SessionStep(h)
<1>1. PICK h \in Handlers : SessionStep(h) \/ SessionRequest(h) BY DEF LoggingIn
<1>2. Acts(h, SessionOps) BY <1>1, SessionsAct DEF Inv1
<1>3. SessionRequest(h) =>
        \/ \E p \in Phones : IssueOtp(h, p) \/ StartSocial(h, p) \/ \E right : StartVerify(h, p, right)
        \/ \E n, s \in 1..Len(sessions), op \in {"call", "delete", "logout"} : StartCall(h, op, n, s)
  BY DEF SessionRequest
<1> QED BY <1>1, <1>2, <1>3 DEF Acts, Turned

\* Codes stay as they should be.
LEMMA CodesKeep ==
  ASSUME Inv1, CodesInv, CodesApart, [PlatformNext]_platformVars
  PROVE  CodesInv' /\ CodesApart'
<1>1. /\ writes \in Nat /\ writes' \in {writes, writes + 1}
      /\ accepted \in Nat /\ accepted' \in {accepted, accepted + 1}
  BY CountsGrow
<1>2. CASE ~LoggingIn
 <2>1. UNCHANGED <<attempts, challenges>> /\ Apart(SessionOps) BY <1>2, SessionsApart DEF loginVars
 <2>2. \A g \in Handlers : AtCode(job'[g]) => job'[g] = job[g] BY <2>1 DEF Apart, AtCode, Idle, SessionOps
 <2> QED BY <1>1, <2>1, <2>2, CodesFrame
<1>3. CASE LoggingIn
 <2>1. PICK h \in Handlers :
         /\ \A g \in Handlers : g # h => job'[g] = job[g]
         /\ \/ \E p \in Phones : IssueOtp(h, p) \/ StartSocial(h, p) \/ \E right : StartVerify(h, p, right)
            \/ \E n, s \in 1..Len(sessions), op \in {"call", "delete", "logout"} : StartCall(h, op, n, s)
            \/ SessionStep(h)
   BY <1>3, LoginCases
 <2>2. StoreTyped /\ JobsTyped BY DEF Inv1
 <2>3. ASSUME UNCHANGED <<attempts, challenges>>, ~AtCode(job'[h]) PROVE CodesInv' /\ CodesApart'
  <3>1. \A g \in Handlers : AtCode(job'[g]) => job'[g] = job[g] BY <2>1, <2>3
  <3> QED BY <1>1, <2>3, <3>1, CodesFrame
 <2>4. CASE \E p \in Phones : IssueOtp(h, p) BY <2>4, CodesIssue
 <2>5. CASE \E p \in Phones : \E right : StartVerify(h, p, right) BY <2>1, <2>5, CodesVerify
 <2>6. CASE \E p \in Phones : StartSocial(h, p)
  <3>1. UNCHANGED loginVars /\ job'[h].at = "identity" BY <2>2, <2>6, SocialFacts
  <3> QED BY <2>3, <3>1 DEF AtCode, loginVars
 <2>7. CASE \E n, s \in 1..Len(sessions), op \in {"call", "delete", "logout"} : StartCall(h, op, n, s)
  <3>1. UNCHANGED loginVars /\ job'[h].at = "account" BY <2>2, <2>7, CallFacts
  <3> QED BY <2>3, <3>1 DEF AtCode, loginVars
 <2>8. CASE CountAttempt(h) \/ ForgetChallenge(h) BY <2>1, <2>8, CodesAttempt
 <2>9. CASE FindIdentity(h)
  <3>1. UNCHANGED loginVars /\ job'[h].at \in {"create", "session"} BY <2>2, <2>9, IdentityFacts
  <3> QED BY <2>3, <3>1 DEF AtCode, loginVars
 <2>10. CASE CreateAccount(h) BY <2>2, <2>3, <2>10, CreateFacts DEF AtCode
 <2>11. CASE BindIdentity(h) BY <2>2, <2>3, <2>11, BindFacts DEF AtCode
 <2>12. CASE CreateSession(h)
  <3>1. UNCHANGED <<attempts, challenges>> /\ job'[h] = Idle BY <2>2, <2>12, SessionFacts
  <3> QED BY <2>3, <3>1 DEF AtCode, Idle
 <2>13. CASE CheckAccount(h) BY <2>2, <2>3, <2>13, CheckFacts DEF AtCode, Idle
 <2>14. CASE RevokeSession(h)
  <3>1. UNCHANGED <<attempts, challenges>> /\ job'[h] = Idle BY <2>2, <2>14, RevokeFacts
  <3> QED BY <2>3, <3>1 DEF AtCode, Idle
 <2>15. CASE SoftDelete(h) BY <2>2, <2>3, <2>15, DeleteFacts DEF AtCode, Idle
 <2>16. CASE RevokeAllSessions(h) BY <2>2, <2>3, <2>16, RevokeAllFacts DEF AtCode, Idle
 <2> QED BY <2>1, <2>4, <2>5, <2>6, <2>7, <2>8, <2>9, <2>10, <2>11, <2>12, <2>13, <2>14, <2>15,
 <2>16 DEF SessionStep
<1> QED BY <1>2, <1>3

\* A login that may bind a phone.
Binding(j) == j.op = "login" /\ j.at \in {"create", "bind"}

\* Phones that are bound stay as they should be, while others take steps.
LEMMA BoundFrame ==
  ASSUME BoundInv, UNCHANGED <<bound, identities>>, writes \in Nat, writes' \in {writes, writes + 1},
         \A g \in Handlers : Binding(job'[g]) => Binding(job[g]) /\ SameLogin(job'[g], job[g])
  PROVE  BoundInv'
<1>1. \A x \in bound' : x.phone \in Phones /\ x.began \in 0..writes' /\ x.wrote \in 0..writes' /\ x.began < x.wrote
  BY DEF BoundInv
<1>2. \A h \in Handlers : job'[h].op = "login" /\ job'[h].at \in {"create", "bind"} =>
        \A x \in bound' : x.phone = job'[h].key => job'[h].began < x.wrote
  BY DEF BoundInv, Binding, SameLogin
<1>3. /\ \A x \in bound' : identities'[x.phone] # NoAccount
      /\ \A x, y \in bound' : x.phone = y.phone => x = y \/ Together(x, y)
  BY DEF BoundInv
<1> QED BY <1>1, <1>2, <1>3 DEF BoundInv

\* A phone is bound.
LEMMA BoundBind ==
  ASSUME Inv1, SessionsTyped, BoundInv, NEW h \in Handlers, BindIdentity(h),
         \A g \in Handlers : g # h => job'[g] = job[g]
  PROVE  BoundInv'
<1> DEFINE j == job[h]
           x == [account |-> j.who, phone |-> j.key, began |-> j.began, wrote |-> writes + 1]
<1>1. /\ j.op = "login" /\ j.at = "bind" /\ writes' = writes + 1
      /\ identities' = [identities EXCEPT ![j.key] = IF @ = NoAccount THEN j.who ELSE @]
      /\ bound' = bound \cup {x} /\ job'[h].at = "session"
  BY BindFacts DEF Inv1
<1>2. Typed(j) /\ writes \in Nat BY <1>1 DEF Inv1, JobsTyped, StoreTyped, Idle
<1>3. j.began \in 0..writes /\ j.key \in Phones /\ j.who \in existing
  BY <1>1, <1>2 DEF Typed, SessionsTyped, SessionJob
<1>4. x.phone = j.key /\ x.began = j.began /\ x.wrote = writes + 1 OBVIOUS
<1>5. \A y \in bound : y.phone = j.key => Together(x, y) /\ Together(y, x)
  BY <1>1, <1>2, <1>3, <1>4 DEF BoundInv, Together
<1>6. identities'[j.key] # NoAccount /\ \A p \in Phones : identities[p] # NoAccount => identities'[p] # NoAccount
 <2>1. j.who # NoAccount /\ identities \in [Phones -> existing \cup {NoAccount}]
   BY <1>3, NamesAssumption DEF SessionsTyped, SessionsData
 <2>2. identities'[j.key] = IF identities[j.key] = NoAccount THEN j.who ELSE identities[j.key]
   BY <1>1, <1>3, <2>1
 <2> QED BY <1>1, <1>3, <2>1, <2>2
<1> HIDE DEF j, x
<1>7. \A y \in bound' : y.phone \in Phones /\ y.began \in 0..writes' /\ y.wrote \in 0..writes' /\ y.began < y.wrote
 <2>1. \A y \in bound : y.phone \in Phones /\ y.began \in 0..writes' /\ y.wrote \in 0..writes' /\ y.began < y.wrote
   BY <1>1, <1>2 DEF BoundInv
 <2>2. x.phone \in Phones /\ x.began \in 0..writes' /\ x.wrote \in 0..writes' /\ x.began < x.wrote
   BY <1>1, <1>2, <1>3, <1>4
 <2> QED BY <1>1, <2>1, <2>2
<1>8. ASSUME NEW g \in Handlers, Binding(job'[g])
      PROVE  \A y \in bound' : y.phone = job'[g].key => job'[g].began < y.wrote
 <2>1. g # h /\ job'[g] = job[g] BY <1>1, <1>8 DEF Binding
 <2>2. Typed(job[g]) BY <1>8, <2>1 DEF Inv1, JobsTyped, Binding, Idle
 <2>3. job[g].began < x.wrote BY <1>2, <1>4, <2>2 DEF Typed
 <2> QED BY <1>1, <1>8, <2>1, <2>3 DEF BoundInv, Binding
<1>9. \A y \in bound' : identities'[y.phone] # NoAccount BY <1>1, <1>4, <1>6 DEF BoundInv
<1>10. \A y, z \in bound' : y.phone = z.phone => y = z \/ Together(y, z) BY <1>1, <1>4, <1>5 DEF BoundInv
<1> QED BY <1>7, <1>8, <1>9, <1>10 DEF BoundInv, Binding

\* Phones that are bound stay as they should be.
LEMMA BoundKeep ==
  ASSUME Inv1, SessionsTyped, BoundInv, [PlatformNext]_platformVars
  PROVE  BoundInv'
<1>1. writes \in Nat /\ writes' \in {writes, writes + 1} BY CountsGrow
<1>2. CASE ~LoggingIn
 <2>1. UNCHANGED <<bound, identities>> /\ Apart(SessionOps) BY <1>2, SessionsApart DEF loginVars
 <2>2. \A g \in Handlers : Binding(job'[g]) => Binding(job[g]) /\ SameLogin(job'[g], job[g])
   BY <2>1 DEF Apart, Binding, Idle, SessionOps, SameLogin
 <2> QED BY <1>1, <2>1, <2>2, BoundFrame
<1>3. CASE LoggingIn
 <2>1. PICK h \in Handlers :
         /\ \A g \in Handlers : g # h => job'[g] = job[g]
         /\ \/ \E p \in Phones : IssueOtp(h, p) \/ StartSocial(h, p) \/ \E right : StartVerify(h, p, right)
            \/ \E n, s \in 1..Len(sessions), op \in {"call", "delete", "logout"} : StartCall(h, op, n, s)
            \/ SessionStep(h)
   BY <1>3, LoginCases
 <2>2. StoreTyped /\ JobsTyped BY DEF Inv1
 <2>3. ASSUME UNCHANGED <<bound, identities>>,
              Binding(job'[h]) => Binding(job[h]) /\ SameLogin(job'[h], job[h])
       PROVE  BoundInv'
  <3>1. \A g \in Handlers : Binding(job'[g]) => Binding(job[g]) /\ SameLogin(job'[g], job[g])
    BY <2>1, <2>3 DEF SameLogin
  <3> QED BY <1>1, <2>3, <3>1, BoundFrame
 <2>4. CASE \E p \in Phones : IssueOtp(h, p)
  <3>1. UNCHANGED <<bound, identities, job>> BY <2>4 DEF IssueOtp, WroteOnce, Once
  <3> QED BY <2>3, <3>1 DEF SameLogin
 <2>5. CASE \E p \in Phones : \E right : StartVerify(h, p, right)
  <3>1. UNCHANGED loginVars /\ job'[h].at = "count" BY <2>2, <2>5, VerifyFacts
  <3> QED BY <2>3, <3>1 DEF Binding, loginVars
 <2>6. CASE \E p \in Phones : StartSocial(h, p)
  <3>1. UNCHANGED loginVars /\ job'[h].at = "identity" BY <2>2, <2>6, SocialFacts
  <3> QED BY <2>3, <3>1 DEF Binding, loginVars
 <2>7. CASE \E n, s \in 1..Len(sessions), op \in {"call", "delete", "logout"} : StartCall(h, op, n, s)
  <3>1. UNCHANGED loginVars /\ job'[h].at = "account" BY <2>2, <2>7, CallFacts
  <3> QED BY <2>3, <3>1 DEF Binding, loginVars
 <2>8. CASE CountAttempt(h) \/ ForgetChallenge(h)
  <3>1. UNCHANGED <<bound, identities>> BY <2>8, Zenon DEF CountAttempt, ForgetChallenge
  <3>2. job'[h] = Idle \/ job'[h].at \in {"forget", "identity"} BY <2>2, <2>8, AttemptFacts
  <3> QED BY <2>3, <3>1, <3>2 DEF Binding, Idle
 <2>9. CASE FindIdentity(h)
  <3>1. /\ UNCHANGED loginVars /\ SameLogin(job'[h], job[h]) /\ job[h].op = "login"
        /\ job'[h].at = "create" => identities[job[h].key] = NoAccount
        /\ job'[h].at \in {"create", "session"}
    BY <2>2, <2>9, IdentityFacts
  <3>2. CASE job'[h].at = "session" BY <2>3, <3>1, <3>2 DEF Binding, loginVars
  <3>3. CASE job'[h].at = "create"
   <4>1. \A x \in bound : x.phone # job'[h].key BY <3>1, <3>3 DEF BoundInv, SameLogin
   <4>2. \A g \in Handlers : g # h => job'[g] = job[g] BY <2>1
   <4>3. \A x \in bound : x.began \in 0..writes' /\ x.wrote \in 0..writes' BY <1>1 DEF BoundInv
   <4> QED BY <3>1, <4>1, <4>2, <4>3 DEF BoundInv, loginVars
  <3> QED BY <3>1, <3>2, <3>3
 <2>10. CASE CreateAccount(h) BY <2>2, <2>3, <2>10, CreateFacts DEF Binding
 <2>11. CASE BindIdentity(h) BY <2>1, <2>11, BoundBind
 <2>12. CASE CreateSession(h)
  <3>1. UNCHANGED <<bound, identities>> /\ job'[h] = Idle BY <2>2, <2>12, SessionFacts
  <3> QED BY <2>3, <3>1 DEF Binding, Idle
 <2>13. CASE CheckAccount(h) BY <2>2, <2>3, <2>13, CheckFacts DEF Binding, Idle
 <2>14. CASE RevokeSession(h)
  <3>1. UNCHANGED <<bound, identities>> /\ job'[h] = Idle BY <2>2, <2>14, RevokeFacts
  <3> QED BY <2>3, <3>1 DEF Binding, Idle
 <2>15. CASE SoftDelete(h) BY <2>2, <2>3, <2>15, DeleteFacts DEF Binding, Idle
 <2>16. CASE RevokeAllSessions(h) BY <2>2, <2>3, <2>16, RevokeAllFacts DEF Binding, Idle
 <2> QED BY <2>1, <2>4, <2>5, <2>6, <2>7, <2>8, <2>9, <2>10, <2>11, <2>12, <2>13, <2>14, <2>15,
 <2>16 DEF SessionStep
<1> QED BY <1>2, <1>3
-----------------------------
\* Accounts and sessions stay, and end at most once, now.
Growing ==
  /\ existing \subseteq existing'
  /\ \A n \in 1..Len(sessions) :
       /\ n \in 1..Len(sessions') /\ sessions'[n].account = sessions[n].account
       /\ \/ sessions'[n].revokedAt = sessions[n].revokedAt
          \/ sessions[n].revokedAt = 0 /\ sessions'[n].revokedAt = writes + 1
  /\ \A a \in Accounts : \/ deletedAt'[a] = deletedAt[a]
                         \/ deletedAt[a] = 0 /\ deletedAt'[a] = writes + 1

\* What a request knows stays right.
LEMMA GrowthKeepsJob ==
  ASSUME Growing, writes \in Nat, NEW j, SessionJob(j), j.op \in SessionOps => j.began \in 0..writes
  PROVE  SessionJob(j)'
<1>1. j.op = "login" /\ j.at \in {"bind", "session"} => j.who \in existing' BY DEF SessionJob, Growing
<1>2. ASSUME j.op \in {"call", "delete", "logout"}
      PROVE  /\ j.key \in 1..Len(sessions') /\ j.who = sessions'[j.key].account /\ j.ended \in 1..Len(sessions')
             /\ j.at = "account" => sessions'[j.key].revokedAt = 0 \/ j.began < sessions'[j.key].revokedAt
  BY <1>2 DEF SessionJob, Growing, SessionOps
<1> QED BY <1>1, <1>2 DEF SessionJob

\* What was served stays served in time.
LEMMA GrowthKeepsServed ==
  ASSUME Growing, writes \in Nat, writes' \in {writes, writes + 1}, ServedSound, NEW x \in served
  PROVE  /\ x.session \in 1..Len(sessions') /\ x.account \in Accounts /\ x.began \in 0..writes'
         /\ sessions'[x.session].revokedAt # 0 => x.began < sessions'[x.session].revokedAt
         /\ deletedAt'[x.account] # 0 => x.began < deletedAt'[x.account]
<1>1. x.session \in 1..Len(sessions) /\ x.account \in Accounts /\ x.began \in 0..writes BY DEF ServedSound
<1>2. /\ sessions[x.session].revokedAt # 0 => x.began < sessions[x.session].revokedAt
      /\ deletedAt[x.account] # 0 => x.began < deletedAt[x.account]
  BY DEF ServedSound, ServedOnlyLive
<1>3. /\ x.session \in 1..Len(sessions')
      /\ sessions'[x.session].revokedAt \in {sessions[x.session].revokedAt, writes + 1}
      /\ deletedAt'[x.account] \in {deletedAt[x.account], writes + 1}
  BY <1>1 DEF Growing
<1>4. x.began \in 0..writes' /\ x.began < writes + 1 BY <1>1
<1>5. sessions'[x.session].revokedAt # 0 => x.began < sessions'[x.session].revokedAt BY <1>2, <1>3, <1>4
<1>6. deletedAt'[x.account] # 0 => x.began < deletedAt'[x.account] BY <1>2, <1>3, <1>4
<1> QED BY <1>1, <1>3, <1>4, <1>5, <1>6

\* So a step only has to leave the tables, its own request and what it serves right.
LEMMA GrowthKeeps ==
  ASSUME Inv1, SessionsTyped, ServedSound, Growing, SessionsData',
         writes' \in {writes, writes + 1}, NEW h \in Handlers,
         \A g \in Handlers : g # h => job'[g] = job[g], SessionJob(job[h])',
         \A x \in served' : x \in served \/
            /\ x.session \in 1..Len(sessions') /\ x.account \in Accounts /\ x.began \in 0..writes'
            /\ sessions'[x.session].revokedAt # 0 => x.began < sessions'[x.session].revokedAt
            /\ deletedAt'[x.account] # 0 => x.began < deletedAt'[x.account]
  PROVE  SessionsTyped' /\ ServedSound'
<1>1. writes \in Nat BY DEF Inv1, StoreTyped
<1>2. ASSUME NEW g \in Handlers PROVE SessionJob(job[g])'
 <2>1. CASE g # h
  <3>1. job'[g] = job[g] /\ SessionJob(job[g]) BY <2>1 DEF SessionsTyped
  <3>2. job[g].op \in SessionOps => job[g].began \in 0..writes
    BY <1>1 DEF Inv1, JobsTyped, Typed, Idle, SessionOps
  <3>3. \A j : j = job[g] => SessionJob(j)' BY <1>1, <3>1, <3>2, GrowthKeepsJob
  <3> QED BY <3>1, <3>3
 <2> QED BY <2>1
<1>3. \A x \in served' :
        /\ x.session \in 1..Len(sessions') /\ x.account \in Accounts /\ x.began \in 0..writes'
        /\ sessions'[x.session].revokedAt # 0 => x.began < sessions'[x.session].revokedAt
        /\ deletedAt'[x.account] # 0 => x.began < deletedAt'[x.account]
  BY <1>1, GrowthKeepsServed
<1> QED BY <1>2, <1>3 DEF SessionsTyped, ServedSound, ServedOnlyLive

\* Nothing of the tables changes.
LEMMA TablesKept ==
  ASSUME SessionsData, writes \in Nat, writes' \in {writes, writes + 1},
         UNCHANGED <<existing, sessions, deletedAt, identities>>
  PROVE  SessionsData' /\ Growing
<1>1. \A n \in 1..Len(sessions) : sessions[n] \in [account : existing, revokedAt : 0..writes']
  BY DEF SessionsData
<1>2. deletedAt \in [Accounts -> 0..writes'] BY DEF SessionsData
<1> QED BY <1>1, <1>2 DEF SessionsData, Growing

\* Requests of no session have nothing to know.
LEMMA NoSessionJob ==
  ASSUME NEW j, j.op \notin SessionOps
  PROVE  SessionJob(j)'
  BY DEF SessionJob, SessionOps

\* A session more.
LEMMA SessionAdded ==
  ASSUME SessionsData, writes \in Nat, writes' = writes + 1, NEW a \in existing,
         sessions' = Append(sessions, [account |-> a, revokedAt |-> 0]),
         UNCHANGED <<existing, deletedAt, identities>>
  PROVE  SessionsData' /\ Growing
<1> DEFINE s == [account |-> a, revokedAt |-> 0]
<1>1. s \in [account : existing, revokedAt : 0..writes'] OBVIOUS
<1> HIDE DEF s
<1>2. sessions' = Append(sessions, s) /\ Sequence(sessions) BY DEF s, SessionsData
<1>3. /\ Sequence(sessions') /\ Len(sessions') = Len(sessions) + 1 /\ Len(sessions) \in Nat
      /\ \A n \in 1..Len(sessions) : sessions'[n] = sessions[n]
      /\ sessions'[Len(sessions) + 1] = s
  BY <1>2, SequenceAppend, SequencePlaces
<1>4. \A n \in 1..Len(sessions) : sessions[n] \in [account : existing, revokedAt : 0..writes']
  BY DEF SessionsData
<1>5. deletedAt \in [Accounts -> 0..writes'] BY DEF SessionsData
<1>6. \A n \in 1..Len(sessions') : n \in 1..Len(sessions) \/ n = Len(sessions) + 1 BY <1>3
<1>7. SessionsData' BY <1>1, <1>3, <1>4, <1>5, <1>6 DEF SessionsData
<1> QED BY <1>3, <1>7 DEF Growing

\* Sessions end.
LEMMA SessionsEnd ==
  ASSUME SessionsData, writes \in Nat, writes' = writes + 1,
         Sequence(sessions'), Len(sessions') = Len(sessions),
         \A n \in 1..Len(sessions) :
            \/ sessions'[n] = sessions[n]
            \/ sessions[n].revokedAt = 0 /\ sessions'[n] = [sessions[n] EXCEPT !.revokedAt = writes + 1],
         UNCHANGED <<existing, deletedAt, identities>>
  PROVE  SessionsData' /\ Growing
<1>1. ASSUME NEW n \in 1..Len(sessions)
      PROVE  /\ sessions'[n] \in [account : existing, revokedAt : 0..writes']
             /\ sessions'[n].account = sessions[n].account
             /\ \/ sessions'[n].revokedAt = sessions[n].revokedAt
                \/ sessions[n].revokedAt = 0 /\ sessions'[n].revokedAt = writes + 1
 <2>1. sessions[n] \in [account : existing, revokedAt : 0..writes] BY DEF SessionsData
 <2>2. sessions[n] \in [account : existing, revokedAt : 0..writes'] BY <2>1
 <2>3. writes + 1 \in 0..writes' OBVIOUS
 <2> QED BY <2>1, <2>2, <2>3
<1>2. deletedAt \in [Accounts -> 0..writes'] BY DEF SessionsData
<1> QED BY <1>1, <1>2 DEF SessionsData, Growing
-----------------------------
\* An account more.
LEMMA AccountAdded ==
  ASSUME SessionsData, writes \in Nat, writes' = writes + 1, NEW a \in Accounts, existing' = existing \cup {a},
         UNCHANGED <<sessions, deletedAt, identities>>
  PROVE  SessionsData' /\ Growing
<1>1. \A n \in 1..Len(sessions) : sessions[n] \in [account : existing', revokedAt : 0..writes']
  BY DEF SessionsData
<1>2. deletedAt \in [Accounts -> 0..writes'] /\ identities \in [Phones -> existing' \cup {NoAccount}]
  BY DEF SessionsData
<1> QED BY <1>1, <1>2 DEF SessionsData, Growing

\* A phone is bound, perhaps.
LEMMA PhoneBound ==
  ASSUME SessionsData, writes \in Nat, writes' = writes + 1, NEW a \in existing, NEW p,
         identities' = [identities EXCEPT ![p] = IF @ = NoAccount THEN a ELSE @],
         UNCHANGED <<existing, sessions, deletedAt>>
  PROVE  SessionsData' /\ Growing
<1>1. \A n \in 1..Len(sessions) : sessions[n] \in [account : existing', revokedAt : 0..writes']
  BY DEF SessionsData
<1>2. deletedAt \in [Accounts -> 0..writes'] BY DEF SessionsData
<1>3. identities' \in [Phones -> existing \cup {NoAccount}] BY DEF SessionsData
<1> QED BY <1>1, <1>2, <1>3 DEF SessionsData, Growing

\* An account ends, perhaps.
LEMMA AccountEnds ==
  ASSUME SessionsData, writes \in Nat, writes' = writes + 1, NEW a,
         deletedAt' = [deletedAt EXCEPT ![a] = IF @ = 0 THEN writes + 1 ELSE @],
         UNCHANGED <<existing, sessions, identities>>
  PROVE  SessionsData' /\ Growing
<1>1. \A n \in 1..Len(sessions) : sessions[n] \in [account : existing', revokedAt : 0..writes']
  BY DEF SessionsData
<1>2. deletedAt \in [Accounts -> 0..writes] /\ deletedAt \in [Accounts -> 0..writes'] BY DEF SessionsData
<1>3. \A b \in Accounts : deletedAt'[b] = IF b = a /\ deletedAt[b] = 0 THEN writes + 1 ELSE deletedAt[b]
  BY <1>2
<1>4. deletedAt' \in [Accounts -> 0..writes']
 <2>1. writes + 1 \in 0..writes' OBVIOUS
 <2> QED BY <1>2, <2>1
<1> QED BY <1>1, <1>3, <1>4 DEF SessionsData, Growing

\* Sessions stay as they should be.
LEMMA SessionsKeep ==
  ASSUME Inv1, SessionsTyped, ServedSound, [PlatformNext]_platformVars
  PROVE  SessionsTyped' /\ ServedSound'
<1>1. writes \in Nat /\ writes' \in {writes, writes + 1} BY CountsGrow
<1>2. SessionsData /\ StoreTyped /\ JobsTyped BY DEF Inv1, SessionsTyped
<1>3. CASE ~LoggingIn
 <2>1. UNCHANGED loginVars /\ Apart(SessionOps) BY <1>3, SessionsApart
 <2>2. SessionsData' /\ Growing BY <1>1, <1>2, <2>1, TablesKept DEF loginVars
 <2>3. ASSUME NEW g \in Handlers PROVE SessionJob(job[g])'
  <3>1. CASE job'[g].op \notin SessionOps BY <3>1, NoSessionJob DEF SessionJob, SessionOps
  <3>2. CASE job'[g] = job[g]
   <4>1. job[g].op \in SessionOps => job[g].began \in 0..writes
     BY <1>1 DEF Inv1, JobsTyped, Typed, Idle, SessionOps
   <4>2. \A j : j = job[g] => SessionJob(j)' BY <1>1, <2>2, <4>1, GrowthKeepsJob DEF SessionsTyped
   <4> QED BY <3>2, <4>2
  <3>3. CASE job'[g] = Idle BY <3>3 DEF SessionJob, Idle
  <3> QED BY <2>1, <3>1, <3>2, <3>3 DEF Apart
 <2>4. ServedSound' BY <1>1, <2>1, <2>2, GrowthKeepsServed DEF ServedSound, ServedOnlyLive, loginVars
 <2> QED BY <2>2, <2>3, <2>4 DEF SessionsTyped
<1>4. CASE LoggingIn
 <2>1. PICK h \in Handlers :
         /\ \A g \in Handlers : g # h => job'[g] = job[g]
         /\ \/ \E p \in Phones : IssueOtp(h, p) \/ StartSocial(h, p) \/ \E right : StartVerify(h, p, right)
            \/ \E n, s \in 1..Len(sessions), op \in {"call", "delete", "logout"} : StartCall(h, op, n, s)
            \/ SessionStep(h)
   BY <1>4, LoginCases
 <2> DEFINE j == job[h]
 <2>2. ASSUME SessionsData', Growing, SessionJob(job[h])', served' = served
       PROVE  SessionsTyped' /\ ServedSound'
   BY <1>1, <2>1, <2>2, GrowthKeeps
 <2>3. SessionJob(j) /\ (j.op \in SessionOps => Typed(j) /\ j.began \in 0..writes)
   BY <1>1 DEF SessionsTyped, Inv1, JobsTyped, Typed, Idle, SessionOps
 <2>4. CASE \E p \in Phones : IssueOtp(h, p)
  <3>1. UNCHANGED <<existing, deletedAt, identities, sessions, served, job>>
    BY <2>4 DEF IssueOtp, WroteOnce, Once
  <3>2. SessionsData' /\ Growing BY <1>1, <1>2, <3>1, TablesKept
  <3>3. \A k : k = j => SessionJob(k)' BY <1>1, <2>3, <3>2, GrowthKeepsJob
  <3> QED BY <2>2, <3>1, <3>2, <3>3
 <2>5. CASE \E p \in Phones : StartSocial(h, p) \/ \E right : StartVerify(h, p, right)
  <3>1. /\ UNCHANGED <<existing, deletedAt, identities, sessions, served>>
        /\ job'[h].op = "login" /\ job'[h].at \in {"identity", "count"} /\ job'[h].key \in Phones
    BY <1>2, <2>5, SocialFacts, VerifyFacts DEF loginVars
  <3>2. SessionsData' /\ Growing BY <1>1, <1>2, <3>1, TablesKept
  <3> QED BY <2>2, <3>1, <3>2 DEF SessionJob
 <2>6. CASE \E n, s \in 1..Len(sessions), op \in {"call", "delete", "logout"} : StartCall(h, op, n, s)
  <3>1. PICK n \in 1..Len(sessions), s \in 1..Len(sessions),
          op \in {"call", "delete", "logout"} : StartCall(h, op, n, s)
    BY <2>6
  <3>2. /\ UNCHANGED <<existing, deletedAt, identities, sessions, served>> /\ sessions[n].revokedAt = 0
        /\ job'[h].op = op /\ job'[h].key = n /\ job'[h].who = sessions[n].account /\ job'[h].ended = s
    BY <1>2, <3>1, CallFacts DEF loginVars
  <3>3. SessionsData' /\ Growing BY <1>1, <1>2, <3>2, TablesKept
  <3> QED BY <2>2, <3>2, <3>3 DEF SessionJob
 <2>7. CASE CountAttempt(h) \/ ForgetChallenge(h)
  <3>1. UNCHANGED <<existing, deletedAt, identities, sessions, served>>
    BY <2>7, Zenon DEF CountAttempt, ForgetChallenge
  <3>2. /\ j.op = "login"
        /\ job'[h] = Idle \/ (SameLogin(job'[h], j) /\ job'[h].at \in {"forget", "identity"})
    BY <1>2, <2>7, AttemptFacts DEF AtCode
  <3>3. SessionsData' /\ Growing BY <1>1, <1>2, <3>1, TablesKept
  <3>4. SessionJob(job[h])' BY <2>3, <3>2 DEF SessionJob, SameLogin, Idle
  <3> QED BY <2>2, <3>1, <3>3, <3>4
 <2>8. CASE FindIdentity(h)
  <3>1. /\ UNCHANGED <<existing, deletedAt, identities, sessions, served>>
        /\ j.op = "login" /\ SameLogin(job'[h], j) /\ job'[h].who = identities[j.key]
        /\ job'[h].at = IF identities[j.key] = NoAccount THEN "create" ELSE "session"
    BY <1>2, <2>8, IdentityFacts DEF loginVars
  <3>2. SessionsData' /\ Growing BY <1>1, <1>2, <3>1, TablesKept
  <3>3. j.key \in Phones /\ identities[j.key] \in existing \cup {NoAccount}
    BY <1>2, <2>3, <3>1 DEF SessionJob, SessionsData
  <3> QED BY <2>2, <3>1, <3>2, <3>3 DEF SessionJob, SameLogin
 <2>9. CASE CreateAccount(h)
  <3>1. /\ j.op = "login" /\ writes' = writes + 1 /\ UNCHANGED <<deletedAt, identities, sessions, served>>
        /\ SameLogin(job'[h], j) /\ job'[h].at = "bind" /\ job'[h].who \in Accounts
        /\ existing' = existing \cup {job'[h].who}
    BY <1>2, <2>9, CreateFacts
  <3>2. SessionsData' /\ Growing BY <1>1, <1>2, <3>1, AccountAdded
  <3> QED BY <2>2, <2>3, <3>1, <3>2 DEF SessionJob, SameLogin
 <2>10. CASE BindIdentity(h)
  <3>1. /\ j.op = "login" /\ j.at = "bind" /\ writes' = writes + 1 /\ UNCHANGED <<existing, deletedAt, sessions,
             served>>
        /\ identities' = [identities EXCEPT ![j.key] = IF @ = NoAccount THEN j.who ELSE @]
        /\ SameLogin(job'[h], j) /\ job'[h].at = "session" /\ job'[h].who = j.who
    BY <1>2, <2>10, BindFacts
  <3>2. j.who \in existing BY <2>3, <3>1 DEF SessionJob
  <3>3. SessionsData' /\ Growing BY <1>1, <1>2, <3>1, <3>2, PhoneBound
  <3> QED BY <2>2, <2>3, <3>1, <3>2, <3>3 DEF SessionJob, SameLogin
 <2>11. CASE CreateSession(h)
  <3>1. /\ j.op = "login" /\ j.at = "session" /\ writes' = writes + 1 /\ job'[h] = Idle
        /\ sessions' = Append(sessions, [account |-> j.who, revokedAt |-> 0])
        /\ UNCHANGED <<existing, deletedAt, identities, served>>
    BY <1>2, <2>11, SessionFacts
  <3>2. j.who \in existing BY <2>3, <3>1 DEF SessionJob
  <3>3. SessionsData' /\ Growing BY <1>1, <1>2, <3>1, <3>2, SessionAdded
  <3>4. SessionJob(job[h])' /\ served' = served BY <3>1 DEF SessionJob, Idle
  <3> QED BY <2>2, <3>3, <3>4
 <2>12. CASE CheckAccount(h)
  <3>1. /\ j.op \in {"call", "delete", "logout"} /\ j.at = "account"
        /\ UNCHANGED <<existing, deletedAt, identities, sessions>>
        /\ \/ served' = served /\ job'[h] = Idle
           \/ /\ deletedAt[j.who] = 0
              /\ served' = served \cup {[session |-> j.key, account |-> j.who, began |-> j.began]}
              /\ \/ job'[h] = Idle
                 \/ job'[h].at = "do" /\ SameLogin(job'[h], j) /\ job'[h].who = j.who /\ job'[h].ended = j.ended
    BY <1>2, <2>12, CheckFacts
  <3>2. SessionsData' /\ Growing BY <1>1, <1>2, <3>1, TablesKept
  <3>3. /\ j.key \in 1..Len(sessions) /\ j.who = sessions[j.key].account /\ j.ended \in 1..Len(sessions)
        /\ sessions[j.key].revokedAt = 0 \/ j.began < sessions[j.key].revokedAt
    BY <2>3, <3>1 DEF SessionJob
  <3>4. j.who \in Accounts /\ j.began \in 0..writes BY <1>2, <2>3, <3>1, <3>3 DEF SessionsData, SessionOps
  <3>5. SessionJob(job[h])' BY <3>1, <3>3 DEF SessionJob, SameLogin, Idle
  <3>6. \A x \in served' : x \in served \/ (x.session = j.key /\ x.account = j.who /\ x.began = j.began
          /\ deletedAt[j.who] = 0)
    BY <3>1
  <3>7. \A x \in served' : x \in served \/
          /\ x.session \in 1..Len(sessions') /\ x.account \in Accounts /\ x.began \in 0..writes'
          /\ sessions'[x.session].revokedAt # 0 => x.began < sessions'[x.session].revokedAt
          /\ deletedAt'[x.account] # 0 => x.began < deletedAt'[x.account]
    BY <1>1, <3>1, <3>3, <3>4, <3>6
  <3> HIDE DEF j
  <3> QED BY <1>1, <2>1, <3>2, <3>5, <3>7, GrowthKeeps
 <2>13. CASE RevokeSession(h)
  <3>1. /\ writes' = writes + 1 /\ job'[h] = Idle /\ UNCHANGED <<existing, deletedAt, identities, served>>
        /\ sessions' = [sessions EXCEPT ![j.ended].revokedAt = IF @ = 0 THEN writes + 1 ELSE @]
    BY <1>2, <2>13, RevokeFacts
  <3> DEFINE s == sessions[j.ended]
             x == [s EXCEPT !.revokedAt = IF @ = 0 THEN writes + 1 ELSE @]
  <3>2. sessions' = [sessions EXCEPT ![j.ended] = x] BY <3>1
  <3>3. \A n \in 1..Len(sessions) : sessions[n] = [sessions[n] EXCEPT !.revokedAt = sessions[n].revokedAt]
    BY <1>2 DEF SessionsData
  <3>4. j.ended \in 1..Len(sessions) => x = s \/ (s.revokedAt = 0 /\ x = [s EXCEPT !.revokedAt = writes + 1])
    BY <3>3
  <3> HIDE DEF x
  <3>5. Sequence(sessions') /\ Len(sessions') = Len(sessions)
        /\ \A n \in 1..Len(sessions) : sessions'[n] = IF n = j.ended THEN x ELSE sessions[n]
   <4>1. Sequence(sessions) BY <1>2 DEF SessionsData
   <4> DEFINE e == j.ended
   <4> HIDE DEF e
   <4>2. /\ Sequence([sessions EXCEPT ![e] = x]) /\ Len([sessions EXCEPT ![e] = x]) = Len(sessions)
         /\ \A n \in 1..Len(sessions) : [sessions EXCEPT ![e] = x][n] = IF n = e THEN x ELSE sessions[n]
    <5>1. Sequence([sessions EXCEPT ![e] = x]) /\ Len([sessions EXCEPT ![e] = x]) = Len(sessions)
      BY <4>1, SequenceExcept
    <5>2. DOMAIN sessions = 1..Len(sessions) BY <4>1, SequencePlaces
    <5> QED BY <5>1, <5>2
   <4> QED BY <3>2, <4>2 DEF e
  <3>6. SessionsData' /\ Growing BY <1>1, <1>2, <3>1, <3>4, <3>5, SessionsEnd
  <3>7. SessionJob(job[h])' /\ served' = served BY <3>1 DEF SessionJob, Idle
  <3> QED BY <2>2, <3>6, <3>7
 <2>14. CASE SoftDelete(h)
  <3>1. /\ j.op = "delete" /\ writes' = writes + 1 /\ UNCHANGED <<existing, identities, sessions, served>>
        /\ deletedAt' = [deletedAt EXCEPT ![j.who] = IF @ = 0 THEN writes + 1 ELSE @]
        /\ SameLogin(job'[h], j) /\ job'[h].at = "revokeAll" /\ job'[h].who = j.who /\ job'[h].ended = j.ended
    BY <1>2, <2>14, DeleteFacts
  <3>2. SessionsData' /\ Growing BY <1>1, <1>2, <3>1, AccountEnds
  <3>3. SessionJob(job[h])' /\ served' = served BY <2>3, <3>1 DEF SessionJob, SameLogin
  <3> QED BY <2>2, <3>2, <3>3
 <2>15. CASE RevokeAllSessions(h)
  <3>1. /\ writes' = writes + 1 /\ job'[h] = Idle /\ UNCHANGED <<existing, deletedAt, identities, served>>
        /\ sessions' = [n \in 1..Len(sessions) |->
                         IF sessions[n].account = j.who /\ sessions[n].revokedAt = 0
                         THEN [sessions[n] EXCEPT !.revokedAt = writes + 1] ELSE sessions[n]]
    BY <1>2, <2>15, RevokeAllFacts
  <3>2. Len(sessions) \in Nat BY <1>2, SequencePlaces DEF SessionsData
  <3>3. Sequence(sessions') /\ Len(sessions') = Len(sessions)
   <4>1. DOMAIN sessions' = 1..Len(sessions) /\ sessions' = [n \in 1..Len(sessions) |-> sessions'[n]]
     BY <3>1
   <4> QED BY <3>2, <4>1, SequenceOf
  <3>4. \A n \in 1..Len(sessions) :
          \/ sessions'[n] = sessions[n]
          \/ sessions[n].revokedAt = 0 /\ sessions'[n] = [sessions[n] EXCEPT !.revokedAt = writes + 1]
    BY <3>1
  <3>5. SessionsData' /\ Growing BY <1>1, <1>2, <3>1, <3>3, <3>4, SessionsEnd
  <3>6. SessionJob(job[h])' /\ served' = served BY <3>1 DEF SessionJob, Idle
  <3> QED BY <2>2, <3>5, <3>6
 <2> QED BY <2>1, <2>4, <2>5, <2>6, <2>7, <2>8, <2>9, <2>10, <2>11, <2>12, <2>13, <2>14, <2>15 DEF SessionStep
<1> QED BY <1>3, <1>4
=============================
