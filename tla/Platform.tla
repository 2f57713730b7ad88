-------- MODULE Platform --------
(***************************************************************************)
(* What feature-platform.js and the services beside it keep for accounts:  *)
(* relations, conversations, notifications, rooms, music, tickets,         *)
(* sessions, suspensions.  Services that share no record are not           *)
(* interleaved: serving says, from the start, which of them the handlers   *)
(* work for.                                                               *)
(***************************************************************************)
EXTENDS Views, Support, Sessions, Admin

CONSTANTS Services,   \* the services a run follows
          Load,       \* bound: service -> requests it is sent in a run
          MaxCuts,    \* bound: kinds of requests that are cut off in a run
          Seeds       \* service -> records there may be before the first request

VARIABLE serving

Relations == {"follow", "friend", "block", "mute"}

\* What a record of each kind keeps beside its kind and its status.
WellFormed(r) ==
  /\ {"kind", "status"} \subseteq DOMAIN r
  /\ r.kind # "player" => "who" \in DOMAIN r
  /\ r.kind = "player" => {"current", "volume"} \subseteq DOMAIN r
  /\ r.kind \in Relations => {"whom", "quiet"} \subseteq DOMAIN r /\ {r.who, r.whom} \subseteq Accounts
  /\ r.kind \in {"room", "seat"} => r.who \in Accounts
  /\ r.kind = "profile" => "privacy" \in DOMAIN r /\ DOMAIN DefaultPrivacy \subseteq DOMAIN r.privacy
  /\ r.kind = "track" => "position" \in DOMAIN r /\ r.position \in Nat
  /\ r.kind = "attendance" => "in" \in DOMAIN r
  /\ r.kind = "report" => "whom" \in DOMAIN r
  /\ r.kind \in {"review", "appeal"} => "of" \in DOMAIN r
  /\ r.kind = "review" => "decision" \in DOMAIN r
  /\ r.kind = "appeal" => "outcome" \in DOMAIN r
  /\ r.kind = "ticket" => {"replies", "attachments"} \subseteq DOMAIN r /\ r.status \in DOMAIN Transitions

\* Services whose requests are about a room, which is the first record.
InRooms == {"rooms", "seats", "breakouts", "music", "home", "closing"}

OfKind(seed, kind) == {i \in 1..Len(seed) : seed[i].kind = kind}

\* What is there before the first request is what an earlier use left.
ASSUME SeedsAssumption ==
  \A service \in Services : \A seed \in Seeds[service] :
     /\ seed \in Seq({seed[i] : i \in 1..Len(seed)})
     /\ \A i \in 1..Len(seed) :
          /\ WellFormed(seed[i])
          /\ seed[i].kind = "player" => seed[i].current \in {0} \cup OfKind(seed, "track")
          /\ seed[i].kind = "appeal" => seed[i].of \in OfKind(seed, "review")
          /\ seed[i].kind = "attendance" => seed[i].in \in OfKind(seed, "breakout")
     /\ service \in InRooms => Len(seed) > 0 /\ seed[1].kind = "room"

\* What a record says that only one should say at a time, if it does.
Claim(r) ==
  CASE r.kind \in {"follow", "block", "mute"} /\ r.status = "active" -> <<r.kind, r.who, r.whom>>
    [] r.kind = "friend" /\ r.status # "rejected" -> <<r.kind, {r.who, r.whom}>>
    [] r.kind = "ban" /\ r = Ban(r.who) -> <<r.kind, r.who>>
    [] r.kind = "dj" /\ r = Dj(r.who) -> <<r.kind, r.who>>
    [] r.kind = "breakout" /\ r = Breakout(r.who) -> <<r.kind, r.who>>
    [] Occupies(r) \/ r.kind = "profile" -> <<r.kind, r.who>>
    [] r.kind \in {"review", "appeal"} -> <<r.kind, r.of>>
    [] r.kind = "player" -> <<r.kind>>
    [] OTHER -> <<>>

\* An earlier use in which no requests overlapped and none was cut off.
ASSUME SettledAssumption ==
  \A service \in Services : \A seed \in Seeds[service] :
     /\ \A i, k \in 1..Len(seed) : i < k /\ Claim(seed[i]) = Claim(seed[k]) => Claim(seed[i]) = <<>>
     /\ Cardinality({i \in 1..Len(seed) : Occupies(seed[i])}) <= Capacity
     /\ \A b \in OfKind(seed, "breakout") :
          LET there == {i \in OfKind(seed, "attendance") : seed[i].in = b /\ seed[i].status = "joined"}
          IN Cardinality(there) <= BreakoutCapacity /\ (seed[b].status = "closed" => there = {})
     /\ \A i \in OfKind(seed, "appeal") :
          LET review == seed[seed[i].of]
          IN review.status = "resolved" /\ (seed[i].outcome = "overturned" => review.decision = "overturned")

ASSUME CapacityAssumption == Capacity \in Nat /\ BreakoutCapacity \in Nat

ASSUME NamesAssumption == Nobody \notin Admins /\ NoAccount \notin Accounts

ASSUME TriesAssumption == MaxTries \in Nat

platformVars ==
  <<storeVars, noticeVars, chatVars, shown, answered, loginVars, adminVars, serving>>

PlatformInit ==
  /\ HandlersInit({})
  /\ serving \in Services
  /\ \E seed \in Seeds[serving] : StoreInit(seed)
  /\ NotificationsInit /\ ChatInit /\ ViewsInit /\ SupportInit /\ SessionsInit /\ AdminInit

\* h can take a request to service.
Takes(h, service) == serving = service /\ Ready(h) /\ accepted < Load[service]

\* Steps that every service takes with its records.
Records ==
  /\ \E h \in Handlers :
        StoreStep(h) \/ (Cardinality(dropped) < MaxCuts /\ CutOff(h))
  /\ UNCHANGED <<noticeVars, chatVars, shown, answered, loginVars, adminVars, serving>>

Notices ==
  /\ \E h \in Handlers : NotifyStep(h) \/ MarkRead(h)
                         \/ (Takes(h, "notices") /\ NoticeRequest(h))
  /\ UNCHANGED <<chatVars, shown, answered, loginVars, adminVars, serving>>

Socializing ==
  /\ \E h \in Handlers :
        \/ SocialStep(h)
        \/ Takes(h, "social") /\ SocialRequest(h)
        \/ /\ Takes(h, "notices")
           /\ MuteRequest(h) \/ \E a, b \in Accounts : StartRelation(h, "follow", a, b)
  /\ UNCHANGED <<noticeVars, chatVars, shown, answered, loginVars, adminVars, serving>>

Chatting ==
  /\ \/ \E h \in Handlers : ChatStep(h) \/ (Takes(h, "chat") /\ ChatRequest(h))
     \/ \E a \in Accounts : PresenceExpires(a)
  /\ UNCHANGED <<noticeVars, shown, answered, loginVars, adminVars, serving>>

\* What decides who may write to whom.
KeepingAway ==
  /\ \E h \in Handlers :
        \/ SaveProfile(h)
        \/ /\ Takes(h, "chat")
           /\ \/ PrivacyRequest(h)
              \/ \E a, b \in Accounts : Bar(h, "block", a, b) \/ Lift(h, "block", a, b)
  /\ UNCHANGED <<noticeVars, chatVars, shown, answered, loginVars, adminVars, serving>>

Rooming ==
  /\ \E h \in Handlers :
        \/ RoomStep(h)
        \/ Takes(h, "rooms") /\ RoomRequest(h)
        \/ Takes(h, "seats") /\ SeatRequest(h)
  /\ UNCHANGED <<noticeVars, chatVars, shown, answered, loginVars, adminVars, serving>>

BreakingOut ==
  /\ \E h \in Handlers : BreakoutStep(h) \/ (Takes(h, "breakouts") /\ BreakoutRequest(h))
  /\ UNCHANGED <<noticeVars, chatVars, shown, answered, loginVars, adminVars, serving>>

PlayingMusic ==
  /\ \E h \in Handlers : MusicStep(h) \/ (Takes(h, "music") /\ MusicRequest(h))
  /\ UNCHANGED <<noticeVars, chatVars, shown, answered, loginVars, adminVars, serving>>

Supporting ==
  /\ \E h \in Handlers : SupportStep(h) \/ (Takes(h, "support") /\ SupportRequest(h))
  /\ UNCHANGED <<noticeVars, chatVars, shown, loginVars, adminVars, serving>>

LoggingIn ==
  /\ \E h \in Handlers : SessionStep(h) \/ (Takes(h, "sessions") /\ SessionRequest(h))
  /\ UNCHANGED <<noticeVars, chatVars, shown, answered, adminVars, serving>>

Viewing ==
  /\ \E h \in Handlers :
        \/ ViewStep(h) \/ FeedStep(h)
        \/ Takes(h, "views") /\ ViewRequest(h)
        \/ Takes(h, "home") /\ FeedRequest(h)
  /\ UNCHANGED <<noticeVars, chatVars, answered, loginVars, adminVars, serving>>

\* What decides who may see whom.
Hiding ==
  /\ \E h \in Handlers :
        /\ Takes(h, "views")
        /\ \/ VisibilityRequest(h)
           \/ \E a, b \in Accounts : Bar(h, "block", a, b) \/ Lift(h, "block", a, b)
           \/ \E a \in Accounts, i \in 1..Len(records) : Answer(h, a, i, "accepted")
  /\ UNCHANGED <<noticeVars, chatVars, shown, answered, loginVars, adminVars, serving>>

Administering ==
  /\ \E h \in Handlers :
        \/ AdminStep(h)
        \/ Takes(h, "accounts") /\ SuspendRequest(h)
        \/ Takes(h, "closing") /\ \E by \in Admins : CloseRoom(h, by)
  /\ UNCHANGED <<noticeVars, chatVars, shown, answered, loginVars, serving>>

\* What decides what a room is in the feed.
Happening ==
  /\ \E h \in Handlers :
        /\ Takes(h, "home")
        /\ \/ Setting(h, "private")
           \/ \E a \in Accounts : MoveRequest(h, a) \/ Lift(h, "follow", a, RoomOwner)
  /\ UNCHANGED <<noticeVars, chatVars, shown, answered, loginVars, adminVars, serving>>

\* What is done in a room that staff may close.
Staying ==
  /\ \E h \in Handlers :
        /\ Takes(h, "closing")
        /\ \/ \E a \in Accounts : StartJoin(h, a)
           \/ \E value \in RoomSettings : Setting(h, value)
  /\ UNCHANGED <<noticeVars, chatVars, shown, answered, loginVars, adminVars, serving>>

PlatformNext ==
  \/ Viewing \/ Hiding \/ Administering \/ Happening \/ Staying
  \/ Records \/ Notices \/ Socializing \/ Chatting \/ KeepingAway
  \/ Rooming \/ BreakingOut \/ PlayingMusic \/ Supporting \/ LoggingIn

PlatformSpec == PlatformInit /\ [][PlatformNext]_platformVars
-----------------------------
Kind(kind) == Where(LAMBDA r : r.kind = kind)
KindIn(kind, statuses) == Where(LAMBDA r : r.kind = kind /\ r.status \in statuses)
Of(h, ops) == job[h] # Idle /\ job[h].op \in ops
Settled(ops) == \A h \in Handlers : ~Of(h, ops)

\* Requests that wrote i or k were at work at the same time.
Raced(i, k) == Overlap(i, k) \/ Disordered(i) \/ Disordered(k)

PlatformTypeOK ==
  /\ Len(trace) = Len(records)
  /\ \A i \in 1..Len(records) : \A s \in trace[i] : s.began < s.wrote /\ s.wrote <= writes
  /\ \A i \in Kind("track") : records[i].position \in Nat
  /\ \A n \in 1..Len(inbox) : inbox[n].status \in {"read", "unread"} /\ inbox[n].to \in Accounts
  /\ \A c \in Pairs : IsOpen(c) => conversations[c].opener \in c
  /\ \A n \in 1..Len(sessions) : sessions[n].account \in existing

\* There is one active record at most of a relation, a ban, a DJ, a
\* breakout, a membership, an appeal, whatever it is that is looked for before
\* it is added, unless the two requests that added two of them were at work at
\* the same time, or two that wrote one of them (feature-platform.js:171-237,
\* 260-265, 667-673, 999-1003, 1357-1361, 1494-1498).
OneRecord ==
  \A i, k \in 1..Len(records) :
     i < k /\ Claim(records[i]) = Claim(records[k]) /\ Claim(records[i]) # <<>> => Raced(i, k)

\* Nobody follows, befriends or writes to an account by a request that began
\* after one of the two had blocked the other, as long as the block stands;
\* nor opens a conversation with one who, by then, had said that nobody may
\* (feature-platform.js:171-213, 272; chat.service.js:91-130, 173-175).
BlockRespected ==
  /\ \A c \in Pairs : IsOpen(c) =>
       LET i == Profile(OtherOf(c, conversations[c].opener)) IN
       \/ i = 0 \/ Disordered(i)
       \/ records[i].privacy.whoCanMessage = "nobody" => conversations[c].began < LastWrite(i)
  /\ \A b \in KindIn("block", {"active"}) :
       LET two == {records[b].who, records[b].whom} IN
       \/ Disordered(b)
       \/ /\ \A i \in Kind("follow") \cup Kind("friend") :
               {records[i].who, records[i].whom} = two => \A s \in trace[i] :
                 s.op \in {"follow", "friend"} => s.began < LastWrite(b)
          /\ \A n \in 1..Len(messages) : messages[n].in = two => messages[n].began < LastWrite(b)

\* An account sees no profile and no list of one with whom there is a block,
\* sees in full and in lists only what the owner's privacy allows it, and all
\* of what is public, and finds no account that asked to be left out of
\* searches: by requests that began after the block, or after the profile was
\* last written, of profiles whose writes did not overlap
\* (feature-platform.js:429-531, 544-578, 796-815).
ProfilesSeen ==
  \A x \in {y \in shown : y.by # y.of /\ y.op \notin Tabs} :
     /\ \A b \in KindIn("block", {"active"}) :
          x.op # "search" /\ {x.by, x.of} = {records[b].who, records[b].whom} /\ ~Disordered(b)
            => x.began < LastWrite(b)
     /\ LET i == Profile(x.of)
            kept == records[i].privacy
        IN \/ i = 0 \/ x.began < LastWrite(i)
           \/ \E k \in Kind("profile") : records[k].who = x.of /\ Raced(i, k) /\ (i # k \/ Disordered(i))
           \/ IF x.op = "search" THEN kept.discoverable
              ELSE IF x.full THEN kept.visible = "public" \/ (kept.visible = "friends" /\ AreFriends(x.by, x.of))
              ELSE kept.visible # "public"

\* A room that was made private is in nobody's feed but its owner's, a room in
\* the tab "live" has somebody in it who is connected, and one in "following"
\* an owner whom the caller follows; and a room that is all of this is there:
\* by requests that began after the records which say so were last written
\* (feature-platform.js:919-972, of a room that is "live" if and only if
\* somebody has joined it).
FeedTrue ==
  \A x \in {y \in shown : y.op \in Tabs} :
     LET connected == {i \in Kind("membership") : records[i].status = "joined"}
         follows == {i \in KindIn("follow", {"active"}) : records[i].who = x.by /\ records[i].whom = x.of}
         moved(i) == x.began < LastWrite(i)
     IN /\ x.full =>
             /\ moved(1) \/ VisibleTo(x.by, records[1])
             /\ x.op = "live" => connected # {} \/ \E i \in Kind("membership") : moved(i)
             /\ x.op = "following" => follows # {} \/ \E i \in Kind("follow") : moved(i)
        /\ ~x.full =>
             \/ moved(1) \/ ~VisibleTo(x.by, records[1])
             \/ x.op = "live" /\ \A i \in connected : moved(i)
             \/ x.op = "following" /\ \A i \in follows : moved(i)

SeenAsAllowed == ProfilesSeen /\ FeedTrue

\* An account hears nothing of one it has muted, and is not pushed a category
\* it has muted, by requests that began afterwards; security is pushed to
\* all; a message that was stored is announced unless its sender is muted,
\* or the request is under way or was cut off
\* (feature-platform.js:365-374; notification.service.js:142-151;
\* chat.service.js:204-222).
NoticesRight ==
  /\ \A m \in KindIn("mute", {"active"}), n \in 1..Len(inbox) :
       inbox[n].to = records[m].who /\ inbox[n].from = records[m].whom
         /\ inbox[n].category = "social" /\ ~Disordered(m)
         => inbox[n].began < LastWrite(m)
  /\ \A p \in pushed : p.category \in muted[p.to] =>
       p.category # "security" /\ p.began < mutedAt[p.to]
  /\ \A n \in 1..Len(messages) :
       LET c == messages[n].in
           to == OtherOf(c, messages[n].by)
       IN \/ WasCutOff("send", c)
          \/ \E m \in Kind("mute") : records[m].who = to
          \/ \E h \in Handlers : Of(h, {"send"}) /\ job[h].began = messages[n].began
          \/ \E k \in 1..Len(inbox) : inbox[k].to = to /\ inbox[k].op = "send"
                                      /\ inbox[k].began = messages[n].began

\* A write of a profile changes no setting of its privacy but the one its
\* request was about, unless requests overlapped
\* (feature-platform.js:391-420).
PrivacyKept ==
  [][\A i \in Kind("profile") : \A key \in DOMAIN DefaultPrivacy :
       records'[i].privacy[key] # records[i].privacy[key] =>
         \/ \E s, t \in trace'[i] : Overtook(s, t)
         \/ \E h \in Handlers : Of(h, {"privacy"}) /\ key \in DOMAIN job[h].patch /\ job'[h] = Idle]_records
-----------------------------
\* Once a ban is logged, the account is in the room only by a request that
\* overlapped the ban, or that overlapped another and entered twice (feature-platform.js:1044-1052,
\* 1363-1372).
BanKeepsOut ==
  \A b \in KindIn("ban", {"active"}), l \in KindIn("log", {"ban"}), i \in Occupying :
     /\ records[l].who = records[b].who /\ records[i].who = records[b].who
     => \A s \in trace[b], t \in trace[l] :
          s.began = t.began /\ s.wrote < t.wrote =>
             \/ \E u \in trace[i] : u.op # "ban" /\ (Overtook(u, t) \/ Overtook(t, u))
             \/ \E m \in Kind("membership") \ {i} : records[m].who = records[i].who /\ Raced(i, m)

\* A room that staff have closed stays closed, and nobody joins it by a request
\* that began afterwards, unless a setting was written meanwhile
\* (admin-panel.service.js:52-60; feature-platform.js:1014-1019).
ClosedKeepsOut ==
  \A r \in Kind("room") : \A s \in trace[r] :
     \/ s.op # "closeRoom" \/ Disordered(r)
     \/ /\ records[r].status = "closed"
        /\ \A i \in Kind("membership") : \A t \in trace[i] : t.op = "join" => t.began < s.wrote

\* A room is not fuller than its capacity, unless requests overlapped
\* (feature-platform.js:1075-1085); and who was put out of it stays out.
RoomSound ==
  /\ BanKeepsOut /\ ClosedKeepsOut
  /\ Cardinality(Occupying) > Capacity => \E i, k \in Occupying : Raced(i, k) /\ (i # k \/ Disordered(i))

\* Nobody attends a breakout that has been closed and cleared, unless by a
\* request that overlapped its closing; a breakout is not fuller than its
\* capacity unless requests overlapped (feature-platform.js:680-724).
BreakoutSound ==
  \A b \in Kind("breakout") :
     /\ \A i \in Audience(b) :
          records[b].status = "closed" => InFlight("close", b, {"update", "dismiss"}) \/ WasCutOff("close", b) \/ Raced(i, b)
     /\ Cardinality(Audience(b)) > BreakoutCapacity =>
          \E i, k \in Audience(b) : Raced(i, k) /\ (i # k \/ Disordered(i))

\* The tracks that play are the one the player shows, if it shows one, once
\* no request is under way, none was cut off and none overlapped another
\* (feature-platform.js:1619-1623, 1660-1664).
PlayerSound ==
  \A p \in Kind("player") :
     Settled(Controls) /\ (\A op \in Controls : ~WasCutOff(op, "player"))
       /\ Kind("player") = {p} /\ (\A i \in Kind("track") \cup {p} : ~Disordered(i))
     => Tracks({"playing"}) = IF records[p].status = "stopped" THEN {} ELSE {records[p].current}

\* "at most one real playing track per room" (feature-platform.js:1621-1623).
OnePlaying == Cardinality(Tracks({"playing"})) <= 1
-----------------------------
\* A reply that was answered is in its ticket, and a ticket that was closed
\* stays so and gets no reply from a request that began afterwards; an appeal
\* is about a resolved review, and when it is overturned so is the review,
\* unless the request is under way or was cut off; all of it for records
\* whose requests did not overlap (feature-platform.js:1857-1891, 2265-2314).
SupportSound ==
  /\ \A x \in answered : Disordered(x.ticket) \/ x.entry \in records[x.ticket].replies
  /\ \A i \in Kind("ticket") : \A s \in trace[i] : s.op = "closed" /\ ~Disordered(i) =>
       records[i].status = "closed" /\ \A t \in trace[i] : t.began < s.wrote
  /\ \A i \in Kind("appeal") :
       LET k == records[i].of IN
       \/ Disordered(i) \/ Disordered(k)
       \/ /\ records[k].status = "resolved"
          /\ records[i].outcome = "overturned" =>
               \/ records[k].decision = "overturned"
               \/ WasCutOff("decide", i) \/ InFlight("decide", i, {"update", "review"})

\* "replies are always visible on their own ticket"
\* (feature-platform.js:1861-1863).
RepliesVisible == \A x \in answered : x.entry \in records[x.ticket].replies

\* The middleware lets no request pass that began after its session was
\* revoked or its account deleted, even if a login that overlapped the
\* deletion made the session (session-middleware.js:14-40).
ServedOnlyLive ==
  \A x \in served :
     /\ sessions[x.session].revokedAt # 0 => x.began < sessions[x.session].revokedAt
     /\ deletedAt[x.account] # 0 => x.began < deletedAt[x.account]

Together(s, t) == s.began < t.wrote /\ t.began < s.wrote

\* A code opens one login, and takes MaxTries attempts, if no two of them
\* overlapped; and two accounts were made for one phone only by logins that
\* did (auth.store.js:40-61).
CodesSound ==
  /\ \A c \in {x.code : x \in attempts} :
       LET mine == {x \in attempts : x.code = c} IN
       \/ \E x, y \in mine : x.by # y.by /\ Together(x, y)
       \/ /\ Cardinality({x \in mine : x.opened}) <= 1
          /\ Cardinality({x \in mine : ~x.opened}) <= MaxTries
  /\ \A x, y \in bound : x.phone = y.phone => x = y \/ Together(x, y)

\* Only who has shown a code, or still has an account, is let in.
LoginsSound == ServedOnlyLive /\ CodesSound

\* Entries of the audit log that say that staff did this to a.
Entries(action, a) ==
  {n \in 1..Len(audit) : audit[n].deed.action = action /\ audit[n].deed.target = a}

\* Who suspended a, as the audit log has it: the first to do so since a
\* suspension of a was last ended, if any did.
Replay(a) ==
  LET since == {n \in Entries("suspend", a) : \A m \in Entries("unsuspend", a) : m < n}
  IN IF since = {} THEN Nobody
     ELSE audit[CHOOSE n \in since : \A m \in since : n <= m].deed.by

\* The audit log accounts for what staff did: a deed that is not in it is
\* about to be, failed to be written or was cut off before; and the log of
\* an account, replayed, gives who suspended it, unless a deed is missing or
\* two of its requests overlapped (account-admin.service.js:34-71;
\* audit.service.js:29-44; admin-panel.service.js:52-60).
AuditTruthful ==
  LET logged == {audit[n].deed : n \in 1..Len(audit)} IN
  /\ \A d \in deeds :
        \/ d \in logged \cup unlogged \/ WasCutOff(d.action, d.target)
        \/ InFlight(d.action, d.target, {"audit"})
  /\ \A r \in Kind("room") : \A s \in trace[r] : s.op = "closeRoom" =>
        \/ \E d \in logged \cup unlogged : d.action = s.op /\ d.began = s.began
        \/ WasCutOff(s.op, r) \/ InFlight(s.op, r, {"audit"})
  /\ \A a \in Accounts :
        \/ suspendedBy[a] = Replay(a)
        \/ \E d \in deeds : d.target = a /\ d \notin logged
        \/ \E n, m \in 1..Len(audit) :
              /\ n # m /\ audit[n].deed.target = a /\ audit[m].deed.target = a
              /\ Together([began |-> audit[n].deed.began, wrote |-> audit[n].wrote],
                          [began |-> audit[m].deed.began, wrote |-> audit[m].wrote])
=============================
