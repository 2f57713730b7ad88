-------- MODULE Rooms --------
(***************************************************************************)
(* The rooms of feature-platform.js: who is in a room, who sits where, and *)
(* what its owner does about it.  One open room; its record comes first in *)
(* the store.  Checks and writes are statements of their own.              *)
(***************************************************************************)
EXTENDS Notifications

CONSTANTS Capacity,
          RoomSettings   \* values of one setting, which stands for all of them

Room(a) == [kind |-> "room", status |-> "open", who |-> a, setting |-> "none"]
RoomOwner == records[1].who
Membership(a) == [kind |-> "membership", status |-> "joined", who |-> a]
Seat(a) == [kind |-> "seat", status |-> "requested", who |-> a, muted |-> FALSE]
Ban(a) == [kind |-> "ban", status |-> "active", who |-> a]
Logged(action, a) == [kind |-> "log", status |-> action, who |-> a]

Occupies(r) == r.kind = "membership" /\ r.status \in {"joined", "disconnected"}
Occupying == Where(Occupies)
ActiveBan(a) == Find(LAMBDA r : r = Ban(a))
Session(a, status) == Find(LAMBDA r : r.kind = "membership" /\ r.who = a /\ r.status = status)
ActiveMembership(a) == Find(LAMBDA r : Occupies(r) /\ r.who = a)
ApprovedSeat(a) == Find(LAMBDA r : r.kind = "seat" /\ r.who = a /\ r.status = "approved")

\* isRoomMember: the owner, or somebody in the room.
IsRoomMember(a) == a = RoomOwner \/ ActiveMembership(a) # 0
-----------------------------
\* join: the room is open; then the ban, the membership there is, the
\* capacity, a new membership.
StartJoin(h, a) ==
  /\ records[1].status = "open"
  /\ Begin(h, Request("join", a, a, "banned"))

CheckBan(h) ==
  /\ Doing(h, "join", "banned")
  /\ Become(h, [job[h] EXCEPT !.at = IF ActiveBan(job[h].who) = 0 THEN "member" ELSE "end"])

FindMember(h) ==
  LET j == job[h]
      i == ActiveMembership(j.who)
  IN /\ Doing(h, "join", "member")
     /\ Become(h, IF i = 0 THEN [j EXCEPT !.at = "capacity"]
                  ELSE IF records[i].status = "joined" THEN [j EXCEPT !.at = "end"]
                  ELSE Updating(j, {Update(i, [status |-> "joined"])}, "end"))

\* Mutant: only who is connected is counted.
CountConnected(h) ==
  LET j == job[h] IN
  /\ Doing(h, "join", "capacity")
  /\ Become(h, IF Cardinality(Where(LAMBDA r : r.kind = "membership" /\ r.status = "joined")) >= Capacity
               THEN [j EXCEPT !.at = "end"] ELSE Adding(j, Membership(j.who), "end"))

CountMembers(h) ==
  LET j == job[h] IN
  /\ Doing(h, "join", "capacity")
  /\ Become(h, IF Cardinality(Occupying) >= Capacity THEN [j EXCEPT !.at = "end"]
               ELSE Adding(j, Membership(j.who), "end"))

\* leave, disconnect and reconnect change the membership they have found;
\* reconnect does so for RECONNECT_GRACE_MS, and looks for no ban.
StartMove(h, a, i, status) ==
  /\ i # 0
  /\ Begin(h, Updating(Request("move", a, a, "update"), {Update(i, [status |-> status])}, "end"))

MoveRequest(h, a) ==
  \/ StartMove(h, a, ActiveMembership(a), "left")
  \/ StartMove(h, a, Session(a, "joined"), "disconnected")
  \/ StartMove(h, a, Session(a, "disconnected"), "joined")
-----------------------------
RequestSeat(h, a) == Begin(h, Adding(Request("seat", a, a, "add"), Seat(a), "end"))

\* The owner's requests; they begin with the read that finds their target.
ByOwner(op, a, patched, patch, next) ==
  Updating(Telling(Request(op, RoomOwner, a, "update"), a, "room"), {Update(patched, patch)}, next)

AnswerSeat(h, i, status) ==
  /\ records[i].kind = "seat" /\ records[i].status = "requested"
  /\ Begin(h, ByOwner("answer", records[i].who, i, [status |-> status], "notify"))

MuteSeat(h, i, muting) ==
  /\ records[i].kind = "seat" /\ records[i].status = "approved"
  /\ Begin(h, ByOwner("seatMute", records[i].who, i, [muted |-> muting], "end"))

MuteMember(h, a, muting) ==
  /\ ApprovedSeat(a) # 0
  /\ Begin(h, ByOwner("memberMute", a, ApprovedSeat(a), [muted |-> muting], "log"))

\* kick looks for a member who is connected.
Kick(h, a) ==
  /\ Session(a, "joined") # 0
  /\ Begin(h, ByOwner("kick", a, Session(a, "joined"), [status |-> "kicked"], "log"))

\* banMember: the record of the ban, then the membership, then the log.
StartBan(h, a) ==
  /\ a # RoomOwner
  /\ ActiveBan(a) = 0
  /\ Begin(h, Adding(Telling(Request("ban", RoomOwner, a, "add"), a, "room"), Ban(a), "evict"))

Evict(h) ==
  LET i == ActiveMembership(job[h].to) IN
  /\ Doing(h, "ban", "evict")
  /\ Become(h, IF i = 0 THEN [job[h] EXCEPT !.at = "log"]
               ELSE Updating(job[h], {Update(i, [status |-> "kicked"])}, "log"))

Unban(h, a) ==
  /\ ActiveBan(a) # 0
  /\ Begin(h, ByOwner("unban", a, ActiveBan(a), [status |-> "removed"], "log"))

\* moderation, and the log of a setting.
WriteLog(h) ==
  /\ job[h].at = "log"
  /\ Become(h, Adding(job[h], Logged(job[h].op, job[h].to), "end"))

Setting(h, value) ==
  Begin(h, ByOwner("setting", RoomOwner, 1, [setting |-> value], "log"))
-----------------------------
RoomRequest(h) ==
  \E a \in Accounts :
     StartJoin(h, a) \/ MoveRequest(h, a) \/ Kick(h, a) \/ StartBan(h, a) \/ Unban(h, a)

SeatRequest(h) ==
  \/ \E a \in Accounts : RequestSeat(h, a) \/ \E muting \in BOOLEAN : MuteMember(h, a, muting)
  \/ \E i \in 1..Len(records) :
        \/ \E status \in {"approved", "rejected"} : AnswerSeat(h, i, status)
        \/ \E muting \in BOOLEAN : MuteSeat(h, i, muting)
  \/ \E value \in RoomSettings : Setting(h, value)

RoomStep(h) == CheckBan(h) \/ FindMember(h) \/ CountMembers(h) \/ Evict(h) \/ WriteLog(h)
-----------------------------
\* Rooms in a room (roomInRoom): the host opens a breakout, members of the room
\* join and leave it, the host ends it.
CONSTANT BreakoutCapacity

Breakout(a) == [kind |-> "breakout", status |-> "open", who |-> a]
Attending(a, b) == [kind |-> "attendance", status |-> "joined", who |-> a, in |-> b]
AttendanceOf(a, b) == Find(LAMBDA r : r = Attending(a, b))
Audience(b) == Where(LAMBDA r : r.kind = "attendance" /\ r.in = b /\ r.status = "joined")
IsBreakout(b, status) == records[b].kind = "breakout" /\ records[b].status = status

\* At most one is open.
CreateBreakout(h) ==
  /\ Find(LAMBDA r : r = Breakout(RoomOwner)) = 0
  /\ Begin(h, Adding(Request("create", RoomOwner, "breakout", "add"), Breakout(RoomOwner), "end"))

EndBreakout(h, b) ==
  /\ IsBreakout(b, "open")
  /\ Begin(h, Updating(Request("close", RoomOwner, b, "update"),
                       {Update(b, [status |-> "closed"])}, "dismiss"))

\* Mutant: only the host is dismissed.
DismissNobody(h) ==
  /\ Doing(h, "close", "dismiss")
  /\ Become(h, [job[h] EXCEPT !.at = "end"])

\* Everybody found in it is dismissed, in one Promise.all.
Dismiss(h) ==
  LET j == job[h] IN
  /\ Doing(h, "close", "dismiss")
  /\ Become(h, Updating(j, {Update(i, [status |-> "ended"]) : i \in Audience(j.key)}, "end"))

\* join: the breakout is open; then the caller is in the room; then the
\* caller's own attendance; then the number there.
StartAttend(h, a, b) ==
  /\ IsBreakout(b, "open")
  /\ Begin(h, Request("attend", a, b, "member"))

CheckMember(h) ==
  LET j == job[h] IN
  /\ Doing(h, "attend", "member")
  /\ Become(h, [j EXCEPT !.at = IF IsRoomMember(j.who) THEN "find" ELSE "end"])

FindAttendance(h) ==
  LET j == job[h] IN
  /\ Doing(h, "attend", "find")
  /\ Become(h, [j EXCEPT !.at = IF AttendanceOf(j.who, j.key) # 0 THEN "end" ELSE "capacity"])

CountAudience(h) ==
  LET j == job[h] IN
  /\ Doing(h, "attend", "capacity")
  /\ Become(h, IF Cardinality(Audience(j.key)) >= BreakoutCapacity THEN [j EXCEPT !.at = "end"]
               ELSE Adding(j, Attending(j.who, j.key), "end"))

LeaveBreakout(h, a, b) ==
  LET i == AttendanceOf(a, b) IN
  /\ i # 0
  /\ Begin(h, Updating(Request("quit", a, b, "update"), {Update(i, [status |-> "left"])}, "end"))

BreakoutRequest(h) ==
  \/ CreateBreakout(h)
  \/ \E b \in 1..Len(records) :
        \/ EndBreakout(h, b)
        \/ \E a \in Accounts : StartAttend(h, a, b) \/ LeaveBreakout(h, a, b)

BreakoutStep(h) == Dismiss(h) \/ CheckMember(h) \/ FindAttendance(h) \/ CountAudience(h)
-----------------------------
(***************************************************************************)
(* The music of a room (feature-platform.js, music): DJs, a queue of       *)
(* tracks, each with its position, and one player that says which of them  *)
(* is on.  The player, the tracks and the DJs are records of their own.    *)
(***************************************************************************)
CONSTANT Volumes

Dj(a) == [kind |-> "dj", status |-> "active", who |-> a]
Track(a, position) == [kind |-> "track", status |-> "queued", who |-> a, position |-> position]
NewPlayer == [kind |-> "player", status |-> "stopped", current |-> 0, volume |-> 100]

ActiveDj(a) == Find(LAMBDA r : r = Dj(a))
IsDj(a) == a = RoomOwner \/ ActiveDj(a) # 0
Tracks(statuses) == Where(LAMBDA r : r.kind = "track" /\ r.status \in statuses)
Queued == Tracks({"queued"})

\* Sorted by position, tracks of one position by age.
Before(i, k) ==
  records[i].position < records[k].position
    \/ (records[i].position = records[k].position /\ i < k)
PlaceIn(queue, i) == Cardinality({k \in queue : Before(k, i)})
Foremost(queue) == CHOOSE i \in queue : PlaceIn(queue, i) = 0
-----------------------------
\* grantDJ: a member of the room, and no DJ yet.
StartGrant(h, a) ==
  /\ a # RoomOwner
  /\ IsRoomMember(a)
  /\ Begin(h, Request("grant", RoomOwner, a, "dj"))

GrantDj(h) ==
  LET a == job[h].key IN
  /\ Doing(h, "grant", "dj")
  /\ Become(h, IF ActiveDj(a) # 0 THEN [job[h] EXCEPT !.at = "end"]
               ELSE Adding(job[h], Dj(a), "end"))

RevokeDj(h, a) ==
  /\ ActiveDj(a) # 0
  /\ Begin(h, Updating(Request("revoke", RoomOwner, a, "update"),
                       {Update(ActiveDj(a), [status |-> "revoked"])}, "end"))

\* queueAdd: the position is the number of tracks queued or playing.
StartQueue(h, a) ==
  /\ IsRoomMember(a)
  /\ Begin(h, Request("queue", a, "queue", "count"))

QueueTrack(h) ==
  /\ Doing(h, "queue", "count")
  /\ Become(h, Adding(job[h], Track(job[h].who, Cardinality(Tracks({"queued", "playing"}))), "end"))

\* queueRemove: the track is queued; the caller is a DJ or asked for it.
StartRemove(h, a, i) ==
  /\ i \in Queued
  /\ Begin(h, Request("remove", a, i, "may"))

RemoveTrack(h) ==
  LET j == job[h] IN
  /\ Doing(h, "remove", "may")
  /\ Become(h, IF IsDj(j.who) \/ records[j.key].who = j.who
               THEN Updating(j, {Update(j.key, [status |-> "removed"])}, "reindex")
               ELSE [j EXCEPT !.at = "end"])

\* Tracks that are not in the place order gives them are moved there.
Renumber(queue, order(_)) ==
  {Update(i, [position |-> order(i)]) : i \in {k \in queue : records[k].position # order(k)}}

\* _reindexQueue.
Reindex(h) ==
  /\ Doing(h, "remove", "reindex")
  /\ Become(h, Updating(job[h], Renumber(Queued, LAMBDA i : PlaceIn(Queued, i)), "end"))

\* queueReorder: a DJ, a queued track, and a place in the queue read then.
StartReorder(h, a, i, place) ==
  /\ IsDj(a)
  /\ i \in Queued
  /\ Begin(h, Merge(Request("reorder", a, i, "order"), [place |-> place]))

Reorder(h) ==
  LET j == job[h]
      others == Queued \ {j.key}
      order(i) == IF i = j.key THEN j.place
                  ELSE PlaceIn(others, i) + (IF PlaceIn(others, i) >= j.place THEN 1 ELSE 0)
  IN /\ Doing(h, "reorder", "order")
     /\ Become(h, IF j.place >= Cardinality(Queued) THEN [j EXCEPT !.at = "end"]
                  ELSE Updating(j, Renumber(others \cup {j.key}, order), "end"))
-----------------------------
\* play, pause, next and setVolume: a DJ asks, the player is found or made.
\* chosen is the track to play, or 0.
Controls == {"play", "pause", "next", "volume"}

StartControl(h, op, a, chosen) ==
  /\ IsDj(a)
  /\ Begin(h, Merge(Request(op, a, "player", "player"), [chosen |-> chosen]))

\* getState: whoever is in the room asks, and may be the first to.
StartLook(h, a) ==
  /\ IsRoomMember(a)
  /\ Begin(h, Merge(Request("state", a, "player", "player"), [chosen |-> 0]))

GetPlayer(h) ==
  LET j == job[h]
      i == Find(LAMBDA r : r.kind = "player")
      onward == CASE j.op = "next" -> "previous" [] j.op = "state" -> "end" [] OTHER -> j.op
  IN /\ j.at = "player"
     /\ Become(h, IF i = 0 THEN Adding(Merge(j, [state |-> NewPlayer]), NewPlayer, onward)
                  ELSE Merge(j, [made |-> i, state |-> records[i], at |-> onward]))

\* The last write of a request: the player becomes what patch says.
Show(j, patch) == Updating(j, {Update(j.made, patch)}, "end")

Pause(h) ==
  LET j == job[h] IN
  /\ j.at = "pause"
  /\ Become(h, IF j.state.status = "playing" THEN Show(j, [status |-> "paused"])
               ELSE [j EXCEPT !.at = "end"])

SetVolume(h) ==
  /\ job[h].at = "volume"
  /\ \E volume \in Volumes : Become(h, Show(job[h], [volume |-> volume]))

\* play: the chosen track, the paused one, or the foremost.
ChooseTrack(h) ==
  LET j == job[h]
      resumed == j.state.status = "paused" /\ j.state.current # 0
      track == IF j.chosen # 0 THEN j.chosen
               ELSE IF resumed THEN j.state.current
               ELSE IF Queued = {} THEN 0 ELSE Foremost(Queued)
  IN /\ j.at = "play"
     /\ Become(h, IF track = 0 \/ (j.chosen # 0 /\ records[j.chosen].status # "queued")
                  THEN [j EXCEPT !.at = "end"]
                  ELSE Merge(j, [track |-> track, was |-> records[track].status, at |-> "previous"]))

\* Mutant: the track that was on is left playing.
LeavePrevious(h) ==
  LET j == job[h] IN
  /\ j.at = "previous"
  /\ Become(h, [j EXCEPT !.at = IF j.op = "play" THEN "start" ELSE "advance"])

\* The track that was on, if it still is, has been played.
EndPrevious(h) ==
  LET j == job[h]
      previous == j.state.current
      replaced == previous # 0 /\ (j.op = "play" => previous # j.track)
  IN /\ j.at = "previous"
     /\ Become(h, Updating(j, IF replaced /\ records[previous].status = "playing"
                              THEN {Update(previous, [status |-> "played"])} ELSE {},
                           IF j.op = "play" THEN "start" ELSE "advance"))

StartTrack(h) ==
  LET j == job[h] IN
  /\ j.at = "start"
  /\ Become(h, Updating(j, IF j.was = "queued" THEN {Update(j.track, [status |-> "playing"])} ELSE {},
                        "show"))

ShowTrack(h) ==
  LET j == job[h] IN
  /\ j.at = "show"
  /\ Become(h, Show(j, [status |-> "playing", current |-> j.track]))

\* next: when the track that was on has ended, the foremost begins.
Advance(h) ==
  LET j == job[h] IN
  /\ j.at = "advance"
  /\ Become(h, IF Queued = {} THEN Show(j, [status |-> "stopped", current |-> 0])
               ELSE Updating(Merge(j, [track |-> Foremost(Queued)]),
                             {Update(Foremost(Queued), [status |-> "playing"])}, "show"))
-----------------------------
MusicRequest(h) ==
  \/ \E a \in Accounts :
        \/ StartGrant(h, a) \/ RevokeDj(h, a) \/ StartQueue(h, a) \/ StartLook(h, a)
        \/ \E i \in Queued :
              \/ StartRemove(h, a, i) \/ StartControl(h, "play", a, i)
              \/ \E place \in 0..Cardinality(Queued) - 1 : StartReorder(h, a, i, place)
        \/ \E op \in Controls : StartControl(h, op, a, 0)

MusicStep(h) ==
  \/ GrantDj(h) \/ QueueTrack(h) \/ RemoveTrack(h) \/ Reindex(h) \/ Reorder(h)
  \/ GetPlayer(h) \/ Pause(h) \/ SetVolume(h)
  \/ ChooseTrack(h) \/ EndPrevious(h) \/ StartTrack(h) \/ ShowTrack(h) \/ Advance(h)
=============================
