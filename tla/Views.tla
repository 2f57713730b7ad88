-------- MODULE Views --------
(***************************************************************************)
(* What one account sees of another: profile.getFull, the lists of friends *)
(* and follows, search, and the home feed of rooms (feature-platform.js).  *)
(* What decides an answer is read in statements of its own, so an answer   *)
(* may mix what was true at different times.                               *)
(***************************************************************************)
EXTENDS Chat, Rooms

CONSTANT Visibilities   \* values of profileVisibility that are set in a run

VARIABLE shown   \* history: what was shown to whom, and when its request began

ViewsInit == shown = {}

View(op, a, b, full, began) == [op |-> op, by |-> a, of |-> b, full |-> full, began |-> began]

\* listFriends; listFollowers and listFollowing, which differ in whose follows
\* they list.
Lists == {"friends", "follows"}

\* getFull and _listGate: the caller's own, or nobody has blocked the other.
StartView(h, op, a, b) ==
  /\ a = b \/ Allowed(a, b)
  /\ Begin(h, Request(op, a, b, "look"))
  /\ UNCHANGED shown

LookAtProfile(h) ==
  LET j == job[h] IN
  /\ j.at = "look"
  /\ Become(h, Merge(j, [at |-> "circle", visible |-> PrivacyOf(Profile(j.key)).visible]))
  /\ UNCHANGED shown

\* Mutant: a friend sees a private profile.
FriendsSeeAll(j) == j.who = j.key \/ j.visible = "public" \/ AreFriends(j.who, j.key)

CanSeeFull(j) ==
  \/ j.who = j.key \/ j.visible = "public"
  \/ j.visible = "friends" /\ AreFriends(j.who, j.key)

\* getFull answers either way, in full or without what is private.
AnswerFull(h) ==
  LET j == job[h] IN
  /\ Doing(h, "full", "circle")
  /\ shown' = shown \cup {View("full", j.who, j.key, CanSeeFull(j), j.began)}
  /\ Become(h, [j EXCEPT !.at = "end"])

\* A list is refused, or made of the friendships that were read, or of the
\* follows that are read next.
PassGate(h) ==
  LET j == job[h] IN
  /\ j.op \in Lists /\ j.at = "circle"
  /\ IF CanSeeFull(j) /\ j.op = "friends"
     THEN shown' = shown \cup {View(j.op, j.who, j.key, TRUE, j.began)}
     ELSE UNCHANGED shown
  /\ Become(h, [j EXCEPT !.at = IF CanSeeFull(j) /\ j.op # "friends" THEN "list" ELSE "end"])

ListFollows(h) ==
  LET j == job[h] IN
  /\ j.op \in Lists /\ j.at = "list"
  /\ shown' = shown \cup {View(j.op, j.who, j.key, TRUE, j.began)}
  /\ Become(h, [j EXCEPT !.at = "end"])

\* search.query: accounts whose profile does not ask to be left out; of two
\* profiles of an account the newer one is asked.  Blocks are not.
Discoverable(a) ==
  LET own == Where(LAMBDA r : r.kind = "profile" /\ r.who = a) IN
  own = {} \/ records[CHOOSE i \in own : \A k \in own : k <= i].privacy.discoverable

Search(h, a) ==
  /\ Once(h)
  /\ shown' = shown \cup {View("search", a, b, TRUE, writes) : b \in {c \in Accounts : Discoverable(c)}}
  /\ UNCHANGED writes

-----------------------------
\* discoverForHome: of the tabs, "new" and "popular" differ from each other
\* in their order alone.  The rooms, the memberships and the follows are
\* listed at once, so they are read in any order.
Tabs == {"new", "live", "following"}
Listings(tab) == {"rooms", "members"} \cup (IF tab = "following" THEN {"follows"} ELSE {})

StartFeed(h, a, tab) ==
  /\ Begin(h, Merge(Request(tab, a, a, "feed"),
                    [lists |-> Listings(tab), visible |-> FALSE, live |-> FALSE, followed |-> FALSE]))
  /\ UNCHANGED shown

\* listDiscoverable and discoverForHome leave out what is private to another;
\* neither asks whether the room is open.
VisibleTo(a, room) == room.who = a \/ room.setting # "private"

Live == \E i \in 1..Len(records) : records[i].kind = "membership" /\ records[i].status = "joined"

ReadListing(h) ==
  LET j == job[h] IN
  /\ j.at = "feed"
  /\ \E list \in j.lists :
        Become(h, CASE list = "rooms" -> [j EXCEPT !.lists = @ \ {list}, !.visible = VisibleTo(j.who, records[1])]
                    [] list = "members" -> [j EXCEPT !.lists = @ \ {list}, !.live = Live]
                    [] list = "follows" -> [j EXCEPT !.lists = @ \ {list},
                                              !.followed = ActiveRelation("follow", j.who, RoomOwner) # 0])
  /\ UNCHANGED shown

\* The room is in the feed, or it is not.
AnswerFeed(h) ==
  LET j == job[h]
      listed == j.visible /\ (j.op = "live" => j.live) /\ (j.op = "following" => j.followed)
  IN /\ j.at = "feed" /\ j.lists = {}
     /\ shown' = shown \cup {View(j.op, j.who, RoomOwner, listed, j.began)}
     /\ Become(h, [j EXCEPT !.at = "end"])

FeedRequest(h) == \E a \in Accounts, tab \in Tabs : StartFeed(h, a, tab)

FeedStep(h) == ReadListing(h) \/ AnswerFeed(h)
-----------------------------
ViewRequest(h) ==
  \E a \in Accounts :
     \/ Search(h, a)
     \/ \E b \in Accounts, op \in Lists \cup {"full"} : StartView(h, op, a, b)

ViewStep(h) == LookAtProfile(h) \/ AnswerFull(h) \/ PassGate(h) \/ ListFollows(h)

\* What the owner of a profile decides about it.
VisibilityRequest(h) ==
  \E a \in Accounts :
     \/ \E visible \in Visibilities : StartPrivacy(h, a, [visible |-> visible])
     \/ StartPrivacy(h, a, [discoverable |-> FALSE])
=============================
