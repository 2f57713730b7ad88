-------- MODULE Chat --------
(***************************************************************************)
(* The social part of feature-platform.js: follows, friend requests,       *)
(* blocks and mutes, each a record.  A request looks for the record that   *)
(* would make its own a duplicate, and adds its own in a later statement.  *)
(* And chat.service.js, PostgresChatRepository, and the privacy a profile  *)
(* keeps in the FeatureStore.  Who may write to whom is decided by blocks, *)
(* friendships and privacy, each read in a statement of its own before the *)
(* conversation is opened or the message stored.                           *)
(***************************************************************************)
EXTENDS Notifications

Relation(kind, status, a, b) ==
  [kind |-> kind, status |-> status, who |-> a, whom |-> b, quiet |-> FALSE]

IsRelation(r, kind, status, a, b) ==
  r.kind = kind /\ r.status = status /\ r.who = a /\ r.whom = b
ActiveRelation(kind, a, b) == Find(LAMBDA r : IsRelation(r, kind, "active", a, b))

\* A pending or accepted request between a and b, whoever asked.
FriendRecord(a, b) ==
  Find(LAMBDA r : r.kind = "friend" /\ r.status # "rejected" /\ {r.who, r.whom} = {a, b})
AreFriends(a, b) ==
  \E i \in 1..Len(records) :
     \/ IsRelation(records[i], "friend", "accepted", a, b)
     \/ IsRelation(records[i], "friend", "accepted", b, a)

\* allowed: neither has blocked the other.
Allowed(a, b) == ActiveRelation("block", a, b) = 0 /\ ActiveRelation("block", b, a) = 0

Ask(op, a, b, at) == Telling(Request(op, a, b, at), b, "social")

\* A follow or friend request that found no block.
StartRelation(h, op, a, b) ==
  /\ a # b
  /\ Allowed(a, b)
  /\ Begin(h, Ask(op, a, b, "find"))

FindFollow(h) ==
  LET j == job[h] IN
  /\ Doing(h, "follow", "find")
  /\ Become(h, IF ActiveRelation("follow", j.who, j.to) # 0 THEN [j EXCEPT !.at = "end"]
               ELSE Adding(j, Relation("follow", "active", j.who, j.to), "hear"))

\* Mutant: only a request of one's own counts.
FindOwnFriend(h) ==
  LET j == job[h] IN
  /\ Doing(h, "friend", "find")
  /\ Become(h, IF Find(LAMBDA r : IsRelation(r, "friend", "pending", j.who, j.to)) # 0
               THEN [j EXCEPT !.at = "end"]
               ELSE Adding(j, Relation("friend", "pending", j.who, j.to), "hear"))

\* Pending: the request that is there is answered; accepted: 409.
FindFriend(h) ==
  LET j == job[h] IN
  /\ Doing(h, "friend", "find")
  /\ Become(h, IF FriendRecord(j.who, j.to) # 0 THEN [j EXCEPT !.at = "end"]
               ELSE Adding(j, Relation("friend", "pending", j.who, j.to), "hear"))

\* isUserMuted: the recipient is told, unless it has muted the one who acts.
Hear(h) ==
  LET j == job[h] IN
  /\ j.at = "hear"
  /\ Become(h, [j EXCEPT !.at = IF ActiveRelation("mute", j.to, j.who) # 0 THEN "end" ELSE "notify"])

\* The recipient of a pending request answers it; who asked hears of a yes.
Answer(h, a, i, status) ==
  /\ records[i].kind = "friend" /\ records[i].whom = a /\ records[i].status = "pending"
  /\ Begin(h, Updating(Ask(status, a, records[i].who, "update"),
                       {Update(i, [status |-> status])},
                       IF status = "accepted" THEN "hear" ELSE "end"))

\* mute and unmute of a relation one is part of.
SetQuiet(h, a, i, quiet) ==
  /\ records[i].kind \in {"follow", "friend"} /\ a \in {records[i].who, records[i].whom}
  /\ Begin(h, Updating(Request("quiet", a, i, "update"), {Update(i, [quiet |-> quiet])}, "end"))

\* block and muteUser.
Bar(h, kind, a, b) ==
  /\ ActiveRelation(kind, a, b) = 0
  /\ Begin(h, Adding(Request(kind, a, b, "add"), Relation(kind, "active", a, b), "end"))

\* unfollow, unblock and unmuteUser: the oldest active record is removed.
Lift(h, kind, a, b) ==
  LET i == ActiveRelation(kind, a, b) IN
  /\ i # 0
  /\ Begin(h, Updating(Request("lift", a, b, "update"), {Update(i, [status |-> "removed"])}, "end"))

SocialRequest(h) ==
  \/ \E a, b \in Accounts :
        \/ StartRelation(h, "follow", a, b) \/ StartRelation(h, "friend", a, b)
        \/ Bar(h, "block", a, b)
        \/ \E kind \in {"follow", "block"} : Lift(h, kind, a, b)
  \/ \E a \in Accounts, i \in 1..Len(records) :
        \/ \E status \in {"accepted", "rejected"} : Answer(h, a, i, status)
        \/ \E quiet \in BOOLEAN : SetQuiet(h, a, i, quiet)

MuteRequest(h) == \E a, b \in Accounts : Bar(h, "mute", a, b) \/ Lift(h, "mute", a, b)

SocialStep(h) == FindFollow(h) \/ FindFriend(h) \/ Hear(h)
-----------------------------
CONSTANT Audiences   \* values of whoCanMessage: "everyone", "friends", "nobody"

VARIABLES conversations,  \* pair of accounts -> when its opener began, or Closed
          messages,       \* the table chat_messages, oldest first
          online          \* accounts whose presence is online

chatVars == <<conversations, messages, online>>

Pairs == {{a, b} : a, b \in Accounts}
Closed == [opener |-> "none", began |-> 0]

ChatInit ==
  /\ conversations = [c \in Pairs |-> Closed]
  /\ messages = <<>>
  /\ online = {}

IsOpen(c) == conversations[c] # Closed
OtherOf(c, a) == CHOOSE b \in c : b # a
-----------------------------
\* The profile of a, kept with three of the settings of its privacy.
Profile(a) == Find(LAMBDA r : r.kind = "profile" /\ r.who = a)
DefaultPrivacy == [whoCanMessage |-> "everyone", discoverable |-> TRUE, visible |-> "public"]
PrivacyOf(i) == IF i = 0 THEN DefaultPrivacy ELSE records[i].privacy

\* updatePrivacy merges its key into the privacy it has read, if there is a
\* profile ...
StartPrivacy(h, a, patch) ==
  LET i == Profile(a) IN
  Begin(h, Merge(Request("privacy", a, a, "profile"),
                 [privacy |-> IF i = 0 THEN patch ELSE Merge(records[i].privacy, patch),
                  patch |-> patch]))

\* Mutant: the profile is written with the default privacy and the patch.
SaveProfileAfresh(h) ==
  LET j == job[h]
      i == Profile(j.who)
      privacy == Merge(DefaultPrivacy, j.patch)
  IN /\ Doing(h, "privacy", "profile")
     /\ Become(h, IF i # 0 THEN Updating(j, {Update(i, [privacy |-> privacy])}, "end")
                  ELSE Adding(j, [kind |-> "profile", status |-> "kept", who |-> j.who,
                                  privacy |-> privacy], "end"))

\* ... and profile.create looks for the profile again, and writes all of it.
SaveProfile(h) ==
  LET j == job[h]
      i == Profile(j.who)
      privacy == Merge(PrivacyOf(i), j.privacy)
  IN /\ Doing(h, "privacy", "profile")
     /\ Become(h, IF i # 0 THEN Updating(j, {Update(i, [privacy |-> privacy])}, "end")
                  ELSE Adding(j, [kind |-> "profile", status |-> "kept", who |-> j.who,
                                  privacy |-> privacy], "end"))
-----------------------------
\* getOrCreateConversation: blocks, then privacy, then friendship, then INSERT
\* ... ON CONFLICT DO NOTHING.
StartOpen(h, a, b) ==
  /\ a # b
  /\ Allowed(a, b)
  /\ Begin(h, Telling(Request("open", a, {a, b}, "privacy"), b, "social"))
  /\ UNCHANGED chatVars

ReadPrivacy(h) ==
  LET audience == PrivacyOf(Profile(job[h].to)).whoCanMessage IN
  /\ Doing(h, "open", "privacy")
  /\ Become(h, [job[h] EXCEPT !.at = IF audience = "nobody" THEN "end"
                                     ELSE IF audience = "friends" THEN "friends" ELSE "insert"])
  /\ UNCHANGED chatVars

ReadFriendship(h) ==
  LET j == job[h] IN
  /\ Doing(h, "open", "friends")
  /\ Become(h, [j EXCEPT !.at = IF AreFriends(j.who, j.to) THEN "insert" ELSE "end"])
  /\ UNCHANGED chatVars

OpenConversation(h) ==
  LET c == job[h].key IN
  /\ Doing(h, "open", "insert")
  /\ conversations' = IF IsOpen(c) THEN conversations
                      ELSE [conversations EXCEPT ![c] = [opener |-> job[h].who, began |-> job[h].began]]
  /\ Become(h, [job[h] EXCEPT !.at = "end"])
  /\ UNCHANGED <<messages, online>>

\* sendMessage: membership, blocks, presence, the message, and then the notice.
StartSend(h, a, c) ==
  /\ IsOpen(c) /\ a \in c
  /\ Begin(h, Telling(Request("send", a, c, "allowed"), OtherOf(c, a), "social"))
  /\ UNCHANGED chatVars

\* Mutant: blocks are read for the conversation only, not for each message.
SendAnyway(h) ==
  /\ Doing(h, "send", "allowed")
  /\ Become(h, [job[h] EXCEPT !.at = "presence"])
  /\ UNCHANGED chatVars

CheckAllowed(h) ==
  LET j == job[h] IN
  /\ Doing(h, "send", "allowed")
  /\ Become(h, [j EXCEPT !.at = IF Allowed(j.who, j.to) THEN "presence" ELSE "end"])
  /\ UNCHANGED chatVars

ReadPresence(h) ==
  LET j == job[h] IN
  /\ Doing(h, "send", "presence")
  /\ Become(h, Merge(j, [at |-> "post", status |-> IF j.to \in online THEN "delivered" ELSE "sent"]))
  /\ UNCHANGED chatVars

PostMessage(h) ==
  LET j == job[h] IN
  /\ Doing(h, "send", "post")
  /\ messages' = Append(messages, [in |-> j.key, by |-> j.who, status |-> j.status,
                                   deleted |-> FALSE, reports |-> 0, began |-> j.began])
  /\ Become(h, [j EXCEPT !.at = "hear"])
  /\ UNCHANGED <<conversations, online>>

\* The other requests that first read what they are about: a conversation the
\* caller is in, a message of the caller's, a message of somebody else's.
StartOnChat(h, a) ==
  /\ \/ \E c \in Pairs : IsOpen(c) /\ a \in c /\ Begin(h, Request("seen", a, c, "chat"))
     \/ \E n \in 1..Len(messages) :
           Begin(h, Request(IF messages[n].by = a THEN "deleteMessage" ELSE "reportMessage", a, n, "chat"))
  /\ UNCHANGED chatVars

\* markConversationRead, softDeleteMessage and reportMessage are one UPDATE each.
ChangeMessages(h) ==
  LET j == job[h] IN
  /\ j.at = "chat"
  /\ messages' =
       CASE j.op = "seen" ->
              [n \in 1..Len(messages) |->
                 IF messages[n].in = j.key /\ messages[n].by # j.who
                 THEN [messages[n] EXCEPT !.status = "read"] ELSE messages[n]]
         [] j.op = "deleteMessage" -> [messages EXCEPT ![j.key].deleted = TRUE]
         [] j.op = "reportMessage" -> [messages EXCEPT ![j.key].reports = @ + 1]
  /\ Become(h, [j EXCEPT !.at = "end"])
  /\ UNCHANGED <<conversations, online>>

\* heartbeat and goOffline.
SetPresence(h, a, here) ==
  /\ Once(h)
  /\ online' = IF here THEN online \cup {a} ELSE online \ {a}
  /\ UNCHANGED <<writes, conversations, messages>>

\* The time after which a presence without a heartbeat counts as offline.
PresenceExpires(a) ==
  /\ a \in online
  /\ online' = online \ {a}
  /\ UNCHANGED <<storeVars, conversations, messages>>

ChatRequest(h) ==
  \E a \in Accounts :
     \/ \E b \in Accounts : StartOpen(h, a, b)
     \/ \E c \in Pairs : StartSend(h, a, c)
     \/ StartOnChat(h, a)
     \/ \E here \in BOOLEAN : SetPresence(h, a, here)

PrivacyRequest(h) ==
  \E a \in Accounts :
     \/ \E audience \in Audiences : StartPrivacy(h, a, [whoCanMessage |-> audience])
     \/ \E shown \in BOOLEAN : StartPrivacy(h, a, [discoverable |-> shown])

ChatStep(h) ==
  \/ ReadPrivacy(h) \/ ReadFriendship(h) \/ OpenConversation(h)
  \/ CheckAllowed(h) \/ ReadPresence(h) \/ PostMessage(h) \/ ChangeMessages(h)
=============================
