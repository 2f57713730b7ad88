-------- MODULE Notifications --------
(***************************************************************************)
(* notification.service.js and PostgresNotificationRepository.  A          *)
(* notification is stored first; then the same request reads the           *)
(* recipient's preferences and devices, pushes, and forgets the devices    *)
(* the provider says are gone.                                             *)
(***************************************************************************)
EXTENDS FeatureStore

CONSTANTS Tokens,       \* push tokens of devices
          Categories    \* categories of the catalog; "security" cannot be muted

VARIABLES inbox,        \* the table notifications, oldest first
          muted,        \* account -> categories it has muted
          mutedAt,      \* history: account -> writes when it last set them
          devices,      \* the table push_tokens
          pushed        \* history: pushes the provider was asked for

noticeVars == <<inbox, muted, mutedAt, devices, pushed>>

NotificationsInit ==
  /\ inbox = <<>>
  /\ muted = [a \in Accounts |-> {}]
  /\ mutedAt = [a \in Accounts |-> 0]
  /\ devices = {}
  /\ pushed = {}

\* Security alerts cannot be muted.
Muteable == Categories \ {"security"}

\* j, with who is to be notified, and of what.
Telling(j, to, category) == Merge(j, [to |-> to, category |-> category])

CreateNotification(h) ==
  LET j == job[h] IN
  /\ j.at = "notify"
  /\ inbox' = Append(inbox, [to |-> j.to, from |-> j.who, category |-> j.category,
                             status |-> "unread", op |-> j.op, began |-> j.began])
  /\ Become(h, [j EXCEPT !.at = "preferences"])
  /\ UNCHANGED <<muted, mutedAt, devices, pushed>>

\* Mutant: preferences are not consulted.
ReadNoPreferences(h) ==
  /\ job[h].at = "preferences"
  /\ Become(h, [job[h] EXCEPT !.at = "devices"])
  /\ UNCHANGED noticeVars

ReadPreferences(h) ==
  LET j == job[h] IN
  /\ j.at = "preferences"
  /\ Become(h, [j EXCEPT !.at = IF j.category \in Muteable \cap muted[j.to]
                                THEN "end" ELSE "devices"])
  /\ UNCHANGED noticeVars

ListDevices(h) ==
  LET j == job[h]
      tokens == {d.token : d \in {e \in devices : e.who = j.to}}
  IN /\ j.at = "devices"
     /\ Become(h, Merge(j, [tokens |-> tokens, at |-> IF tokens = {} THEN "end" ELSE "push"]))
     /\ UNCHANGED noticeVars

\* sendToTokens answers which of the tokens are invalid, or throws.
Push(h) ==
  LET j == job[h] IN
  /\ j.at = "push"
  /\ pushed' = pushed \cup {[to |-> j.to, category |-> j.category, began |-> j.began]}
  /\ \E invalid \in SUBSET j.tokens :
        Become(h, [j EXCEPT !.tokens = invalid, !.at = IF invalid = {} THEN "end" ELSE "prune"])
  /\ UNCHANGED <<inbox, muted, mutedAt, devices>>

Prune(h) ==
  LET j == job[h] IN
  /\ j.at = "prune"
  /\ \E t \in j.tokens :
        /\ devices' = devices \ {[who |-> j.to, token |-> t]}
        /\ Become(h, [j EXCEPT !.tokens = @ \ {t}, !.at = IF j.tokens = {t} THEN "end" ELSE "prune"])
  /\ UNCHANGED <<inbox, muted, mutedAt, pushed>>

NotifyStep(h) ==
  CreateNotification(h) \/ ReadPreferences(h) \/ ListDevices(h) \/ Push(h) \/ Prune(h)

\* A notification is its recipient's to read; read ones stay as they are.
StartRead(h, a, n) ==
  /\ inbox[n].to = a
  /\ Begin(h, Request("read", a, n, "mark"))
  /\ UNCHANGED noticeVars

MarkRead(h) ==
  /\ Doing(h, "read", "mark")
  /\ inbox' = [inbox EXCEPT ![job[h].key].status = "read"]
  /\ Become(h, [job[h] EXCEPT !.at = "end"])
  /\ UNCHANGED <<muted, mutedAt, devices, pushed>>

MarkAllRead(h, a) ==
  /\ Once(h)
  /\ inbox' = [n \in 1..Len(inbox) |->
                 IF inbox[n].to = a THEN [inbox[n] EXCEPT !.status = "read"] ELSE inbox[n]]
  /\ UNCHANGED <<writes, muted, mutedAt, devices, pushed>>

\* updatePreferences drops what cannot be muted.
SetPreferences(h, a, categories) ==
  /\ Once(h)
  /\ muted' = [muted EXCEPT ![a] = categories \cap Muteable]
  /\ writes' = writes + 1
  /\ mutedAt' = [mutedAt EXCEPT ![a] = writes']
  /\ UNCHANGED <<inbox, devices, pushed>>

RegisterDevice(h, a, t) ==
  /\ Once(h)
  /\ devices' = devices \cup {[who |-> a, token |-> t]}
  /\ UNCHANGED <<writes, inbox, muted, mutedAt, pushed>>

RemoveDevice(h, a, t) ==
  /\ Once(h)
  /\ devices' = devices \ {[who |-> a, token |-> t]}
  /\ UNCHANGED <<writes, inbox, muted, mutedAt, pushed>>

\* redeliverPendingPush pushes again what was stored; it stores nothing.
Redeliver(h, a, n) ==
  /\ inbox[n].to = a
  /\ Begin(h, Telling(Request("redeliver", a, n, "preferences"), a, inbox[n].category))
  /\ UNCHANGED noticeVars

NoticeRequest(h) ==
  \E a \in Accounts :
     \/ MarkAllRead(h, a)
     \/ \E n \in 1..Len(inbox) : StartRead(h, a, n) \/ Redeliver(h, a, n)
     \/ \E categories \in SUBSET Categories : SetPreferences(h, a, categories)
     \/ \E t \in Tokens : RegisterDevice(h, a, t) \/ RemoveDevice(h, a, t)
=============================
