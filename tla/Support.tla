-------- MODULE Support --------
(***************************************************************************)
(* Support tickets, content review and appeals (feature-platform.js,       *)
(* moderation): records of one store, patched by staff and by those they   *)
(* concern.  A reply is appended to the array the request has read.        *)
(***************************************************************************)
EXTENDS FeatureStore, Staff

CONSTANTS Reviewers,   \* MODERATION_REVIEWER_IDS
          OnDuty       \* accounts that ask for a staff member's work in a run

VARIABLE answered  \* history: replies whose request was answered

Ticket(a) == [kind |-> "ticket", status |-> "open", who |-> a, replies |-> {}, attachments |-> {}]
Report(a, b) == [kind |-> "report", status |-> "open", who |-> a, whom |-> b]
Review(a, i, status, decision) ==
  [kind |-> "review", status |-> status, who |-> a, of |-> i, decision |-> decision,
   appealed |-> FALSE]
Appeal(a, i) ==
  [kind |-> "appeal", status |-> "submitted", who |-> a, of |-> i,
   reviewer |-> "none", outcome |-> "none"]

SupportInit == answered = {}

\* _requireReviewer.
MayReview(a) == a \in Reviewers \/ HasPermission(a, "content:review")

\* TICKET_STATUS_TRANSITIONS.
Transitions ==
  [open         |-> {"in_progress", "escalated", "closed"},
   in_progress  |-> {"waiting_user", "resolved", "escalated", "closed"},
   waiting_user |-> {"in_progress", "resolved", "escalated", "closed"},
   escalated    |-> {"in_progress", "resolved", "closed"},
   resolved     |-> {"closed"},
   closed       |-> {}]

OpenTicket(h, a) ==
  /\ Begin(h, Adding(Request("ticket", a, a, "add"), Ticket(a), "end"))
  /\ UNCHANGED answered
-----------------------------
Entry(a) == [by |-> a, began |-> writes]

\* reply: the replies that were read, and one more.
Reply(h, a, i) ==
  /\ records[i].kind = "ticket" /\ records[i].status # "closed"
  /\ Begin(h, Merge(Updating(Request("reply", a, i, "update"),
                             {Update(i, [replies |-> records[i].replies \cup {Entry(a)}])}, "answer"),
                    [entry |-> Entry(a)]))
  /\ UNCHANGED answered

AnswerReply(h) ==
  /\ Doing(h, "reply", "answer")
  /\ answered' = answered \cup {[ticket |-> job[h].key, entry |-> job[h].entry]}
  /\ Become(h, [job[h] EXCEPT !.at = "end"])

\* attach: the reporter's own, in the same way.
Attach(h, i) ==
  /\ records[i].kind = "ticket" /\ records[i].status # "closed"
  /\ Begin(h, Updating(Request("attach", records[i].who, i, "update"),
                       {Update(i, [attachments |-> records[i].attachments \cup {Entry(records[i].who)}])},
                       "end"))
  /\ UNCHANGED answered

\* setStatus, and escalate, which knows no transition but this.
SetStatus(h, a, i, status) ==
  /\ records[i].kind = "ticket" /\ status \in Transitions[records[i].status]
  /\ Begin(h, Updating(Request(status, a, i, "update"), {Update(i, [status |-> status])}, "end"))
  /\ UNCHANGED answered

Escalate(h, a, i) ==
  /\ records[i].kind = "ticket" /\ records[i].status \notin {"resolved", "closed", "escalated"}
  /\ Begin(h, Updating(Request("escalate", a, i, "update"), {Update(i, [status |-> "escalated"])}, "end"))
  /\ UNCHANGED answered
-----------------------------
ReviewOf(i) == Find(LAMBDA r : r.kind = "review" /\ r.of = i)
Outcomes == {"dismissed", "upheld"}

OpenReport(h, a, b) ==
  /\ a # b
  /\ Begin(h, Adding(Request("report", a, b, "add"), Report(a, b), "end"))
  /\ UNCHANGED answered

\* review.assign and review.decision of report i; outcome is none for assign.
StartReview(h, a, i, outcome) ==
  /\ records[i].kind = "report"
  /\ Begin(h, Merge(Request("review", a, i, "review"), [outcome |-> outcome]))
  /\ UNCHANGED answered

FindReview(h) ==
  LET j == job[h]
      i == ReviewOf(j.key)
      deciding == j.outcome # "none"
  IN /\ Doing(h, "review", "review")
     /\ Become(h,
          IF i = 0
          THEN Adding(j, Review(j.who, j.key, IF deciding THEN "resolved" ELSE "in_review", j.outcome), "end")
          ELSE IF records[i].status = "resolved" \/ records[i].who # j.who \/ ~deciding
          THEN [j EXCEPT !.at = "end"]
          ELSE Updating(j, {Update(i, [status |-> "resolved", decision |-> j.outcome])}, "end"))
     /\ UNCHANGED answered

\* appeals.create: by the account the decision was made against, once.
StartAppeal(h, i) ==
  /\ records[i].kind = "review" /\ records[i].status = "resolved" /\ records[i].decision = "upheld"
  /\ Begin(h, Request("appeal", records[records[i].of].whom, i, "appeal"))
  /\ UNCHANGED answered

FindAppeal(h) ==
  LET j == job[h] IN
  /\ Doing(h, "appeal", "appeal")
  /\ Become(h, IF Find(LAMBDA r : r.kind = "appeal" /\ r.of = j.key) # 0 THEN [j EXCEPT !.at = "end"]
               ELSE Adding(j, Appeal(j.who, j.key), "end"))
  /\ UNCHANGED answered

MayDecide(a, i) ==
  records[i].kind = "appeal" /\ records[i].status # "resolved" /\ records[i].reviewer \in {"none", a}

AssignAppeal(h, a, i) ==
  /\ MayDecide(a, i) /\ records[i].reviewer # a
  /\ Begin(h, Updating(Request("assign", a, i, "update"),
                       {Update(i, [status |-> "under_review", reviewer |-> a])}, "end"))
  /\ UNCHANGED answered

\* appeals.decision: the appeal, and then what it is an appeal against, of
\* which an appeal that fails leaves the decision as it is.
DecideAppeal(h, a, i, outcome) ==
  /\ MayDecide(a, i)
  /\ Begin(h, Merge(Updating(Request("decide", a, i, "update"),
                             {Update(i, [status |-> "resolved", reviewer |-> a, outcome |-> outcome])},
                             "review"),
                    [outcome |-> outcome]))
  /\ UNCHANGED answered

\* Mutant: the review is left as it was.
LeaveReview(h) ==
  /\ Doing(h, "decide", "review")
  /\ Become(h, [job[h] EXCEPT !.at = "end"])
  /\ UNCHANGED answered

ChangeReview(h) ==
  LET j == job[h] IN
  /\ Doing(h, "decide", "review")
  /\ Become(h, Updating(j, {Update(records[j.key].of,
                                   IF j.outcome = "overturned"
                                   THEN [appealed |-> TRUE, decision |-> "overturned"]
                                   ELSE [appealed |-> TRUE])}, "end"))
  /\ UNCHANGED answered
-----------------------------
SupportRequest(h) ==
  \/ \E a \in Accounts : OpenTicket(h, a) \/ \E b \in Accounts : OpenReport(h, a, b)
  \/ \E i \in 1..Len(records) : Attach(h, i) \/ StartAppeal(h, i)
  \/ \E a \in {b \in OnDuty : MayReview(b)}, i \in 1..Len(records) :
        \/ Reply(h, a, i) \/ Escalate(h, a, i) \/ AssignAppeal(h, a, i)
        \/ \E status \in DOMAIN Transitions : SetStatus(h, a, i, status)
        \/ \E outcome \in Outcomes \cup {"none"} : StartReview(h, a, i, outcome)
        \/ \E outcome \in {"upheld", "overturned"} : DecideAppeal(h, a, i, outcome)

SupportStep(h) == AnswerReply(h) \/ FindReview(h) \/ FindAppeal(h) \/ ChangeReview(h)
=============================
