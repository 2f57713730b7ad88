-------- MODULE RequestHandlers --------
(***************************************************************************)
(* The server's request handlers.  An async handler is a sequence of       *)
(* steps, one per statement it sends to the database or call it makes to   *)
(* another service; between two steps every other handler may run.  A      *)
(* handler can end at any of them: the statement fails, the connection     *)
(* breaks, the server restarts.  What it wrote before stays, what it would *)
(* have written next never comes, and its caller gets an error.            *)
(***************************************************************************)
EXTENDS Naturals

CONSTANTS Handlers,      \* requests the server works on at the same time
          Ids,           \* ids the server generates (crypto.randomUUID) or derives
          MaxRequests,   \* bound: requests accepted in a run
          MaxTime        \* bound: units of time that pass in a run

VARIABLES job,       \* handler -> the request it works on and where it is
          accepted,  \* requests accepted so far
          issued,    \* ids given out so far
          dropped,   \* ids whose request ended with an error half-way
          time,      \* the clock, in days or rounds
          notices    \* id -> notifications notification.service sent about it

handlerVars == <<job, accepted, issued, dropped, time, notices>>

Idle == [op |-> "none", at |-> "none"]

\* known are ids of what was there before.
HandlersInit(known) ==
  /\ job = [h \in Handlers |-> Idle]
  /\ accepted = 0
  /\ issued = known
  /\ dropped = {}
  /\ time = 0
  /\ notices = [k \in Ids |-> 0]

\* h works on a request of kind op and is about to run step at.
Doing(h, op, at) == job[h].op = op /\ job[h].at = at

\* Some handler works on a request of kind op for id k, at one of steps.
InFlight(op, k, steps) ==
  \E h \in Handlers : job[h].op = op /\ job[h].key = k /\ job[h].at \in steps

\* h can take another request.
Ready(h) == job[h] = Idle /\ accepted < MaxRequests

\* An idle handler takes request j.
Accept(h, j) ==
  /\ Ready(h)
  /\ accepted' = accepted + 1
  /\ job' = [job EXCEPT ![h] = j]
  /\ UNCHANGED <<dropped, time, notices>>

Goto(h, at) ==
  /\ job' = [job EXCEPT ![h].at = at]
  /\ UNCHANGED <<accepted, issued, dropped, time, notices>>

Finish(h) ==
  /\ job' = [job EXCEPT ![h] = Idle]
  /\ UNCHANGED <<accepted, issued, dropped, time, notices>>

\* The last step of a handler that notifies.
Notify(h) ==
  /\ notices' = [notices EXCEPT ![job[h].key] = @ + 1]
  /\ job' = [job EXCEPT ![h] = Idle]
  /\ UNCHANGED <<accepted, issued, dropped, time>>

\* The request ends with an exception nobody foresaw.
Break(h) ==
  /\ dropped' = dropped \cup {job[h].key}
  /\ job' = [job EXCEPT ![h] = Idle]
  /\ UNCHANGED <<accepted, issued, time, notices>>

\* A failed statement, a broken connection or a restart ends h's request.
Interrupted(h) == job[h] # Idle /\ Break(h)

\* Time passes.
Tick ==
  /\ time < MaxTime
  /\ time' = time + 1
  /\ UNCHANGED <<job, accepted, issued, dropped, notices>>
=============================
