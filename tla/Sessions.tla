-------- MODULE Sessions --------
(***************************************************************************)
(* Logging in and staying in: one-time codes, identities, accounts and     *)
(* sessions (auth.store.js over PostgresAuthRepository, the session        *)
(* middleware, the deletion of accounts).  Each is a table of its own, and *)
(* a login is a statement on one after the other.                          *)
(***************************************************************************)
EXTENDS FeatureStore

CONSTANTS Phones,      \* phone numbers, and subjects of the social providers
          MaxTries,    \* attempts a code may take
          NoAccount

VARIABLES existing,    \* accounts there are
          deletedAt,   \* account -> writes when it was deleted, or 0
          identities,  \* phone -> its account
          challenges,  \* phone -> the code it was sent and the attempts at it
          sessions,    \* sessions, oldest first
          attempts,    \* history: writes of attempts at codes
          bound,       \* history: accounts made for phones
          served       \* history: requests that passed the middleware

loginVars == <<existing, deletedAt, identities, challenges, sessions,
               attempts, bound, served>>

NoCode == [code |-> 0, tries |-> 0]

SessionsInit ==
  /\ existing = {}
  /\ deletedAt = [a \in Accounts |-> 0]
  /\ identities = [p \in Phones |-> NoAccount]
  /\ challenges = [p \in Phones |-> NoCode]
  /\ sessions = <<>>
  /\ attempts = {}
  /\ bound = {}
  /\ served = {}

WroteOnce(h) == Once(h) /\ writes' = writes + 1
-----------------------------
\* issueOtp: a new code, whatever was there.
IssueOtp(h, p) ==
  /\ WroteOnce(h)
  /\ challenges' = [challenges EXCEPT ![p] = [code |-> writes + 1, tries |-> 0]]
  /\ UNCHANGED <<existing, deletedAt, identities, sessions, attempts, bound, served>>

\* verifyOtp reads the challenge; the code it was given is right or wrong.
StartVerify(h, p, right) ==
  /\ challenges[p] # NoCode /\ challenges[p].tries < MaxTries
  /\ Begin(h, Merge(Request("login", NoAccount, p, "count"),
                    [challenge |-> challenges[p], right |-> right, by |-> accepted]))
  /\ UNCHANGED loginVars

Attempt(j, opened) ==
  [code |-> j.challenge.code, by |-> j.by, began |-> j.began, wrote |-> writes + 1, opened |-> opened]

\* Mutant: only wrong codes are counted.
CountWrong(h) ==
  LET j == job[h] IN
  /\ Doing(h, "login", "count")
  /\ challenges' = IF j.right THEN challenges
                   ELSE [challenges EXCEPT ![j.key] = [j.challenge EXCEPT !.tries = @ + 1]]
  /\ attempts' = attempts \cup {Attempt(j, FALSE)}
  /\ Wrote(h, [j EXCEPT !.at = IF j.right THEN "identity" ELSE "end"])
  /\ UNCHANGED <<existing, deletedAt, identities, sessions, bound, served>>

\* The challenge is written with one attempt more than was read ...
CountAttempt(h) ==
  LET j == job[h] IN
  /\ Doing(h, "login", "count")
  /\ challenges' = [challenges EXCEPT ![j.key] = [j.challenge EXCEPT !.tries = @ + 1]]
  /\ attempts' = attempts \cup {Attempt(j, FALSE)}
  /\ Wrote(h, [j EXCEPT !.at = IF j.right THEN "forget" ELSE "end"])
  /\ UNCHANGED <<existing, deletedAt, identities, sessions, bound, served>>

\* ... and deleted after the right code.
ForgetChallenge(h) ==
  LET j == job[h] IN
  /\ Doing(h, "login", "forget")
  /\ challenges' = [challenges EXCEPT ![j.key] = NoCode]
  /\ attempts' = attempts \cup {Attempt(j, TRUE)}
  /\ Wrote(h, [j EXCEPT !.at = "identity"])
  /\ UNCHANGED <<existing, deletedAt, identities, sessions, bound, served>>

\* A social login begins where a phone's code has been verified.
StartSocial(h, p) ==
  /\ Begin(h, Request("login", NoAccount, p, "identity"))
  /\ UNCHANGED loginVars

\* Mutant: a phone is taken to have its account.
FindKnown(h) ==
  /\ Doing(h, "login", "identity")
  /\ Become(h, [job[h] EXCEPT !.who = identities[job[h].key], !.at = "session"])
  /\ UNCHANGED loginVars

\* findOrCreatePhoneAccount, findOrCreateSocialAccount: an account is made
\* if the identity has none, and bound to it if it still has none.
FindIdentity(h) ==
  LET a == identities[job[h].key] IN
  /\ Doing(h, "login", "identity")
  /\ Become(h, [job[h] EXCEPT !.who = a, !.at = IF a = NoAccount THEN "create" ELSE "session"])
  /\ UNCHANGED loginVars

CreateAccount(h) ==
  /\ Doing(h, "login", "create")
  /\ \E a \in Accounts \ existing :
        /\ existing' = existing \cup {a}
        /\ Wrote(h, [job[h] EXCEPT !.who = a, !.at = "bind"])
  /\ UNCHANGED <<deletedAt, identities, challenges, sessions, attempts, bound, served>>

BindIdentity(h) ==
  LET j == job[h] IN
  /\ Doing(h, "login", "bind")
  /\ identities' = [identities EXCEPT ![j.key] = IF @ = NoAccount THEN j.who ELSE @]
  /\ bound' = bound \cup {[account |-> j.who, phone |-> j.key, began |-> j.began, wrote |-> writes + 1]}
  /\ Wrote(h, [j EXCEPT !.at = "session"])
  /\ UNCHANGED <<existing, deletedAt, challenges, sessions, attempts, served>>

\* createSession asks nothing about the account.
CreateSession(h) ==
  /\ Doing(h, "login", "session")
  /\ sessions' = Append(sessions, [account |-> job[h].who, revokedAt |-> 0])
  /\ Wrote(h, [job[h] EXCEPT !.at = "end"])
  /\ UNCHANGED <<existing, deletedAt, identities, challenges, attempts, bound, served>>
-----------------------------
\* requireSession: the session, and then its account.  op is what the request
\* does: nothing that matters here, ending session s, or deleting the account.
StartCall(h, op, n, s) ==
  /\ sessions[n].revokedAt = 0
  /\ sessions[s].account = sessions[n].account
  /\ Begin(h, Merge(Request(op, sessions[n].account, n, "account"), [ended |-> s]))
  /\ UNCHANGED loginVars

Serve(h, a) ==
  /\ job[h].at = "account"
  /\ served' = served \cup {[session |-> job[h].key, account |-> a, began |-> job[h].began]}
  /\ Become(h, [job[h] EXCEPT !.at = IF job[h].op = "call" THEN "end" ELSE "do"])
  /\ UNCHANGED <<existing, deletedAt, identities, challenges, sessions, attempts, bound>>

CheckAccount(h) ==
  /\ job[h].at = "account"
  /\ IF deletedAt[job[h].who] = 0 THEN Serve(h, job[h].who)
     ELSE Become(h, [job[h] EXCEPT !.at = "end"]) /\ UNCHANGED loginVars

\* revokeSessionById, for logout and for another device.
RevokeSession(h) ==
  LET n == job[h].ended IN
  /\ Doing(h, "logout", "do")
  /\ sessions' = [sessions EXCEPT ![n].revokedAt = IF @ = 0 THEN writes + 1 ELSE @]
  /\ Wrote(h, [job[h] EXCEPT !.at = "end"])
  /\ UNCHANGED <<existing, deletedAt, identities, challenges, attempts, bound, served>>

\* deleteAccount: the account, and then every session it has.
SoftDelete(h) ==
  LET a == job[h].who IN
  /\ Doing(h, "delete", "do")
  /\ deletedAt' = [deletedAt EXCEPT ![a] = IF @ = 0 THEN writes + 1 ELSE @]
  /\ Wrote(h, [job[h] EXCEPT !.at = "revokeAll"])
  /\ UNCHANGED <<existing, identities, challenges, sessions, attempts, bound, served>>

RevokeAllSessions(h) ==
  /\ Doing(h, "delete", "revokeAll")
  /\ sessions' = [n \in 1..Len(sessions) |->
                    IF sessions[n].account = job[h].who /\ sessions[n].revokedAt = 0
                    THEN [sessions[n] EXCEPT !.revokedAt = writes + 1] ELSE sessions[n]]
  /\ Wrote(h, [job[h] EXCEPT !.at = "end"])
  /\ UNCHANGED <<existing, deletedAt, identities, challenges, attempts, bound, served>>
-----------------------------
SessionRequest(h) ==
  \/ \E p \in Phones :
        \/ IssueOtp(h, p) \/ StartSocial(h, p)
        \/ \E right \in BOOLEAN : StartVerify(h, p, right)
  \/ \E n \in 1..Len(sessions) :
        \/ \E op \in {"call", "delete"} : StartCall(h, op, n, n)
        \/ \E s \in 1..Len(sessions) : StartCall(h, "logout", n, s)

SessionStep(h) ==
  \/ CountAttempt(h) \/ ForgetChallenge(h) \/ FindIdentity(h) \/ CreateAccount(h)
  \/ BindIdentity(h) \/ CreateSession(h) \/ CheckAccount(h) \/ RevokeSession(h)
  \/ SoftDelete(h) \/ RevokeAllSessions(h)
=============================
