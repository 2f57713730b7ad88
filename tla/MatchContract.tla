-------- MODULE MatchContract --------
(***************************************************************************)
(* What the lobby promises, without requests: who sits in a match changes  *)
(* in its lobby only, the one who opened it sits there as long as it       *)
(* lasts, it leaves the lobby once, and the first result of a match is     *)
(* the one it keeps.                                                       *)
(***************************************************************************)
EXTENDS Naturals, Sequences

CONSTANTS Accounts, MatchIds, Nobody

VARIABLES roster,   \* match -> who sits in it, the host first
          phase,    \* match -> none, lobby, active, cancelled or finished
          result    \* match -> the winner, or Nobody

contractVars == <<roster, phase, result>>

Init ==
  /\ roster = [m \in MatchIds |-> <<>>]
  /\ phase = [m \in MatchIds |-> "none"]
  /\ result = [m \in MatchIds |-> Nobody]

Sits(m, a) == \E i \in 1..Len(roster[m]) : roster[m][i] = a

Open(m) ==
  /\ phase[m] = "none"
  /\ phase' = [phase EXCEPT ![m] = "lobby"]
  /\ roster'[m] \in Seq(Accounts) \ {<<>>}
  /\ roster' = [roster EXCEPT ![m] = roster'[m]]
  /\ UNCHANGED result

Sit(m, a) ==
  /\ phase[m] = "lobby" /\ ~Sits(m, a)
  /\ roster' = [roster EXCEPT ![m] = Append(@, a)]
  /\ UNCHANGED <<phase, result>>

\* One after the other, but for a.
Others(s, a) ==
  LET kept[n \in 0..Len(s)] ==
        IF n = 0 THEN <<>> ELSE IF s[n] = a THEN kept[n - 1] ELSE Append(kept[n - 1], s[n])
  IN kept[Len(s)]

Rise(m, a) ==
  /\ phase[m] = "lobby" /\ a # roster[m][1]
  /\ roster' = [roster EXCEPT ![m] = Others(@, a)]
  /\ UNCHANGED <<phase, result>>

Leave(m) ==
  /\ phase[m] = "lobby"
  /\ \E p \in {"active", "cancelled"} : phase' = [phase EXCEPT ![m] = p]
  /\ UNCHANGED <<roster, result>>

\* Also a cancelled match can be given a result: nothing keeps an engine from
\* playing it.
Conclude(m) ==
  /\ phase[m] \in {"active", "cancelled"}
  /\ phase' = [phase EXCEPT ![m] = "finished"]
  /\ result'[m] = Nobody \/ Sits(m, result'[m])
  /\ result' = [result EXCEPT ![m] = result'[m]]
  /\ UNCHANGED roster

Next ==
  \E m \in MatchIds :
     \/ Open(m) \/ Leave(m) \/ Conclude(m)
     \/ \E a \in Accounts : Sit(m, a) \/ Rise(m, a)

Spec == Init /\ [][Next]_contractVars
=============================
