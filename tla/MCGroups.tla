-------- MODULE MCGroups --------
(***************************************************************************)
(* A small instance of Groups: a family of the owner u and the member v,   *)
(* the outsider w, and a second family that may be founded.                *)
(***************************************************************************)
EXTENDS Groups, TLC

CONSTANTS u, v, w, f1, f2, i1, i2, n1, c1, c2, e1, e2, seed, h1, h2

MCKeys == {n1, seed}
MCIds == {f1, f2, i1, i2, n1, c1, c2, e1, e2}
MCSeed == [a \in {u, v, w} |-> IF a = u THEN 1 ELSE 0]
MCFamilies == [f \in {f1} |-> [a \in {u, v, w} |->
                 IF a = u THEN "owner" ELSE IF a = v THEN "member" ELSE "none"]]
MCNoFamilies == [f \in {} |-> "none"]
MCRank == [a \in {u, v, w} |-> IF a = u THEN 1 ELSE IF a = v THEN 2 ELSE 3]

\* Ids are drawn at random and handlers are alike.
MCSymmetry == Permutations({h1, h2}) \cup Permutations({i1, i2})
                \cup Permutations({c1, c2}) \cup Permutations({e1, e2})
=============================
