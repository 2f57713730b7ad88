-------- MODULE MCGifts --------
(***************************************************************************)
(* A small instance of Gifts: one room whose host v can be given to by u,  *)
(* its partner; two gifts, two battles, two wall sessions, two handlers.   *)
(***************************************************************************)
EXTENDS Gifts, TLC

CONSTANTS u, v, w, room, g1, g2, b1, b2, s1, s2, c1, seed, h1, h2

MCKeys == {g1, g2, seed}
MCIds == {g1, g2, b1, b2, s1, s2, c1}
MCSeed == [a \in {u, v, w} |-> IF a = u THEN 4 ELSE 0]
MCOwner == [r \in {room} |-> v]
MCCouples == [c \in {c1} |-> <<u, v>>]
MCRank == [a \in {u, v, w} |-> IF a = u THEN 1 ELSE IF a = v THEN 2 ELSE 3]
\* Ids are drawn at random and handlers are alike.
MCSymmetry == Permutations({h1, h2}) \cup Permutations({g1, g2})
                \cup Permutations({b1, b2}) \cup Permutations({s1, s2})
=============================
