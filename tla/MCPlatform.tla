-------- MODULE MCPlatform --------
(***************************************************************************)
(* Small instances of Platform: two or three accounts, two requests at a   *)
(* time, and for each service the records an earlier use of it left.       *)
(***************************************************************************)
EXTENDS Platform, TLC

CONSTANTS ann, ben, cat, dan, h1, h2, id1, p1, none

Here(status, a) == [Membership(a) EXCEPT !.status = status]
Sitting(status, a) == [Seat(a) EXCEPT !.status = status]
Reviewed(a, i) == Review(a, i, "resolved", "upheld")

Kept(a, visible) == [kind |-> "profile", status |-> "kept", who |-> a,
                     privacy |-> Merge(DefaultPrivacy, [visible |-> visible])]

MCLoad == [social |-> 3, notices |-> 3, chat |-> 3, rooms |-> 3, seats |-> 3, breakouts |-> 4, music |-> 2,
           support |-> 3, sessions |-> 4, views |-> 2, home |-> 3, accounts |-> 2, closing |-> 3]

\* One word is no role, and one entry adds to another.
MCStaff == {[id |-> cat, roles |-> {"moderator", "janitor"}], [id |-> cat, roles |-> {"support"}],
            [id |-> dan, roles |-> {"admin"}]}

\* A friendship that decides who may write; a room, its seats, a breakout; a
\* queue, and one that is playing; a ticket, and a report before and after its
\* review.
SeedsOf(a, b) ==
  [social    |-> {<<>>},
   notices   |-> {<<>>},
   chat      |-> {<<>>, <<Relation("friend", "accepted", a, b)>>},
   rooms     |-> {<<Room(a)>>, <<Room(a), Here("disconnected", b), Sitting("approved", b)>>},
   seats     |-> {<<Room(a), Here("joined", b), Sitting("approved", b)>>},
   breakouts |-> {<<Room(a), Here("joined", b)>>, <<Room(a), Here("joined", b), Breakout(a)>>},
   music     |-> {<<Room(a), Track(a, 0), Track(a, 1)>>,
                  <<Room(a), Here("joined", b), Dj(b), Track(b, 1),
                    [Track(a, 0) EXCEPT !.status = "playing"],
                    [NewPlayer EXCEPT !.status = "playing", !.current = 5]>>},
   support   |-> {<<Ticket(a)>>, <<Report(a, b)>>, <<Report(a, b), Reviewed(cat, 1)>>,
                  <<Report(a, b), Reviewed(cat, 1), Appeal(b, 2)>>},
   sessions  |-> {<<>>},
   views     |-> {<<>>, <<Kept(a, "friends"), Relation("friend", "pending", a, b)>>,
                  <<Kept(a, "private"), Relation("friend", "accepted", b, a)>>},
   home      |-> {<<Room(a), Here("joined", b), Relation("follow", "active", b, a)>>,
                  <<Room(a), Here("disconnected", b)>>},
   accounts  |-> {<<>>},
   closing   |-> {<<Room(a)>>}]
MCSeeds == [s \in DOMAIN SeedsOf(ann, ben) |-> SeedsOf(ann, ben)[s] \cup SeedsOf(ben, ann)[s]]

MCSymmetry == Permutations({h1, h2}) \cup Permutations({ann, ben})
=============================
