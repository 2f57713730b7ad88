-------- MODULE MCPayments --------
(***************************************************************************)
(* A small instance of Payments: two accounts, two handlers, three         *)
(* requests besides the creation of one order.  A wallet of 2 buys two     *)
(* things of price 1 and refuses the third; a mission takes one share;     *)
(* guards can lapse because a tier lasts a day and a day may pass.         *)
(***************************************************************************)
EXTENDS Payments

CONSTANTS u, v, o1, p1, x1, g1, g2, d1, d2, ru, rv, k1, seed

MCKeys == {o1, p1, x1, g1, g2, d1, d2, ru, rv, seed}
MCIds == (MCKeys \ {seed}) \cup {k1}
MCStaff == {[id |-> v, roles |-> {"admin"}]}
MCVip == <<0, 1, 2>>
MCSvip == <<0, 2>>
MCSeed == [a \in {u, v} |-> IF a = u THEN 2 ELSE 0]
MCRewardKey == [a \in {u, v} |-> IF a = u THEN ru ELSE rv]
=============================
