-------- MODULE AccountIds --------
(***************************************************************************)
(* The accounts everything else is about: the ids of the rows of the table *)
(* accounts.  Rows are never deleted (account.repository.js only stamps    *)
(* deleted_at), so the set does not change.  And the levels that accounts, *)
(* couples and families reach by the points they gather, which the three   *)
(* level curves compute alike.                                             *)
(***************************************************************************)
EXTENDS Integers

CONSTANT Accounts

\* xpRequiredForLevel, cpRequiredForCoupleLevel, xpRequiredForFamilyLevel.
PointsRequired(factor, level) == factor * level * level

\* levelForXp and its two likes: from the square root, in floating point, the
\* level is walked up as long as the next one is reached, and down as long as
\* it is not reached itself.
LevelFrom(estimate, factor, points) ==
  LET climb[n \in 0..points] ==
        IF PointsRequired(factor, n + 1) <= points THEN climb[n + 1] ELSE n
      descend[n \in 0..points] ==
        IF n > 0 /\ PointsRequired(factor, n) > points THEN descend[n - 1] ELSE n
  IN descend[climb[estimate]]

\* A level is reached, and the next one is not.
LevelReached(level, factor, points) ==
  /\ PointsRequired(factor, level) <= points
  /\ points < PointsRequired(factor, level + 1)
=============================
