-------- MODULE MCGames --------
(***************************************************************************)
(* A small instance of Games: one match of three accounts, small boards,   *)
(* and chess from positions with few pieces.                               *)
(***************************************************************************)
EXTENDS Games, TLC

CONSTANTS ann, ben, cat, nobody, m1, h1, h2,
          Played   \* the games a run follows

MCLimits ==
  [g \in Played |-> [min |-> 2, max |-> IF g \in {"snakes_ladders", "domino", "quiz"} THEN 3 ELSE 2]]
MCHops == 2 :> 4 @@ 3 :> 1
MCOffsets == <<0, 2, 4>>
MCHandSize == 2 :> 2 @@ 3 :> 1

Place(pieces, turn, castling) ==
  [board |-> pieces, turn |-> turn, castling |-> castling, enPassant |-> -1]

\* Rooks and kings that have not moved, with rights on both sides; pawns
\* about to pass, to promote and to give check; a king that can be mated,
\* stalemated or left without enemies.
Towers == Place(4 :> Piece("k", "w") @@ 0 :> Piece("r", "w") @@ 7 :> Piece("r", "w")
                @@ 60 :> Piece("k", "b") @@ 56 :> Piece("r", "b"), "w", {"wK", "wQ", "bQ"})
Pawns == Place(4 :> Piece("k", "w") @@ 12 :> Piece("p", "w") @@ 44 :> Piece("p", "w")
               @@ 49 :> Piece("p", "w") @@ 27 :> Piece("p", "b") @@ 59 :> Piece("k", "b")
               @@ 56 :> Piece("n", "b"), "w", {})
Corner == Place(45 :> Piece("k", "w") @@ 38 :> Piece("q", "w") @@ 63 :> Piece("k", "b"), "w", {})
MCOpenings == {InitialPosition, Towers, Pawns, Corner}

MCSymmetry == Permutations({ann, ben, cat}) \cup Permutations({h1, h2})
=============================
