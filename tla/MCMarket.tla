------------------------------ MODULE MCMarket ------------------------------
(* Market for TLC: two rows or tutors a1, a2 of each kind, two requests h1, h2. *)
EXTENDS Market, TLC

CONSTANTS a1, a2, h1, h2

OwnerOf == "w1" :> "u1" @@ "w2" :> "u2"

Symmetric == Permutations({a1, a2}) \cup Permutations({h1, h2})
=============================================================================
