------------------------------ MODULE MCOffice ------------------------------
(* Office for TLC: two requests or workers h1, h2, two rows t1, t2 of a kind. *)
EXTENDS Office, TLC

CONSTANTS h1, h2, t1, t2

\* The second version of the manual asks for less than the first.
TopicsOf(v) == IF v = "v1" THEN {"m1", "m2"} ELSE {"m2"}

Symmetric == Permutations({h1, h2}) \cup Permutations({t1, t2})
=============================================================================
