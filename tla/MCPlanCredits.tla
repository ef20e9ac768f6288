---------------------------- MODULE MCPlanCredits ----------------------------
(***************************************************************************)
(* TLC instances of PlanCredits: one subscription under two requests at    *)
(* once, and a change of subscription under one at a time.                 *)
(***************************************************************************)
EXTENDS PlanCredits, TLC

CONSTANTS h1, h2, w1, w2

Symmetric == Permutations(Handlers) \cup Permutations(Walks)

\* Bounds of the model, from the second subscription on: requests come one by one, within
\* one period of each, and an event is delivered before the next one is sent.
Changing  == \E s \in Subs \ {1} : sub'[s] # NoSub
OneByOne  == /\ Cardinality({h \in Handlers : task'[h] # Idle}) <= 1
             /\ \A s \in Subs : sub'[s].period = 1 /\ ~sub'[s].over
             /\ Cardinality(mail') <= 1

OneByOneNext == Next /\ (Changing => OneByOne)
OneByOneSpec == Init /\ [][OneByOneNext]_vars
=============================================================================
