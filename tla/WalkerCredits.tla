---------------------------- MODULE WalkerCredits ----------------------------
(***************************************************************************)
(* One walker's reputation credits (CR): earned by deeds and by the weekly *)
(* mission, lost by a no-show, spent on a boost.                           *)
(*                                                                         *)
(* Code: app/services/walker_cr_service.py with its callers: completion,   *)
(* review and kit approval (earn), operational_reliability_service         *)
(* (penalty), routes/walker_ecosystem.py (boost) and                       *)
(* weekly_mission_service.py.                                              *)
(*                                                                         *)
(* Every handler reads the wallet, computes in Python and writes the whole *)
(* number when it commits.  A number written over one that changed since   *)
(* is a lost update; wallet.lost, a ghost, remembers it.                   *)
(***************************************************************************)
EXTENDS Naturals, FiniteSets

CONSTANTS
  Deeds,      \* a walk completed, a review of five stars, a kit: each gives Gain
  Missions,   \* rows of the weekly mission of one type: normally one is made
  Gain, Prize, Fine, Cost,   \* CR_EARN of a deed and of a mission, CR_PENALTY, CR_SPEND
  MaxBoosts,  \* bound of the model
  Handlers    \* requests in flight at once

\* What the parameters must be.
ParametersAssumption ==
  /\ IsFiniteSet(Deeds) /\ IsFiniteSet(Missions) /\ Deeds \cap Missions = {}
  /\ {Gain, Prize} \subseteq Nat \ {0} /\ {Fine, Cost} \subseteq Nat

VARIABLES
  wallet,    \* balance, lifetime_earned, lifetime_spent
  earns,     \* earn transactions of each deed and mission row; the second of two
             \* overlapping requests is left out, its wallet is lost anyhow
  fined,     \* the penalty of the no-show is written
  boosts,    \* boosts bought, and whether the latest is active
  mission,   \* status of each mission row
  metric,    \* whether the week's figures are below the target or meet it; or the week is over
  duty       \* what each request in flight has read

creditVars == <<wallet, earns, fined, boosts, mission, metric, duty>>

Idle == [op |-> "idle"]

Init == /\ wallet  = [bal |-> 0, earned |-> 0, spent |-> 0, lost |-> FALSE]
        /\ earns   = [d \in Deeds \cup Missions |-> 0]
        /\ fined   = FALSE
        /\ boosts  = [n |-> 0, on |-> FALSE]
        /\ mission = [m \in Missions |-> "none"]
        /\ metric  = "below"
        /\ duty    = [h \in Handlers |-> Idle]

----------------------------------------------------------------------------
(* What a request decides on what it reads *)

\* Mutant of AlreadyAwarded: nobody looks for the transaction.
AwardedNever(d) == FALSE

\* already_awarded
AlreadyAwarded(d) == earns[d] > 0

\* earn_cr
Earned(w, n) == [w EXCEPT !.bal = @ + n, !.earned = @ + n]

\* Mutant of Afforded: half the cost is enough.
AffordedByHalf(w) == w.bal >= Cost \div 2

\* The balance the boost needs, in activate_boost and again in spend_cr.
Afforded(w) == w.bal >= Cost

\* spend_cr and penalty_cr; a penalty stops at zero.
Spent(w)     == [w EXCEPT !.bal = IF @ < Cost THEN 0 ELSE @ - Cost, !.spent = @ + Cost]
Penalized(w) == [w EXCEPT !.bal = IF @ < Fine THEN 0 ELSE @ - Fine]

\* The missions a refresh completes with a prize: those whose status turns.
Rewarded == {m \in Missions : metric = "met" /\ mission[m] = "open" /\ ~AlreadyAwarded(m)}

\* update_mission_status, in the week: what was completed may fall back.
Refreshed(m) == IF mission[m] = "none" THEN "none"
                ELSE IF metric = "met" THEN "completed" ELSE "open"

----------------------------------------------------------------------------
(* Requests: what they read, then what they commit *)

Start(h, c) == duty[h] = Idle /\ duty' = [duty EXCEPT ![h] = c]
               /\ UNCHANGED <<wallet, earns, fined, boosts, mission, metric>>

\* Approval of a walk or a kit, and a review.
BeginAward(h, d) == Start(h, [op |-> "award", read |-> wallet, for |-> IF AlreadyAwarded(d) THEN {} ELSE {d},
                              stale |-> FALSE])

\* create_operational_event of a no-show.
BeginFine(h) == ~fined /\ Start(h, [op |-> "fine", read |-> wallet, stale |-> FALSE])

\* activate_boost
BeginBoost(h) == /\ ~boosts.on /\ Afforded(wallet) /\ boosts.n < MaxBoosts
                 /\ Start(h, [op |-> "boost", read |-> wallet, stale |-> FALSE])

\* get_or_create_weekly_missions: the row is made when none is read.
BeginMission(h) == /\ metric # "over"
                   /\ \A m \in Missions : mission[m] = "none"
                   /\ Start(h, [op |-> "create", stale |-> FALSE])

\* refresh_weekly_missions
BeginRefresh(h) ==
  /\ metric # "over"
  /\ Start(h, [op |-> "refresh", read |-> wallet, for |-> Rewarded, stale |-> FALSE,
               to |-> [m \in Missions |-> Refreshed(m)]])

\* The wallet after a request that turns what it read into w: only the columns it
\* changes are written.
Written(h, w) ==
  LET r == duty[h].read
  IN [bal    |-> IF w.bal = r.bal THEN wallet.bal ELSE w.bal,
      earned |-> IF w.earned = r.earned THEN wallet.earned ELSE w.earned,
      spent  |-> IF w.spent = r.spent THEN wallet.spent ELSE w.spent,
      lost   |-> wallet.lost \/ (w # r /\ [r EXCEPT !.lost = FALSE] # [wallet EXCEPT !.lost = FALSE])]

\* The requests in flight have read what is written now.
Done(h) == duty' = [g \in Handlers |->
             IF g = h \/ duty[g] = Idle THEN IF g = h THEN Idle ELSE duty[g]
             ELSE [duty[g] EXCEPT !.stale = TRUE]]

\* The earns of a request, and those of a stale one, which may come twice.
Counted(h) == [d \in DOMAIN earns |->
                IF d \in duty[h].for /\ ~(duty[h].stale /\ earns[d] > 0) THEN earns[d] + 1 ELSE earns[d]]

CommitAward(h) ==
  /\ duty[h].op = "award"
  /\ wallet' = Written(h, IF duty[h].for = {} THEN duty[h].read ELSE Earned(duty[h].read, Gain))
  /\ earns'  = Counted(h)
  /\ Done(h) /\ UNCHANGED <<fined, boosts, mission, metric>>

CommitFine(h) ==
  /\ duty[h].op = "fine"
  /\ wallet' = Written(h, Penalized(duty[h].read))
  /\ fined'  = TRUE
  /\ Done(h) /\ UNCHANGED <<earns, boosts, mission, metric>>

CommitBoost(h) ==
  /\ duty[h].op = "boost"
  /\ wallet' = Written(h, Spent(duty[h].read))
  /\ boosts' = [n |-> boosts.n + 1, on |-> TRUE]
  /\ Done(h) /\ UNCHANGED <<earns, fined, mission, metric>>

CommitMission(h) ==
  /\ duty[h].op = "create"
  /\ \E m \in Missions : mission[m] = "none" /\ mission' = [mission EXCEPT ![m] = "open"]
  /\ Done(h) /\ UNCHANGED <<wallet, earns, fined, boosts, metric>>

CommitRefresh(h) ==
  /\ duty[h].op = "refresh"
  /\ wallet'  = Written(h, Earned(duty[h].read, Prize * Cardinality(duty[h].for)))
  /\ earns'   = Counted(h)
  /\ mission' = [m \in Missions |-> IF duty[h].to[m] = "none" THEN mission[m] ELSE duty[h].to[m]]
  /\ Done(h) /\ UNCHANGED <<fined, boosts, metric>>

\* A review or a cancellation moves the week's figures; the boost runs out.
MetricMoves == /\ metric' \in {"below", "met"} \ {metric} /\ metric # "over"
               /\ UNCHANGED <<wallet, earns, fined, boosts, mission, duty>>
BoostEnds   == /\ boosts.on /\ boosts' = [boosts EXCEPT !.on = FALSE]
               /\ UNCHANGED <<wallet, earns, fined, mission, metric, duty>>

\* The next week begins: expire_old_missions, and nobody refreshes these rows again.
WeekEnds == /\ metric' = "over" /\ metric # "over"
            /\ mission' = [m \in Missions |-> IF mission[m] = "open" THEN "expired" ELSE mission[m]]
            /\ UNCHANGED <<wallet, earns, fined, boosts, duty>>

Next == \/ \E h \in Handlers :
             \/ \E d \in Deeds : BeginAward(h, d)
             \/ BeginFine(h) \/ BeginBoost(h) \/ BeginMission(h) \/ BeginRefresh(h)
             \/ CommitAward(h) \/ CommitFine(h) \/ CommitBoost(h)
             \/ CommitMission(h) \/ CommitRefresh(h)
        \/ MetricMoves \/ BoostEnds \/ WeekEnds

Spec == Init /\ [][Next]_creditVars

----------------------------------------------------------------------------
TypeOK == /\ wallet \in [bal : Nat, earned : Nat, spent : Nat, lost : BOOLEAN]
          /\ earns \in [Deeds \cup Missions -> 0 .. 2]
          /\ fined \in BOOLEAN
          /\ boosts \in [n : Nat, on : BOOLEAN]
          /\ mission \in [Missions -> {"none", "open", "completed", "expired"}]
          /\ metric \in {"below", "met", "over"}

\* A deed pays once, however often it is approved or reviewed again; and a mission
\* pays once although the week's figures may fall back and meet the target again.
AwardedOnce == \A d \in DOMAIN earns : earns[d] <= 1

\* As long as no update of the wallet was lost, its totals are those of the
\* transactions, every boost was paid in full, and nobody holds or has spent more
\* than was earned.
CreditsAddUp ==
  ~wallet.lost =>
    LET paid(S) == Cardinality({d \in S : earns[d] > 0})
    IN /\ wallet.earned = Gain * paid(Deeds) + Prize * paid(Missions)
       /\ wallet.spent = Cost * boosts.n
       /\ wallet.bal + wallet.spent <= wallet.earned

\* The wallet is what the deeds earned, each paid once.
WalletIsEarned == AwardedOnce /\ CreditsAddUp
=============================================================================
