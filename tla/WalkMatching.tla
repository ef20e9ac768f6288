---------------------------- MODULE WalkMatching ----------------------------
(***************************************************************************)
(* The life of ONE walk of the marketplace, from booking to completion:    *)
(* the search for a walker (offers sent one at a time, each with a         *)
(* confirmation deadline), the tutor's decision menu, the walker's         *)
(* progress, the completion report and its review, cancellation, and the   *)
(* release of the walk when its payment is confirmed.                      *)
(*                                                                         *)
(* Code: app/services/operational_matching_service.py, the walk routes of  *)
(* app/routes/{walks,walker,admin,operational_walks}.py, the walk part of  *)
(* the Asaas webhook in app/routes/payments.py and the tasks of            *)
(* app/services/operational_scheduler_service.py that change a walk.       *)
(*                                                                         *)
(* A handler is one database transaction, so it is one action; the webhook *)
(* and confirm-plan commit TWICE (the release, then start_matching), so    *)
(* they are two actions and anything may happen in between.  A handler     *)
(* that raises rolls back, so it is a step that does not happen.           *)
(*                                                                         *)
(* The walkers' eligibility (profiles, training, availability, ranking) is *)
(* data the properties do not depend on: the ranking returns any walker    *)
(* not excluded, or none.  Time is the flag "due" of an offer: Elapse      *)
(* makes it true when the confirmation timeout has passed.                 *)
(***************************************************************************)
EXTENDS Naturals, Sequences, FiniteSets, TLC

CONSTANTS
  Walkers,      \* the walkers that may be offered the walk
  None,         \* no walker (NULL in walker_id / assigned_walker_id)
  MaxAttempts,  \* walk.max_attempts: offers a search may send by itself
  MaxOffers,    \* bound of the model: no new search is opened beyond it
  RawStatuses,  \* statuses staff or apps write directly (see WriteStatus)
  PaymentGate   \* REQUIRE_PAYMENT_BEFORE_MATCHING

Waiting  == {"pending_walker_confirmation", "auto_rematching"}
Serving  == {"walker_accepted", "ride_scheduled", "walker_arriving",
             "pet_handover_confirmed", "ride_in_progress"}
Decision == {"awaiting_tutor_reconfirmation", "no_walker_found"}
Status   == Waiting \cup Serving \cup Decision \cup
            {"awaiting_payment", "priority_matching", "reschedule_requested",
             "canceled_by_tutor", "awaiting_completion_review",
             "completion_rejected", "ride_completed", "ride_cancelled"}

ASSUME WalkersAssumption == None \notin Walkers
ASSUME BoundsAssumption  == /\ MaxAttempts \in Nat \ {0}
                            /\ MaxOffers \in Nat
                            /\ RawStatuses \subseteq Status \ {"ride_completed"}
                            /\ PaymentGate \in BOOLEAN

OfferStatus == {"pending", "accepted", "declined", "expired"}
Offer == [walker : Walkers, status : OfferStatus, due : BOOLEAN]
Mode  == {"auto", "only_selected"}

\* A row of walks, with the walk_matching_attempts rows that refer to it in
\* creation order.  finished is matching_finished_at IS NOT NULL; orphan is a
\* ghost: the walk was released and the start_matching that follows failed.
Walk == [status : Status, mode : Mode, assigned : Walkers \cup {None},
         walker : Walkers \cup {None}, finished : BOOLEAN, orphan : BOOLEAN,
         offers : Seq(Offer)]

ReviewStatus == {"none", "pending_review", "approved", "rejected"}

VARIABLES
  walk,      \* the walk
  paid,      \* a Payment of the walk is confirmed
  covered,   \* walk.subscription_id is set: a plan credit pays for the walk
  starting,  \* a release is committed, its handler has not run start_matching
  review     \* status of each walker's completion report

vars == <<walk, paid, covered, starting, review>>

\* create_walk commits the walk; without the gate start_matching comes next.
Init == /\ walk \in {w \in [status : {IF PaymentGate THEN "awaiting_payment"
                                      ELSE "pending_walker_confirmation"},
                            mode : Mode, assigned : Walkers \cup {None},
                            walker : Walkers \cup {None}, finished : {FALSE},
                            orphan : {FALSE}, offers : {<<>>}] :
                       w.walker = w.assigned}
        /\ paid = FALSE /\ covered = FALSE /\ starting = ~PaymentGate
        /\ review = [c \in Walkers |-> "none"]

----------------------------------------------------------------------------
(* Offers *)

NewOffer(c) == [walker |-> c, status |-> "pending", due |-> FALSE]

Pending(w) == {i \in DOMAIN w.offers : w.offers[i].status = "pending"}
DueOffers(w) == {i \in Pending(w) : w.offers[i].due}
Attempted(w) == {w.offers[i].walker : i \in DOMAIN w.offers}

\* _current_pending_attempt: of the pending attempts, the last one sent.
IsCurrent(w, i) == i \in Pending(w) /\ \A j \in Pending(w) : j <= i

\* Mutant of Close: the update forgets which attempt it was for.
CloseAll(w, ended, st) ==
  [w EXCEPT !.offers = [i \in DOMAIN w.offers |->
     [w.offers[i] EXCEPT !.status = st, !.due = FALSE]]]

\* _finish_attempt, on a set of attempts.
Close(w, ended, st) ==
  [w EXCEPT !.offers = [i \in DOMAIN w.offers |->
     IF i \in ended
       THEN [w.offers[i] EXCEPT !.status = st, !.due = FALSE]
       ELSE w.offers[i]]]

\* _create_attempt: the walk now points at the walker it was offered to.
SendOffer(w, c, st) ==
  [w EXCEPT !.status = st, !.assigned = c, !.walker = c,
            !.offers = Append(@, NewOffer(c))]

\* _selected_walker_unavailable
Unavailable(w) ==
  [w EXCEPT !.status = "awaiting_tutor_reconfirmation", !.finished = TRUE]

\* Mutant of GiveUp: the search is closed, its status is left as it was.
GiveUpSilently(w) == [w EXCEPT !.finished = TRUE]

\* rematch() with no walker to try: the attempt limit, or nobody eligible.
GiveUp(w) ==
  IF Len(w.offers) >= MaxAttempts
    THEN [w EXCEPT !.status = "awaiting_tutor_reconfirmation"]
    ELSE [w EXCEPT !.status = "no_walker_found", !.finished = TRUE]

\* Mutants of Chains: the attempt limit is not looked at; the walkers tried
\* before are not excluded.
ChainsUnlimited(w, k) ==
  {c \in [1..k -> Walkers \ Attempted(w)] :
     \A i, j \in 1..k : c[i] = c[j] => i = j}
ChainsOfAnybody(w, k) ==
  {c \in [1..k -> Walkers] :
     /\ \A i, j \in 1..k : c[i] = c[j] => i = j
     /\ k > 0 => Len(w.offers) + k <= MaxAttempts}

\* The walkers a run of k successive rematch() calls may offer the walk to.
Chains(w, k) ==
  {c \in [1..k -> Walkers \ Attempted(w)] :
     /\ \A i, j \in 1..k : c[i] = c[j] => i = j
     /\ k > 0 => Len(w.offers) + k <= MaxAttempts}

\* The walk after the offers of such a run; the first attempt of a walk that
\* was never offered is shown as a confirmation, not as a rematch.
SearchOn(w, c) ==
  IF c = <<>> THEN w
  ELSE [w EXCEPT !.status = IF Len(w.offers) + Len(c) = 1
                              THEN "pending_walker_confirmation"
                              ELSE "auto_rematching",
                 !.assigned = c[Len(c)],
                 !.walker = c[Len(c)],
                 !.offers = @ \o [i \in DOMAIN c |-> NewOffer(c[i])]]

\* Mutant of Rematches: the tutor's exclusive choice is not looked at.
RematchesAnyMode(w, n) ==
  {[walk |-> SearchOn(w, c), calls |-> n] : c \in Chains(w, n)}
  \cup UNION {{[walk |-> GiveUp(SearchOn(w, c)), calls |-> k + 1]
                 : c \in Chains(w, k)} : k \in 0..(n-1)}

\* What n successive calls of rematch() may do, and how many of them are made:
\* the caller stops at the call that leaves the waiting statuses.
Rematches(w, n) ==
  IF w.mode = "only_selected" THEN {[walk |-> Unavailable(w), calls |-> 1]}
  ELSE {[walk |-> SearchOn(w, c), calls |-> n] : c \in Chains(w, n)}
       \cup UNION {{[walk |-> GiveUp(SearchOn(w, c)), calls |-> k + 1]
                      : c \in Chains(w, k)} : k \in 0..(n-1)}

Rematch(w) == {r.walk : r \in Rematches(w, 1)}

FirstOf(S, k) == {i \in S : Cardinality({j \in S : j <= i}) <= k}

\* Mutant of Sweep: forgets the walks whose search is already a rematch.
SweepFirstOffers(w) ==
  IF w.status # "pending_walker_confirmation" \/ DueOffers(w) = {} THEN {w}
  ELSE {Close(r.walk, FirstOf(DueOffers(w), r.calls), "expired")
          : r \in Rematches(w, Cardinality(DueOffers(w)))}

\* process_expired_attempts, restricted to this walk: expires the due offers in
\* the order they fall due and rematches after each, while the walk waits.
Sweep(w) ==
  IF w.status \notin Waiting \/ DueOffers(w) = {} THEN {w}
  ELSE {Close(r.walk, FirstOf(DueOffers(w), r.calls), "expired")
          : r \in Rematches(w, Cardinality(DueOffers(w)))}

\* start_matching after its sweep.
Start(w) ==
  LET v == [w EXCEPT !.finished = FALSE, !.orphan = FALSE]
      selected == IF v.assigned # None THEN v.assigned ELSE v.walker
      confirming(c) == SendOffer(v, c, "pending_walker_confirmation")
  IN IF \/ w.finished /\ w.status \in {"walker_accepted", "ride_scheduled",
             "walker_arriving", "ride_in_progress", "ride_completed"}
        \/ Pending(w) # {}
     THEN {w}
     ELSE IF v.mode = "only_selected"
     THEN {Unavailable(v)} \cup
          (IF selected = None THEN {} ELSE {confirming(selected)})
     ELSE {confirming(c) : c \in Walkers} \cup
          {[v EXCEPT !.status = "no_walker_found", !.finished = TRUE]}

StartMatching(w) == UNION {Start(v) : v \in Sweep(w)}

----------------------------------------------------------------------------
(* Release of a walk and start of its search *)

\* A handler that changes nothing but the walk.
Commit(outcomes) == /\ walk' \in outcomes
                    /\ UNCHANGED <<paid, covered, starting, review>>

\* Bound of the model, in the guard of every handler that opens a search.
Bounded == Len(walk.offers) < MaxOffers

\* The webhook's branch on a confirmed payment; late is "past the cutoff".
PaymentConfirmed(late) ==
  /\ paid' = TRUE
  /\ UNCHANGED <<covered, review>>
  /\ \/ /\ \/ walk.status = "ride_cancelled"
           \/ walk.status = "awaiting_payment" /\ late
        /\ walk' = [walk EXCEPT !.status = "awaiting_tutor_reconfirmation",
                                !.finished = TRUE]
        /\ UNCHANGED starting
     \/ /\ walk.status = "awaiting_payment" /\ ~late
        /\ walk' = [walk EXCEPT !.status = "pending_walker_confirmation"]
        /\ starting' = TRUE
     \/ /\ walk.status \notin {"ride_cancelled", "awaiting_payment"}
        /\ UNCHANGED <<walk, starting>>

\* A refund or reversal event: the payment is no longer confirmed.
PaymentReversed == /\ paid /\ paid' = FALSE
                   /\ UNCHANGED <<walk, covered, starting, review>>

\* confirm_walk_plan, when the tutor has a credit.
PlanConfirmed ==
  /\ ~covered /\ walk.status = "awaiting_payment"
  /\ covered' = TRUE /\ starting' = TRUE
  /\ walk' = [walk EXCEPT !.status = "pending_walker_confirmation"]
  /\ UNCHANGED <<paid, review>>

\* The second transaction of create_walk, of the webhook and of confirm-plan.
StartAfterRelease ==
  /\ starting /\ starting' = FALSE /\ Bounded
  /\ walk' \in StartMatching(walk)
  /\ UNCHANGED <<paid, covered, review>>

\* ... which is best-effort: it may raise, or the process may stop before it.
StartFails ==
  /\ starting /\ starting' = FALSE
  /\ walk' = [walk EXCEPT !.orphan = TRUE]
  /\ UNCHANGED <<paid, covered, review>>

\* POST /walks/{id}/matching/start and /rematch, by the tutor or an admin.
StartRoute   == Bounded /\ Commit(StartMatching(walk))
RematchRoute == Commit(Rematch(walk))

\* _task_expire_unpaid_walks
ExpireUnpaid == /\ walk.status = "awaiting_payment"
                /\ Commit({[walk EXCEPT !.status = "ride_cancelled"]})

----------------------------------------------------------------------------
(* Walkers *)

\* The confirmation timeout of the oldest offers passes.
Elapse ==
  \E i \in Pending(walk) \ DueOffers(walk) :
    Commit({[walk EXCEPT !.offers = [j \in DOMAIN walk.offers |->
              IF j <= i /\ j \in Pending(walk)
                THEN [walk.offers[j] EXCEPT !.due = TRUE]
                ELSE walk.offers[j]]]})

\* The scheduler's matching_expiration task and the reads that sweep first.
ExpireOffers == /\ walk.status \in Waiting /\ DueOffers(walk) # {}
                /\ Commit(Sweep(walk))

\* accept_walk, with the route's check that the walk is nobody else's; the
\* empty set when the handler refuses.
Accepted(w, c) ==
  IF w.walker \notin {None, c} THEN {}
  ELSE {v \in Sweep(w) : /\ v.status \in {"walker_accepted", "ride_scheduled"}
                         /\ v.walker = c}
       \cup UNION {{[Close(v, {i}, "accepted") EXCEPT
                       !.status = "walker_accepted", !.walker = c,
                       !.finished = TRUE]
                      : i \in {i \in Pending(v) :
                              /\ IsCurrent(v, i) /\ v.offers[i].walker = c
                              /\ ~v.offers[i].due
                              /\ v.assigned = c /\ v.status \in Waiting}}
                    : v \in Sweep(w)}

Accept(c) == Commit(Accepted(walk, c))

\* decline_walk: the walk's own status is not looked at.
Decline(c) ==
  \E v \in Sweep(walk) : \E i \in Pending(v) :
    /\ IsCurrent(v, i) /\ v.offers[i].walker = c
    /\ Commit(Rematch(Close(v, {i}, "declined")))

\* _get_walk_for_walker
IsHers(c) == /\ walk.walker \in {c, None} \/ walk.assigned \in {c, None}
             /\ walk.walker \in {c, None} \/ walk.assigned = c

\* Mutant of Advance: ownership is checked, the status is not.
AdvanceFromAny(c, from, to) ==
  /\ IsHers(c) /\ Commit({[walk EXCEPT !.status = to]})

Advance(c, from, to) == /\ IsHers(c) /\ walk.status \in from
                        /\ Commit({[walk EXCEPT !.status = to]})

CheckIn(c)   == Advance(c, {"walker_accepted", "ride_scheduled", "walker_arriving"},
                        "walker_arriving")
Handover(c)  == Advance(c, {"walker_arriving", "pet_handover_confirmed"},
                        "pet_handover_confirmed")
BeginRide(c) == Advance(c, {"pet_handover_confirmed", "ride_in_progress"},
                        "ride_in_progress")

\* Mutant of SubmitReport: the report completes the walk.
SubmitReportCompletes(c) ==
  /\ walk.walker = c /\ walk.status \in {"ride_in_progress", "completion_rejected"}
  /\ walk' = [walk EXCEPT !.status = "ride_completed"]
  /\ review' = [review EXCEPT ![c] = "pending_review"]
  /\ UNCHANGED <<paid, covered, starting>>

\* _submit_completion_review
SubmitReport(c) ==
  /\ walk.walker = c /\ walk.status \in {"ride_in_progress", "completion_rejected"}
  /\ walk' = [walk EXCEPT !.status = "awaiting_completion_review"]
  /\ review' = [review EXCEPT ![c] = "pending_review"]
  /\ UNCHANGED <<paid, covered, starting>>

----------------------------------------------------------------------------
(* The tutor *)

\* Mutant of Cancelled: writes the status of the first versions of the app.
CancelledLegacy(w) == [w EXCEPT !.status = "Cancelado", !.finished = TRUE]

\* process_tutor_cancellation, its effect on the walk.
Cancelled(w) == [w EXCEPT !.status = "ride_cancelled", !.finished = TRUE]

\* POST /walks/{id}/cancel
CancelWalk == /\ walk.status \notin {"ride_cancelled", "ride_completed"}
              /\ Commit({Cancelled(walk)})

\* PUT /walks/{id}/status, the cancellation of older versions of the app.
CancelByStatus == Commit({Cancelled(walk)})

\* POST /walks/{id}/reconfirmation, continue_search
ContinueSearch ==
  /\ walk.status \in Decision \cup {"auto_rematching"} /\ Bounded
  /\ Commit(StartMatching([walk EXCEPT !.mode = "auto", !.walker = None,
                                       !.assigned = None, !.finished = FALSE]))

\* POST /walker/walks/{id}/reconfirmation: continue, reschedule, cancel
ReconfirmContinue ==
  /\ walk.status \in Decision /\ Bounded
  /\ Commit(StartMatching([walk EXCEPT !.status = "priority_matching",
                                       !.finished = FALSE]))
ReconfirmOther ==
  /\ walk.status \in Decision
  /\ Commit({[walk EXCEPT !.status = st] :
               st \in {"reschedule_requested", "canceled_by_tutor"}})

\* POST /walks/{id}/reschedule-selected-walker
RescheduleSelected ==
  LET selected == IF walk.assigned # None THEN walk.assigned ELSE walk.walker
  IN /\ walk.status = "awaiting_tutor_reconfirmation"
     /\ walk.mode = "only_selected" /\ selected # None
     /\ Pending(walk) = {} /\ Bounded
     /\ Commit(StartMatching([walk EXCEPT
                 !.status = "pending_walker_confirmation", !.finished = FALSE,
                 !.walker = selected, !.assigned = selected]))

\* POST /walks/{id}/tutor-decision.  Without a confirmed payment the walk goes
\* back to the payment gate, a plan credit or not.
BackToSearch(w) ==
  IF paid THEN StartMatching([w EXCEPT !.status = "pending_walker_confirmation",
                                       !.finished = FALSE])
  ELSE {[w EXCEPT !.status = "awaiting_payment", !.finished = FALSE]}

DecideReschedule == /\ walk.status \in Decision /\ Bounded
                    /\ Commit(BackToSearch(walk))
DecideSwitch == /\ walk.status \in Decision /\ walk.mode = "only_selected" /\ Bounded
                /\ Commit(BackToSearch([walk EXCEPT !.mode = "auto",
                                         !.walker = None, !.assigned = None]))
DecideRefund == /\ walk.status \in Decision /\ paid
                /\ Commit({Cancelled(walk)})

----------------------------------------------------------------------------
(* Staff *)

\* POST /admin/walks/{id}/recovery
Recover ==
  Commit({[v EXCEPT !.status = "awaiting_tutor_reconfirmation", !.walker = None,
                    !.assigned = None, !.finished = FALSE] : v \in Sweep(walk)})

Reviewed(c, verdict, st) ==
  /\ review[c] = "pending_review" /\ review' = [review EXCEPT ![c] = verdict]
  /\ walk' = [walk EXCEPT !.status = st,
                          !.finished = @ \/ st = "ride_completed"]
  /\ UNCHANGED <<paid, covered, starting>>

ApproveReport(c) == Reviewed(c, "approved", "ride_completed")
RejectReport(c)  == Reviewed(c, "rejected", "completion_rejected")

\* A status written as given: PUT /walks/{id}/status and the admin's PATCH.
WriteStatus(w, st) == [w EXCEPT !.status = st,
                                !.finished = @ \/ st = "ride_cancelled"]
RawStatus(st) == Commit({WriteStatus(walk, st)})

\* POST /walker/walks/{id}/status: accepts first when the walk waits.
WalkerStatus(c, st) ==
  /\ walk.walker \in {None, c}
  /\ Commit({WriteStatus(v, st) :
               v \in IF walk.status \in Waiting THEN Accepted(walk, c) ELSE {walk}})

----------------------------------------------------------------------------
Release == \/ \E late \in BOOLEAN : PaymentConfirmed(late)
           \/ PaymentReversed \/ PlanConfirmed \/ StartAfterRelease
           \/ StartFails \/ StartRoute \/ RematchRoute \/ ExpireUnpaid

WalkerStep(c) == \/ Accept(c) \/ Decline(c) \/ CheckIn(c) \/ Handover(c)
                 \/ BeginRide(c) \/ SubmitReport(c) \/ ApproveReport(c)
                 \/ RejectReport(c) \/ \E st \in RawStatuses : WalkerStatus(c, st)

TutorStep == \/ CancelWalk \/ CancelByStatus \/ ContinueSearch
             \/ ReconfirmContinue \/ ReconfirmOther \/ RescheduleSelected
             \/ DecideReschedule \/ DecideSwitch \/ DecideRefund

Next == \/ Release \/ TutorStep \/ Recover \/ Elapse \/ ExpireOffers
        \/ \E c \in Walkers : WalkerStep(c)
        \/ \E st \in RawStatuses : RawStatus(st)

Spec == Init /\ [][Next]_vars

\* Time passes, the scheduler runs matching_expiration every cycle, and a
\* handler that released the walk goes on to start the search, or fails.
FairSpec == /\ Spec
            /\ WF_vars(Elapse) /\ WF_vars(ExpireOffers)
            /\ WF_vars(StartAfterRelease \/ StartFails)

----------------------------------------------------------------------------
(* Properties *)

\* Every variable has its type; the columns hold what the models declare.
TypeOK == /\ walk \in Walk
          /\ paid \in BOOLEAN /\ covered \in BOOLEAN /\ starting \in BOOLEAN
          /\ review \in [Walkers -> ReviewStatus]

\* A walk shown as looking for a walker has an offer somebody can answer.  (A
\* released walk without any attempt is the orphan of payments.py's comment on
\* start_matching.)  The only exceptions: the handler that released the walk
\* has not started the search yet, or its best-effort start failed.
SearchHasOffer ==
  walk.status \in Waiting => \/ Pending(walk) # {} \/ starting \/ walk.orphan

\* A walk in service is in the hands of a walker who accepted it: whatever the
\* order of offers, expiries, manual rematches and late answers, nobody comes
\* to serve (and to see the pick-up address) on an unanswered offer.
ServedByAccepter ==
  walk.status \in Serving =>
    \E i \in DOMAIN walk.offers : /\ walk.offers[i].status = "accepted"
                                  /\ walk.offers[i].walker = walk.walker

\* A walk is completed only on a report some admin approved.
CompletedOnApproval ==
  walk.status = "ride_completed" => \E c \in Walkers : review[c] = "approved"

NewOffers == {walk'.offers[i].walker : i \in (DOMAIN walk'.offers) \ DOMAIN walk.offers}

\* Answers are final: an attempt that left "pending" keeps its outcome and its
\* walker, no attempt is ever removed from the history, and the automatic search
\* never goes back to a walker who declined the walk or let it expire.
AnswersAreFinal ==
  [][/\ \A i \in DOMAIN walk.offers :
          /\ i \in DOMAIN walk'.offers
          /\ walk'.offers[i].walker = walk.offers[i].walker
          /\ i \notin Pending(walk) => walk'.offers[i] = walk.offers[i]
     /\ walk'.status = "auto_rematching" =>
          \A c \in NewOffers : c \notin Attempted(walk)]_vars

\* The search never goes past max_attempts by itself: once the attempts are
\* used up, at most one further offer is sent at a time, and only when no
\* earlier one can still be answered.
AttemptBudget ==
  [][Len(walk.offers) >= MaxAttempts /\ Len(walk'.offers) > Len(walk.offers) =>
       /\ Len(walk'.offers) = Len(walk.offers) + 1
       /\ Pending(walk') = {Len(walk'.offers)}]_vars

\* While the tutor's choice of one exclusive walker stands, nobody else is
\* offered the walk, and only the tutor lifts it.
ExclusiveChoiceKept ==
  [][walk.mode = "only_selected" =>
       \/ /\ NewOffers \subseteq {walk.assigned, walk.walker}
          /\ walk'.mode = "only_selected"
       \/ walk.status \in Decision /\ walk'.mode = "auto"]_vars

\* Every search ends: under the scheduler's fairness a waiting walk is
\* accepted, handed to the tutor's decision, or cancelled - unless its start
\* was lost (SearchHasOffer says when).
SearchEnds == walk.status \in Waiting ~> (walk.status \notin Waiting \/ walk.orphan)

\* TLC need not tell the walkers apart, but where it checks liveness.
Symmetric == Permutations(Walkers)
============================================================================
