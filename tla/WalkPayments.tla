---------------------------- MODULE WalkPayments ----------------------------
(***************************************************************************)
(* The money of ONE walk: the charges created for it at the gateway Asaas, *)
(* the rows of payments that mirror them, the webhook that keeps the two   *)
(* together, the refunds asked by a cancellation or by the tutor's         *)
(* decision, and the expiry of a walk that nobody paid.                    *)
(*                                                                         *)
(* Code: app/routes/payments.py, app/services/cancel_walk_service.py, the  *)
(* walk routes that cancel, decide, confirm by plan and delete             *)
(* (app/routes/walks.py) and the expiry task of                            *)
(* app/services/operational_scheduler_service.py.                          *)
(*                                                                         *)
(* Requests and the events of the gateway are served by several processes  *)
(* and lock nothing: what a handler read stays in task[h], and what an     *)
(* event's delivery read in hook[w], while everybody else runs.  A commit  *)
(* writes the columns whose value differs from the one that was loaded,    *)
(* whatever they have become.  One step is only what one statement of the  *)
(* database decides, or what no later read of the handler depends on.      *)
(*                                                                         *)
(* The gateway (gate, mail) is external.  A charge and its row appear      *)
(* together: until the row is committed nobody holds the charge's code, so *)
(* a charge whose handler dies before is one nobody can pay.  Time only    *)
(* lets things happen (a pending row is recent or old, the cut-off has     *)
(* passed or not), so it is a free choice.                                 *)
(***************************************************************************)
EXTENDS Naturals, FiniteSets, TLC

CONSTANTS
  Handlers,    \* requests and scheduler runs that may be in flight at once
  Hooks,       \* deliveries of events that may be in flight at once
  MaxInFlight, \* bound of the model: requests, runs and deliveries together
  MaxCharges,  \* bound of the model: charges created for the walk
  Twice,       \* a payment may be announced twice, as a card's is
  Late,        \* a charge may be paid after its due date, as by card
  NoIds,       \* kinds of events that come without the id deduplication needs
  Crashes      \* the process may die between two commits

ASSUME BoundsAssumption == MaxCharges \in Nat /\ MaxInFlight \in Nat
ASSUME SwitchAssumption  == {Twice, Late, Crashes} \subseteq BOOLEAN

Charges == 1 .. MaxCharges

\* released: in the search, or past it.  decision: awaiting_tutor_reconfirmation
\* or no_walker_found, the two statuses that leave the tutor the choice.
WalkStatus == {"awaiting_payment", "released", "decision", "ride_cancelled", "deleted"}
Search     == {"released", "decision"}

\* pending: PAYMENT_PENDING_STATUSES; confirmed: the paid statuses; refunded:
\* pagamento_estornado; failed: falha_pagamento; regenerated:
\* cancelado_regenerado.  none: there is no such row yet.
RowStatus == {"none", "pending", "confirmed", "refunded", "failed",
              "regenerated"}
Refund == {"none", "pending", "failed", "done"}   \* refund_status
Sticky == {"confirmed", "refunded"}               \* _PAYMENT_STICKY_STATUSES

\* A charge at the gateway; partly: paid, and a part of it given back.
Gate == {"none", "open", "deleted", "paid", "partly", "refunded"}
MoneyIn == {"paid", "partly", "refunded"}

\* Events, grouped by what the webhook makes of them: created also stands for
\* UPDATED, VIEWED and RESTORED; failed for OVERDUE, DELETED and chargebacks;
\* refunded for REVERSED.  A card is CONFIRMED first and RECEIVED weeks later.
Kinds  == {"created", "confirmed", "received", "failed", "refunded", "partial"}
Events == [charge : Charges, kind : Kinds]
Event(c, k) == [charge |-> c, kind |-> k]

VARIABLES
  walk,   \* its operational_status, whether a plan credit covers it, and a
          \* ghost, hand: somebody asked for that status, or for the search it is
          \* part of, by a route that asks for no payment
  row,    \* the rows of payments of the walk, by order of creation
  gate,   \* the charges at the gateway
  mail,   \* the gateway's events not delivered yet
  task,   \* what each handler in flight holds
  hook    \* what each delivery in flight holds

vars == <<walk, row, gate, mail, task, hook>>

\* What a handler keeps: the rows it read, and what it is about to write: a
\* refund_status of them, a status of the walk; none: nothing.
Steps == {"idle", "regenerate", "charge", "cancel", "write", "expire",
          "expire_commit"}
Task == [at : Steps, rows : SUBSET Charges, refund : Refund,
         walk : WalkStatus \cup {"none"}]
Idle == [at |-> "idle", rows |-> {}, refund |-> "none", walk |-> "none"]

\* lost is a ghost: a recorded payment was overwritten by who had not read it,
\* or an event that would have changed the row was lost in a crash.
Row   == [status : RowStatus, refund : Refund, lost : BOOLEAN]
NoRow == [status |-> "none", refund |-> "none", lost |-> FALSE]

\* A delivery: its event, what it loaded of the row and needs (its refund_status
\* only of a refund), the walk it loaded after that.
Hook   == [at : {"idle", "confirm", "settle"}, charge : Charges \cup {0}, kind : Kinds,
           status : RowStatus, refund : Refund, walk : WalkStatus \cup {"none"}]
NoHook == [at |-> "idle", charge |-> 0, kind |-> "created",
           status |-> "none", refund |-> "none", walk |-> "none"]

Init == /\ walk = [status |-> "awaiting_payment", covered |-> FALSE, hand |-> FALSE]
        /\ row  = [c \in Charges |-> NoRow]
        /\ gate = [c \in Charges |-> "none"]
        /\ mail = {}
        /\ task = [h \in Handlers |-> Idle]
        /\ hook = [w \in Hooks |-> NoHook]

RowsWith(st) == {c \in Charges : row[c].status = st}
Unused       == RowsWith("none")

\* The bound on what is in flight.
Room == Cardinality({h \in Handlers : task[h].at # "idle"})
          + Cardinality({w \in Hooks : hook[w].at # "idle"}) < MaxInFlight

\* _confirmed_payment_for_walk: the latest row that is paid.
IsConfirmedPayment(c) ==
  c \in RowsWith("confirmed") /\ \A d \in RowsWith("confirmed") : d <= c

Moved(st, hand) == walk' = [status |-> st, hand |-> hand,
                            covered |-> walk.covered /\ st # "deleted"]
SetWalk(st)     == Moved(st, FALSE)
SetByHand(st)   == Moved(st, st # "awaiting_payment")
Hold(h, t)      == task' = [task EXCEPT ![h] = t]
Free(h)         == Hold(h, Idle)
HoldHook(w, t)  == hook' = [hook EXCEPT ![w] = t]
FreeHook(w)     == HoldHook(w, NoHook)

\* A column is written when it differs from what was loaded.
Written(new, loaded, now) == IF new = loaded THEN now ELSE new

\* The status of a row is written over what it has become.
Stored(r, st, loaded) ==
  [r EXCEPT !.status = Written(st, loaded, @),
            !.lost = @ \/ /\ r.status \in Sticky /\ r.status # loaded
                          /\ st \notin {loaded, "refunded", r.status}]

----------------------------------------------------------------------------
(* The gateway *)

\* The tutor pays: by card in two events, by Pix in one.
Pay(c) ==
  /\ gate[c] = "open"
  /\ gate' = [gate EXCEPT ![c] = "paid"]
  /\ \/ mail' = mail \cup {Event(c, "received")}
     \/ Twice /\ mail' = mail \cup {Event(c, "confirmed"), Event(c, "received")}
  /\ UNCHANGED <<walk, row, task, hook>>

\* The due date passes: a Pix charge is withdrawn, a card can still be paid.
Lapse(c) ==
  /\ gate[c] = "open"
  /\ \/ gate' = [gate EXCEPT ![c] = "deleted"]
     \/ Late /\ UNCHANGED gate
  /\ mail' = mail \cup {Event(c, "failed")}
  /\ UNCHANGED <<walk, row, task, hook>>

\* cancel_asaas_charge over the stale charges: some of them are still open and
\* are deleted, for the others the call fails; its result is ignored.  (A
\* charge paid between the read and the call is one whose call fails.)
DeleteCharges(stale) ==
  \E gone \in SUBSET {c \in stale : gate[c] = "open"} :
    /\ gate' = [c \in Charges |-> IF c \in gone THEN "deleted" ELSE gate[c]]
    /\ mail' = mail \cup {Event(c, "failed") : c \in gone}

\* refund_asaas_charge: the gateway takes the request or does not; when the
\* answer is lost the caller is told FALSE though the money goes back.
AfterRefund(g, all) == IF all \/ g = "partly" THEN "refunded" ELSE "partly"
AskRefund(c, all, ok) ==
  \/ ~ok /\ UNCHANGED <<gate, mail>>
  \/ LET g == AfterRefund(gate[c], all) IN
     /\ gate[c] \in {"paid", "partly"}
     /\ gate' = [gate EXCEPT ![c] = g]
     /\ mail' = mail \cup
                {Event(c, IF g = "refunded" THEN "refunded" ELSE "partial")}

----------------------------------------------------------------------------
(* create_payment *)

\* The checks, then the pending rows (recent ones are handed back instead) and
\* the deletion of their charges.  Neither the walk's status nor an earlier
\* confirmed payment is looked at.
BeginCreate(h) ==
  /\ task[h].at = "idle" /\ Room /\ ~walk.covered
  /\ LET stale == RowsWith("pending") IN
     /\ Hold(h, [Idle EXCEPT !.rows = stale,
                   !.at = IF stale = {} THEN "charge" ELSE "regenerate"])
     /\ DeleteCharges(stale)
  /\ UNCHANGED <<walk, row, hook>>

\* Mutant of Regenerated: the payment takes the status of a refund.
RegeneratedAsRefunded(stale) ==
  [c \in Charges |-> IF c \in stale THEN Stored(row[c], "refunded", "pending") ELSE row[c]]

\* The rows read before the calls are written, whatever they have become.
Regenerated(stale) ==
  [c \in Charges |-> IF c \in stale THEN Stored(row[c], "regenerated", "pending") ELSE row[c]]

Regenerate(h) ==
  /\ task[h].at = "regenerate"
  /\ row' = Regenerated(task[h].rows)
  /\ Hold(h, [Idle EXCEPT !.at = "charge"])
  /\ UNCHANGED <<walk, gate, mail, hook>>

\* The charge and the row; or the gateway refuses and the handler raises.
Charge(h) ==
  /\ task[h].at = "charge"
  /\ Free(h)
  /\ \/ \E c \in Unused :
          /\ \A d \in Unused : c <= d
          /\ gate' = [gate EXCEPT ![c] = "open"]
          /\ row'  = [row EXCEPT ![c].status = "pending"]
          /\ mail' = mail \cup {Event(c, "created")}
     \/ UNCHANGED <<row, gate, mail>>
  /\ UNCHANGED <<walk, hook>>

----------------------------------------------------------------------------
(* The webhook *)

\* STATUS_BY_WEBHOOK_EVENT; a partial refund is not in it, and falls back to
\* the charge's own status, which is still RECEIVED.
StatusOf == [created |-> "pending", confirmed |-> "confirmed",
             received |-> "confirmed", failed |-> "failed",
             partial |-> "confirmed", refunded |-> "refunded"]

\* Mutant of Resolve: a late event takes a confirmed payment back.
ResolveByEvent(status, kind) == StatusOf[kind]

\* Mutant of Resolve: a regenerated row ignores the payment of its old charge.
ResolveSticky(status, kind) ==
  IF kind = "refunded" THEN "refunded"
  ELSE IF status \in Sticky \cup {"regenerated"} THEN status ELSE StatusOf[kind]

\* Mutant of Resolve: confirmed is left by nothing, a refund included.
ResolveNoRefund(status, kind) ==
  IF status \in Sticky THEN status ELSE StatusOf[kind]

\* Mutant of Resolve: an event that is not in the table has no fallback.
ResolveNoFallback(status, kind) ==
  IF kind = "refunded" THEN "refunded"
  ELSE IF status \in Sticky THEN status
  ELSE IF kind = "partial" THEN "null" ELSE StatusOf[kind]

\* resolve_payment_webhook_status
Resolve(status, kind) ==
  IF kind = "refunded" THEN "refunded"
  ELSE IF status \in Sticky THEN status ELSE StatusOf[kind]

\* Mutant of WalkOnConfirmed: the branch of a cancelled walk is missing.
WalkWaitingOnly(status) ==
  IF status = "awaiting_payment" THEN {"released", "decision"}
  ELSE {status}

\* The walk of a payment that is confirmed after this event: released, or too
\* late for that (cancelled, or past the cut-off) and the tutor's to decide.
WalkOnConfirmed(status) ==
  CASE status = "ride_cancelled"   -> {"decision"}
    [] status = "awaiting_payment" -> {"released", "decision"}
    [] OTHER                       -> {status}

\* An event that carries an id is handled once; without one it may come again.
Taken(e) == \/ mail' = mail \ {e}
            \/ e.kind \in NoIds /\ UNCHANGED mail

\* A refund event, total or partial, closes the cycle of refund_status.
RefundKinds == {"refunded", "partial"}
RefundStatus(refund, kind) == IF kind \in RefundKinds THEN "done" ELSE refund

\* asaas_webhook, the payment of a walk: the event's marker is committed, then
\* the row is read.
BeginWebhook(w, e) ==
  /\ e \in mail /\ hook[w].at = "idle" /\ Room
  /\ Taken(e)
  /\ LET r == row[e.charge]
     IN HoldHook(w, [NoHook EXCEPT !.charge = e.charge, !.kind = e.kind,
                       !.status = r.status,
                       !.refund = IF e.kind \in RefundKinds THEN r.refund ELSE "none",
                       !.at = IF Resolve(r.status, e.kind) = "confirmed"
                              THEN "confirm" ELSE "settle"])
  /\ UNCHANGED <<walk, row, gate, task>>

\* The walk of a payment that is confirmed is read after the row.
ReadWalk(w) ==
  /\ hook[w].at = "confirm"
  /\ HoldHook(w, [hook[w] EXCEPT !.at = "settle", !.walk = walk.status])
  /\ UNCHANGED <<walk, row, gate, mail, task>>

\* The row after the delivery, and whether it writes the walk.
Settled(t) ==
  LET r == Stored(row[t.charge], Resolve(t.status, t.kind), t.status)
  IN [r EXCEPT !.refund = Written(RefundStatus(t.refund, t.kind), t.refund, @)]
MovesWalk(t) == WalkOnConfirmed(t.walk) # {t.walk}

CommitWebhook(w) ==
  LET t == hook[w]
  IN /\ t.at = "settle"
     /\ row' = [row EXCEPT ![t.charge] = Settled(t)]
     /\ IF MovesWalk(t)
        THEN walk.status # "deleted" /\ \E st \in WalkOnConfirmed(t.walk) : SetWalk(st)
        ELSE UNCHANGED walk
     /\ FreeHook(w)
     /\ UNCHANGED <<gate, mail, task>>

\* Mutant of WebhookFails: the marker stays, the event is not delivered again.
WebhookFailsMarked(w) ==
  /\ hook[w].at = "settle" /\ MovesWalk(hook[w]) /\ walk.status = "deleted"
  /\ FreeHook(w)
  /\ UNCHANGED <<walk, row, gate, mail, task>>

\* The walk is gone, the commit fails: the marker is removed, a 500 is answered,
\* and the event delivered again.
WebhookFails(w) ==
  /\ hook[w].at = "settle" /\ MovesWalk(hook[w]) /\ walk.status = "deleted"
  /\ mail' = mail \cup {Event(hook[w].charge, hook[w].kind)}
  /\ FreeHook(w)
  /\ UNCHANGED <<walk, row, gate, task>>

\* The process dies after the marker was committed and before the effect: the
\* redelivery is taken for a duplicate.
WebhookDies(w) ==
  LET t == hook[w]
  IN /\ Crashes /\ t.at # "idle"
     /\ IF t.kind \in NoIds
        THEN mail' = mail \cup {Event(t.charge, t.kind)} /\ UNCHANGED row
        ELSE /\ row' = [row EXCEPT ![t.charge].lost =
                         @ \/ Settled(t) # row[t.charge]]
             /\ UNCHANGED mail
     /\ FreeHook(w)
     /\ UNCHANGED <<walk, gate, task>>

----------------------------------------------------------------------------
(* Cancellation and decision *)

\* process_tutor_cancellation.  PUT /walks/{id}/status asks for no status, the
\* cancel route for one that is not cancelled: the guard is the weaker one.
\* Nothing to refund: a plan walk (its credit is another module's) or no
\* confirmed payment.
CancelUnpaid(h) ==
  /\ task[h].at = "idle" /\ Room /\ walk.status \notin {"ride_cancelled", "deleted"}
  /\ walk.covered \/ RowsWith("confirmed") = {}
  /\ Hold(h, [Idle EXCEPT !.at = "write", !.walk = "ride_cancelled"])
  /\ UNCHANGED <<walk, row, gate, mail, hook>>

\* The refund is asked before anything is written: all of it, or what the late
\* fee leaves; or nothing is asked (auto_refund_on_cancel off, fee of 100%).
BeginCancel(h) ==
  /\ task[h].at = "idle" /\ Room /\ walk.status # "deleted" /\ ~walk.covered
  /\ \E c \in Charges, ok \in BOOLEAN :
       /\ IsConfirmedPayment(c)
       /\ \/ \E all \in BOOLEAN : AskRefund(c, all, ok)
          \/ ok /\ UNCHANGED <<gate, mail>>
       /\ LET new == IF ok THEN "pending" ELSE "failed"
          IN Hold(h, [at     |-> "cancel", rows |-> {c},
                      refund |-> IF new = row[c].refund THEN "none" ELSE new,
                      walk   |-> IF walk.status = "ride_cancelled"
                                 THEN "none" ELSE "ride_cancelled"])
  /\ UNCHANGED <<walk, row, hook>>

CommitCancel(h) ==
  LET t == task[h]
  IN /\ t.at = "cancel"
     /\ row' = [c \in Charges |-> IF c \in t.rows
                  THEN [row[c] EXCEPT !.refund = Written(t.refund, "none", @)]
                  ELSE row[c]]
     /\ walk.status # "deleted"
     /\ IF t.walk = "none" THEN UNCHANGED walk ELSE SetWalk("ride_cancelled")
     /\ Free(h)
     /\ UNCHANGED <<gate, mail, hook>>

\* tutor_decision, refund: a refusal of the gateway is a 502 and changes nothing.
BeginRefund(h) ==
  /\ task[h].at = "idle" /\ Room /\ walk.status = "decision"
  /\ \E c \in Charges, ok \in BOOLEAN :
       /\ IsConfirmedPayment(c)
       /\ AskRefund(c, TRUE, ok)
       /\ IF ok THEN Hold(h, [Idle EXCEPT !.at = "write", !.walk = "ride_cancelled"])
                ELSE UNCHANGED task
  /\ UNCHANGED <<walk, row, hook>>

\* Mutant of DecideAgain: the walk goes back to the search, paid or not.
DecideUnpaid(h) ==
  /\ task[h].at = "idle" /\ Room /\ walk.status = "decision"
  /\ Hold(h, [Idle EXCEPT !.at = "write", !.walk = "released"])
  /\ UNCHANGED <<walk, row, gate, mail, hook>>

\* tutor_decision, reschedule and switch_walker.
DecideAgain(h) ==
  /\ task[h].at = "idle" /\ Room /\ walk.status = "decision"
  /\ Hold(h, [Idle EXCEPT !.at = "write",
                !.walk = IF RowsWith("confirmed") # {} THEN "released" ELSE "awaiting_payment"])
  /\ UNCHANGED <<walk, row, gate, mail, hook>>

\* delete_walk; the payments stay, their walk is gone.
BeginDelete(h) ==
  /\ task[h].at = "idle" /\ Room
  /\ walk.status # "deleted"
  /\ RowsWith("confirmed") = {}
  /\ Hold(h, [Idle EXCEPT !.at = "write", !.walk = "deleted"])
  /\ UNCHANGED <<walk, row, gate, mail, hook>>

\* What was decided on the walk and the payments as read is committed.
CommitWalk(h) ==
  /\ task[h].at = "write" /\ walk.status # "deleted"
  /\ IF task[h].walk = "ride_cancelled" THEN SetByHand("ride_cancelled")
                                         ELSE SetWalk(task[h].walk)
  /\ Free(h)
  /\ UNCHANGED <<row, gate, mail, hook>>

----------------------------------------------------------------------------
(* The walk *)

\* confirm_walk_plan: a conditional UPDATE, which a concurrent change defeats.
PlanConfirmed ==
  /\ walk.status = "awaiting_payment" /\ ~walk.covered
  /\ walk' = [status |-> "released", covered |-> TRUE, hand |-> FALSE]
  /\ UNCHANGED <<row, gate, mail, task, hook>>

\* The search finds nobody, or the exclusive walker does not take the walk.
SearchFails ==
  /\ walk.status = "released"
  /\ walk' = [walk EXCEPT !.status = "decision"]
  /\ UNCHANGED <<row, gate, mail, task, hook>>

\* POST matching/start, rematch, continue_search: the payment is not asked for.
SearchByHand ==
  /\ walk.status # "deleted"
  /\ \E st \in Search : SetByHand(st)
  /\ UNCHANGED <<row, gate, mail, task, hook>>

\* PUT /walks/{id}/status and the admin's PATCH: the status as given.
RawStatus(st) ==
  /\ walk.status # "deleted" /\ st # "deleted"
  /\ SetByHand(st)
  /\ UNCHANGED <<row, gate, mail, task, hook>>

\* _task_expire_unpaid_walks, one at a time: the walk is read, then its pending
\* charges are read and deleted, then both are written.
BeginExpire(h) ==
  /\ task[h].at = "idle" /\ Room /\ walk.status = "awaiting_payment"
  /\ \A g \in Handlers : task[g].at \notin {"expire", "expire_commit"}
  /\ Hold(h, [Idle EXCEPT !.at = "expire"])
  /\ UNCHANGED <<walk, row, gate, mail, hook>>

ExpireCharges(h) ==
  /\ task[h].at = "expire"
  /\ DeleteCharges(RowsWith("pending"))
  /\ Hold(h, [Idle EXCEPT !.at = "expire_commit", !.rows = RowsWith("pending")])
  /\ UNCHANGED <<walk, row, hook>>

CommitExpire(h) ==
  /\ task[h].at = "expire_commit" /\ walk.status # "deleted"
  /\ SetWalk("ride_cancelled")
  /\ row' = Regenerated(task[h].rows)
  /\ Free(h)
  /\ UNCHANGED <<gate, mail, hook>>

\* The UPDATE of a walk that is gone matches no row: the commit fails.
CommitFails(h) ==
  /\ task[h].at \in {"cancel", "write", "expire_commit"}
  /\ walk.status = "deleted"
  /\ Free(h)
  /\ UNCHANGED <<walk, row, gate, mail, hook>>

HandlerDies(h) ==
  /\ Crashes /\ task[h].at # "idle"
  /\ Free(h)
  /\ UNCHANGED <<walk, row, gate, mail, hook>>

----------------------------------------------------------------------------
Gateway == \E c \in Charges : Pay(c) \/ Lapse(c)
Deliver(w) == \/ \E e \in Events : BeginWebhook(w, e)
              \/ ReadWalk(w) \/ CommitWebhook(w) \/ WebhookFails(w) \/ WebhookDies(w)
Handle(h) == \/ BeginCreate(h) \/ Regenerate(h) \/ Charge(h)
             \/ CancelUnpaid(h) \/ BeginCancel(h) \/ CommitCancel(h)
             \/ BeginRefund(h) \/ DecideAgain(h) \/ BeginDelete(h) \/ CommitWalk(h)
             \/ BeginExpire(h) \/ ExpireCharges(h) \/ CommitExpire(h)
             \/ CommitFails(h) \/ HandlerDies(h)
Next == \/ Gateway \/ PlanConfirmed \/ SearchFails \/ SearchByHand
        \/ \E st \in WalkStatus : RawStatus(st)
        \/ \E w \in Hooks : Deliver(w)
        \/ \E h \in Handlers : Handle(h)

Spec == Init /\ [][Next]_vars

\* The gateway sends an event until it is answered with a 200, and what a process
\* has begun it ends.
FairSpec ==
  /\ Spec
  /\ WF_vars(\E w \in Hooks, e \in Events : BeginWebhook(w, e))
  /\ \A w \in Hooks : /\ WF_vars(ReadWalk(w))
                      /\ WF_vars(CommitWebhook(w) \/ WebhookFails(w))

----------------------------------------------------------------------------
(* Properties *)

TypeOK == /\ walk \in [status : WalkStatus, covered : BOOLEAN, hand : BOOLEAN]
          /\ row  \in [Charges -> Row]
          /\ gate \in [Charges -> Gate]
          /\ mail \subseteq Events
          /\ task \in [Handlers -> Task]
          /\ hook \in [Hooks -> Hook]

\* The books claim no money that did not move: a confirmed payment was paid at
\* the gateway, a refunded one was given back, and a refund marked done did
\* happen, at least in part - whatever the order or repetition of the events,
\* and whatever the handlers write over them.
BooksMatchGateway ==
  \A c \in Charges :
    /\ row[c].status = "confirmed" => gate[c] \in MoneyIn
    /\ row[c].status = "refunded"  => gate[c] = "refunded"
    /\ row[c].refund = "done"      => gate[c] \in {"partly", "refunded"}

\* The payment's own way into the search is closed (REQUIRE_PAYMENT_BEFORE_MATCHING):
\* a walk in the search is covered by a plan credit, or a charge of it was really
\* paid, or its search was begun by one of the routes that ask for no payment
\* (matching/start, rematch, a status by hand) - and not merely passed through one.
ReleasedIsPaid ==
  walk.status \in Search =>
    walk.covered \/ walk.hand \/ \E c \in Charges : gate[c] \in MoneyIn

\* In this step somebody writes the row of c by what it was before.
Overtaken(c) ==
  \/ \E w \in Hooks : /\ hook[w].at = "settle" /\ hook'[w].at = "idle"
                       /\ hook[w].charge = c /\ hook[w].status # row[c].status
  \/ \E h \in Handlers : /\ task[h].at \in {"regenerate", "expire_commit"}
                          /\ task'[h].at # task[h].at /\ c \in task[h].rows

\* An event never takes a confirmed payment back, nor a refunded one: only a
\* refund leaves confirmed (R3, resolve_payment_webhook_status).  The other exits
\* are lost updates, which the comment on _PAYMENT_STICKY_STATUSES does not
\* foresee: a regeneration, or an event whose delivery read the row before.
NoRegression ==
  [][\A c \in Charges :
       row[c].status \in Sticky /\ row'[c].status \notin {row[c].status, "refunded"} =>
         Overtaken(c)]_vars

\* In this step a delivery about c commits that read the walk before it became
\* what it is.
WalkOvertaken(c) ==
  \E w \in Hooks : /\ hook[w].at = "settle" /\ hook'[w].at = "idle"
                   /\ hook[w].charge = c /\ hook[w].walk # walk.status

\* Money that arrives moves the walk: whatever the walk went through while the
\* charge was open, the delivery that records the payment does not leave it
\* waiting for payment or cancelled ("Defesa contra RACE, item D"), unless it
\* became so between the delivery's read of the walk and its commit.
MoneyMovesTheWalk ==
  [][\A c \in Charges :
       row[c].status # "confirmed" /\ row'[c].status = "confirmed" =>
         \/ walk'.status \notin {"awaiting_payment", "ride_cancelled"}
         \/ WalkOvertaken(c)]_vars

\* When every event is delivered and every handler done, the books say what the
\* gateway says: confirmed exactly the charges whose money is kept, at least in
\* part, refunded exactly those given back.  The only ways they come apart are a
\* recorded payment written over by who had not read it (a regeneration, or an
\* older event served at the same time) and an event lost between its marker and
\* its effect.
BooksSettle ==
  /\ mail = {}
  /\ \A h \in Handlers : task[h].at = "idle"
  /\ \A w \in Hooks : hook[w].at = "idle"
  => \A c \in Charges : ~row[c].lost =>
       /\ row[c].status = "confirmed" <=> gate[c] \in {"paid", "partly"}
       /\ row[c].status = "refunded"  <=> gate[c] = "refunded"

\* A charge that is paid is recorded as paid, though its row was regenerated or
\* failed before the event came, and though the commit that records it failed
\* ("falha -> marcador some, o reenvio reprocessa"); and money that goes back is
\* recorded as gone back, also when the handler that asked for it was told it
\* failed.  Only a lost update, or a process that dies between marker and effect,
\* loses it.
MoneyIsRecorded ==
  \A c \in Charges :
    /\ gate[c] = "paid" ~> row[c].status \in Sticky \/ row[c].lost
    /\ gate[c] = "refunded" ~> row[c].status = "refunded" \/ row[c].lost

(* What the repository says and the code does not keep. *)

\* A payment that confirms after the cut-off reaches the tutor's menu: a walk
\* nobody asked to cancel is not cancelled with a confirmed payment nobody asked
\* back ("item D").
NoMoneyStuck ==
  walk.status = "ride_cancelled" /\ ~walk.covered /\ ~walk.hand =>
    \A c \in Charges : row[c].status = "confirmed" /\ gate[c] = "paid" =>
      \/ row[c].refund # "none"
      \/ \E h \in Handlers : task[h].at # "idle"

\* TLC need not tell the requests and runs apart, nor the deliveries.
Symmetric == Permutations(Handlers) \cup Permutations(Hooks)
=============================================================================
