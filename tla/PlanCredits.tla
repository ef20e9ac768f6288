----------------------------- MODULE PlanCredits -----------------------------
(***************************************************************************)
(* The plan of one tutor: the subscriptions taken one after the other, the *)
(* credits each gives per period, the walks they pay for, the bills of the *)
(* gateway's own subscriptions and the webhook that turns bills into       *)
(* credits.                                                                *)
(*                                                                         *)
(* Code: app/services/recurring_plan_service.py, credit_expiry_service.py, *)
(* credit_refund_service.py, the subscription branch of the webhook in     *)
(* app/routes/payments.py, confirm_walk_plan and the cancellations in      *)
(* app/routes/walks.py, the downgrade in tenant_free_plan_service.py.      *)
(*                                                                         *)
(* A handler that loads a subscription and writes it later is split there: *)
(* task[h].read is what it loaded.  The webhook loads the row, then reads  *)
(* it again FOR UPDATE; the session already holds the row, so the lock     *)
(* makes it wait but does not refresh what it loaded (there is no          *)
(* populate_existing).  A commit writes the columns whose value differs    *)
(* from the loaded one.  Spending a credit is one conditional UPDATE.      *)
(* Returning one is split too: whether it is due is decided on the loaded  *)
(* row; only the walk's flag is tested where it is set.                    *)
(*                                                                         *)
(* The gateway (bill, mail) is external.                                   *)
(***************************************************************************)
EXTENDS Naturals, FiniteSets

CONSTANTS
  Handlers,    \* requests, webhooks and sweeps that may be in flight at once
  Walks,       \* walks of the tutor
  Credits,     \* walks_per_cycle
  MaxSubs,     \* bound of the model: subscriptions the tutor takes
  MaxBills,    \* bound of the model: bills per subscription
  MaxPeriods   \* bound of the model: periods per subscription

ASSUME CreditsAssumption == Credits \in Nat \ {0}
ASSUME BoundsAssumption  == {MaxSubs, MaxBills, MaxPeriods} \subseteq Nat
ASSUME WalksAssumption   == IsFiniteSet(Walks)

Subs    == 1 .. MaxSubs
Bills   == 1 .. MaxBills
Periods == 1 .. MaxPeriods

Status == {"none", "active", "overdue", "cancelled"}

\* down: cancel_reason is plan_downgrade; nothing resets it.  over:
\* current_period_end has passed.  broken: there is a breakage entry in the
\* ledger.  reversed: periods with a reversal entry.  Ghosts: again, a webhook that
\* had read the row before the credits were granted granted them once more; stray,
\* the credits returned by a handler that had read an earlier period.
Sub == [status : Status, down : BOOLEAN, granted : BOOLEAN, credits : Nat,
        period : Nat, over : BOOLEAN, broken : BOOLEAN,
        reversed : SUBSET Nat, again : BOOLEAN, stray : Nat]
NoSub  == [status |-> "none", down |-> FALSE, granted |-> FALSE, credits |-> 0,
           period |-> 1, over |-> FALSE, broken |-> FALSE,
           reversed |-> {}, again |-> FALSE, stray |-> 0]
NewSub == [NoSub EXCEPT !.status = "active"]

\* by: subscription_id (0: none).  back: credit_refunded.  older: subscriptions
\* whose current period began after the walk was created.  paidIn is a ghost:
\* the period whose credit was spent.
WalkAt == {"none", "waiting", "covered", "gone"}
Walk   == [at : WalkAt, by : 0 .. MaxSubs, back : BOOLEAN,
           older : SUBSET Subs, paidIn : Nat]
NoWalk == [at |-> "none", by |-> 0, back |-> FALSE, older |-> {}, paidIn |-> 0]

BillState == {"open", "late", "paid", "refunded"}
MoneyIn   == {"paid", "refunded"}
\* Events that do more than write the bill's row of payments.
Kinds  == {"confirmed", "received", "overdue", "refunded"}
Events == [sub : Subs, bill : Bills, kind : Kinds]
Event(s, b, k) == [sub |-> s, bill |-> b, kind |-> k]

VARIABLES
  sub,    \* the rows of tutor_subscriptions
  walk,   \* the tutor's walks
  bill,   \* the gateway's bills of each subscription
  mail,   \* events not delivered yet
  task    \* what each handler in flight holds

vars == <<sub, walk, bill, mail, task>>

Steps == {"idle", "hook", "sweep", "cancel", "downgrade", "subscribe", "return"}
\* kind: of the event at hand.  rows: the subscriptions at hand.  read: what was
\* loaded of each, as far as it is used.  walks: the walk being cancelled.
Loaded == [status : Status, granted : BOOLEAN, credits : Nat, period : Nat]
Load(r) == [status |-> r.status, granted |-> r.granted,
            credits |-> r.credits, period |-> r.period]
Task == [at : Steps, kind : Kinds \cup {"none"}, rows : SUBSET Subs,
         read : [Subs -> Loaded], walks : SUBSET Walks]
Idle == [at |-> "idle", kind |-> "none", rows |-> {},
         read |-> [s \in Subs |-> Load(NoSub)], walks |-> {}]

Init == /\ sub  = [s \in Subs |-> NoSub]
        /\ walk = [w \in Walks |-> NoWalk]
        /\ bill = [s \in Subs |-> [b \in Bills |-> "open"]]
        /\ mail = {}
        /\ task = [h \in Handlers |-> Idle]

Hold(h, t) == task' = [task EXCEPT ![h] = t]
Free(h)    == Hold(h, Idle)
ReadsFor(h, at, kind, rows, walks) ==
  Hold(h, [at |-> at, kind |-> kind, rows |-> rows, walks |-> walks,
           read |-> [s \in Subs |-> Load(IF s \in rows THEN sub[s] ELSE NoSub)]])
Reads(h, at, kind, rows) == ReadsFor(h, at, kind, rows, {})

\* A column is written when it differs from what was loaded.
Written(new, loaded, now) == IF new = loaded THEN now ELSE new

\* get_active_subscription: the active one created last.
Active(s) == /\ sub[s].status = "active"
             /\ \A t \in Subs : sub[t].status = "active" => t <= s

----------------------------------------------------------------------------
(* The gateway *)

\* A bill of a subscription, ahead of time, late, or still open when the
\* subscription is cancelled there.
Payable(s, b) == sub[s].status # "none" /\ bill[s][b] \in {"open", "late"}

\* By card the tutor's payment is CONFIRMED, and RECEIVED a month later.
Pay(s, b) ==
  /\ Payable(s, b)
  /\ bill' = [bill EXCEPT ![s][b] = "paid"]
  /\ mail' = mail \cup {Event(s, b, "confirmed"), Event(s, b, "received")}
  /\ UNCHANGED <<sub, walk, task>>

Overdue(s, b) ==
  /\ Payable(s, b) /\ bill[s][b] = "open"
  /\ bill' = [bill EXCEPT ![s][b] = "late"]
  /\ mail' = mail \cup {Event(s, b, "overdue")}
  /\ UNCHANGED <<sub, walk, task>>

Refund(s, b) ==
  /\ bill[s][b] = "paid"
  /\ bill' = [bill EXCEPT ![s][b] = "refunded"]
  /\ mail' = mail \cup {Event(s, b, "refunded")}
  /\ UNCHANGED <<sub, walk, task>>

\* The end of the current period passes.
Elapse(s) ==
  /\ sub[s].status # "none" /\ ~sub[s].over /\ sub[s].period < MaxPeriods
  /\ sub' = [sub EXCEPT ![s].over = TRUE]
  /\ UNCHANGED <<walk, bill, mail, task>>

----------------------------------------------------------------------------
(* The webhook: _handle_subscription_webhook *)

\* Its row is loaded; everything it decides, it decides on that.
BeginHook(h, e) ==
  /\ task[h].at = "idle" /\ e \in mail /\ sub[e.sub].status # "none"
  /\ mail' = mail \ {e}
  /\ Reads(h, "hook", e.kind, {e.sub})
  /\ UNCHANGED <<sub, walk, bill>>

\* Mutant of MayGrant: a subscription that is not active gets nothing.
MayGrantActive(r) == ~r.granted /\ r.status = "active"

\* grant_credits_on_payment: once per subscription.
MayGrant(r) == ~r.granted

\* reset_credits_if_renewal: the period loaded is over by now.
MayRenew(r, now) == r.status # "cancelled" /\ (now.period > r.period \/ now.over)

\* The payment of a bill: arrears end, the first one grants the credits, one
\* that comes when the period is over renews them.
Paid(r, now) ==
  LET grant == MayGrant(r)
      renew == MayRenew(r, now)
  IN [now EXCEPT
        !.status  = IF r.status = "overdue" THEN "active" ELSE @,
        !.granted = IF grant THEN TRUE ELSE @,
        !.credits = IF grant \/ renew THEN Written(Credits, r.credits, @) ELSE @,
        !.period  = IF renew THEN @ + 1 ELSE @,
        !.over    = IF renew THEN FALSE ELSE @,
        !.again   = IF grant /\ now.granted THEN TRUE ELSE @]

\* reverse_credit_purchase: once per period; nothing when it loaded no credit.
Reversed(r, now) ==
  IF r.period \in now.reversed THEN now
  ELSE [now EXCEPT !.reversed = @ \cup {r.period},
                   !.credits  = IF r.credits > 0 THEN 0 ELSE @]

InArrears(r, now) ==
  IF r.status = "active" THEN [now EXCEPT !.status = "overdue"] ELSE now

After(kind, r, now) ==
  CASE kind \in {"confirmed", "received"} -> Paid(r, now)
    [] kind = "refunded"                  -> Reversed(r, now)
    [] OTHER                              -> InArrears(r, now)

\* A new period makes the walks created so far older than it.
Age(s, new) ==
  walk' = [w \in Walks |->
             IF new > sub[s].period /\ walk[w].at # "none"
             THEN [walk[w] EXCEPT !.older = @ \cup {s}] ELSE walk[w]]

CommitHook(h) ==
  /\ task[h].at = "hook"
  /\ \E s \in task[h].rows :
       LET new == After(task[h].kind, task[h].read[s], sub[s])
       IN /\ sub' = [sub EXCEPT ![s] = new]
          /\ Age(s, new.period)
  /\ Free(h)
  /\ UNCHANGED <<bill, mail>>

----------------------------------------------------------------------------
(* Subscribing and ending *)

\* subscribe_async: the active one, if any, is ended at the gateway first.
BeginSubscribe(h) ==
  /\ task[h].at = "idle"
  /\ Reads(h, "subscribe", "none", {s \in Subs : Active(s)})
  /\ UNCHANGED <<sub, walk, bill, mail>>

\* Mutant of NewRow: the credits come with the subscription, as in subscribe().
NewRowGranted == [NewSub EXCEPT !.credits = Credits, !.granted = TRUE]

\* Created without credits: they come with the first payment.
NewRow == NewSub

\* The new one exists at the gateway: both rows are written.
CommitSubscribe(h) ==
  /\ task[h].at = "subscribe"
  /\ \E s \in Subs :
       /\ sub[s].status = "none" /\ \A t \in Subs : t < s => sub[t].status # "none"
       /\ sub' = [t \in Subs |->
                    IF t = s THEN NewRow
                    ELSE IF t \in task[h].rows THEN [sub[t] EXCEPT !.status = "cancelled"]
                    ELSE sub[t]]
       /\ walk' = [w \in Walks |-> IF walk[w].at = "none" THEN walk[w]
                                   ELSE [walk[w] EXCEPT !.older = @ \cup {s}]]
  /\ Free(h)
  /\ UNCHANGED <<bill, mail>>

\* The gateway does not create it: the local changes are rolled back.
SubscribeFails(h) ==
  /\ task[h].at = "subscribe"
  /\ Free(h)
  /\ UNCHANGED <<sub, walk, bill, mail>>

\* cancel_subscription_async; the gateway's subscription ends first.
BeginCancel(h) ==
  /\ task[h].at = "idle"
  /\ \E s \in Subs : Active(s) /\ Reads(h, "cancel", "none", {s})
  /\ UNCHANGED <<sub, walk, bill, mail>>

\* _recognize_breakage: once per subscription, of the credits it loaded.
Broken(r, now) ==
  IF r.credits > 0 /\ ~now.broken
  THEN [now EXCEPT !.broken = TRUE, !.credits = 0] ELSE now

CommitCancel(h) ==
  /\ task[h].at = "cancel"
  /\ sub' = [s \in Subs |-> IF s \in task[h].rows
               THEN [Broken(task[h].read[s], sub[s]) EXCEPT !.status = "cancelled"]
               ELSE sub[s]]
  /\ Free(h)
  /\ UNCHANGED <<walk, bill, mail>>

\* _cancel_active_tutor_subscriptions: the credits stay, and stay spendable.
BeginDowngrade(h) ==
  /\ task[h].at = "idle"
  /\ LET rows == {s \in Subs : sub[s].status \in {"active", "overdue"}} IN
     /\ rows # {}
     /\ Reads(h, "downgrade", "none", rows)
  /\ UNCHANGED <<sub, walk, bill, mail>>

CommitDowngrade(h) ==
  /\ task[h].at = "downgrade"
  /\ sub' = [s \in Subs |-> IF s \in task[h].rows
               THEN [sub[s] EXCEPT !.status = "cancelled", !.down = TRUE] ELSE sub[s]]
  /\ Free(h)
  /\ UNCHANGED <<walk, bill, mail>>

\* sweep_expired_credits; what already has an entry is left as it is.
BeginSweep(h) ==
  /\ task[h].at = "idle"
  /\ LET rows == {s \in Subs : /\ sub[s].credits > 0 /\ ~sub[s].broken
                               /\ \/ sub[s].status = "cancelled" /\ ~sub[s].down
                                  \/ sub[s].status = "active" /\ sub[s].over} IN
     /\ rows # {}
     /\ Reads(h, "sweep", "none", rows)
  /\ UNCHANGED <<sub, walk, bill, mail>>

\* A second entry violates the unique index, and nothing is written.
CommitSweep(h) ==
  /\ task[h].at = "sweep"
  /\ IF \E s \in task[h].rows : sub[s].broken THEN UNCHANGED sub
     ELSE sub' = [s \in Subs |-> IF s \in task[h].rows
                    THEN Broken(task[h].read[s], sub[s]) ELSE sub[s]]
  /\ Free(h)
  /\ UNCHANGED <<walk, bill, mail>>

----------------------------------------------------------------------------
(* The walks *)

Book(w) ==
  /\ walk[w].at = "none"
  /\ walk' = [walk EXCEPT ![w].at = "waiting"]
  /\ UNCHANGED <<sub, bill, mail, task>>

\* _credit_spendable_predicate
Honoured(s) == \/ sub[s].status = "active"
               \/ sub[s].status = "cancelled" /\ sub[s].down

\* Mutant of Spendable: credits_remaining is not looked at.
SpendableAny(s) == Honoured(s)

Spendable(s) == Honoured(s) /\ sub[s].credits > 0

\* consume_credit_if_available: cancelled ones first, then by creation.
Before(t, s) == \/ sub[t].status = "cancelled" /\ sub[s].status = "active"
                \/ sub[t].status = sub[s].status /\ t < s

\* confirm_walk_plan: the credit is taken and the walk claimed, or neither.
ConfirmPlan(w) ==
  /\ walk[w].at = "waiting"
  /\ \E s \in Subs :
       /\ Spendable(s) /\ \A t \in Subs : Spendable(t) => ~Before(t, s)
       /\ sub'  = [sub EXCEPT ![s].credits = @ - 1]
       /\ walk' = [walk EXCEPT ![w].at = "covered", ![w].by = s,
                               ![w].paidIn = sub[s].period]
  /\ UNCHANGED <<bill, mail, task>>

\* Mutant of Returns: a walk of an earlier period is returned too.
ReturnsAnyPeriod(w) ==
  /\ walk[w].by # 0 /\ ~walk[w].back
  /\ Honoured(walk[w].by)

\* refund_credit_for_walk: the walk holds a credit of the current period of a
\* subscription whose credits are honoured.
Returns(w) ==
  /\ walk[w].by # 0 /\ ~walk[w].back
  /\ Honoured(walk[w].by)
  /\ walk[w].by \notin walk[w].older

\* Cancelled or deleted, perhaps again, and no credit is due: it had none when it
\* was read, the tutor is late, or Returns is false.
CancelWalk(w) ==
  /\ walk[w].at # "none"
  /\ walk' = [walk EXCEPT ![w].at = "gone"]
  /\ UNCHANGED <<sub, bill, mail, task>>

\* Cancelled or deleted in time: its subscription says that the credit is due.
BeginReturn(h, w) ==
  /\ task[h].at = "idle" /\ Returns(w)
  /\ ReadsFor(h, "return", "none", {walk[w].by}, {w})
  /\ UNCHANGED <<sub, walk, bill, mail>>

\* One more credit, in whatever period the subscription is by now.
Returned(r, now) ==
  [now EXCEPT !.credits = @ + 1, !.stray = IF now.period = r.period THEN @ ELSE @ + 1]

\* The flag is set where it is not yet, and whoever sets it adds the credit.
CommitReturn(h) ==
  /\ task[h].at = "return"
  /\ \E w \in task[h].walks, s \in task[h].rows :
       /\ sub'  = IF walk[w].back THEN sub
                  ELSE [sub EXCEPT ![s] = Returned(task[h].read[s], @)]
       /\ walk' = [walk EXCEPT ![w].at = "gone", ![w].back = TRUE]
  /\ Free(h)
  /\ UNCHANGED <<bill, mail>>

----------------------------------------------------------------------------
Gateway == \E s \in Subs, b \in Bills :
             Pay(s, b) \/ Overdue(s, b) \/ Refund(s, b)
Handle(h) == \/ \E e \in Events : BeginHook(h, e)
             \/ CommitHook(h) \/ BeginSubscribe(h) \/ CommitSubscribe(h)
             \/ SubscribeFails(h) \/ BeginCancel(h) \/ CommitCancel(h)
             \/ BeginDowngrade(h) \/ CommitDowngrade(h)
             \/ BeginSweep(h) \/ CommitSweep(h)
             \/ \E w \in Walks : BeginReturn(h, w)
             \/ CommitReturn(h)
Next == \/ Gateway \/ \E s \in Subs : Elapse(s)
        \/ \E w \in Walks : Book(w) \/ ConfirmPlan(w) \/ CancelWalk(w)
        \/ \E h \in Handlers : Handle(h)

Spec == Init /\ [][Next]_vars

----------------------------------------------------------------------------
(* Properties *)

TypeOK == /\ sub  \in [Subs -> Sub]
          /\ walk \in [Walks -> Walk]
          /\ bill \in [Subs -> [Bills -> BillState]]
          /\ mail \subseteq Events
          /\ task \in [Handlers -> Task]

HasPaid(s) == \E b \in Bills : bill[s][b] \in MoneyIn

\* Credits follow money ("anti passeio-gratis"): a walk covered by the plan was
\* paid with a credit of a subscription of which a bill was paid, and a
\* subscription no bill of which was paid has no credit to spend.
CoveredIsPaid ==
  /\ \A w \in Walks : walk[w].by # 0 => HasPaid(walk[w].by)
  /\ \A s \in Subs : sub[s].credits > 0 => HasPaid(s)

\* The walks that hold a credit of the current period of s.
Drawn(s) == {w \in Walks : /\ walk[w].by = s /\ walk[w].paidIn = sub[s].period
                           /\ ~walk[w].back}

\* No period gives more walks than it has credits, whatever is returned, swept,
\* reversed or cancelled meanwhile.  Two crossings add to it, and nothing else: a
\* webhook that granted on a stale read, and, one credit each, the returns that
\* were decided before a renewal and written after it.
NoFreeWalk ==
  \A s \in Subs : ~sub[s].again =>
    sub[s].credits + Cardinality(Drawn(s)) <= Credits + sub[s].stray

\* Once every event is delivered and handled, a subscription of which a bill was
\* paid has had its credits, whatever became of it meanwhile.
PaidIsGranted ==
  mail = {} /\ (\A h \in Handlers : task[h].at = "idle") =>
    \A s \in Subs : HasPaid(s) => sub[s].granted

(* What the repository says and the code does not keep. *)

\* "The second delivery sees the flag already set, and gives up"
\* (grant_credits_on_payment).
GrantedOnce == \A s \in Subs : ~sub[s].again
=============================================================================
