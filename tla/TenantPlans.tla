----------------------------- MODULE TenantPlans -----------------------------
(***************************************************************************)
(* One tenant's plan: the trial a free tenant starts with, the commission  *)
(* and the limits that follow the plan, and the tutors' subscriptions that *)
(* a plan may not carry.                                                   *)
(*                                                                         *)
(* Code: app/services/tenant_free_plan_service.py, tenant_plan_service.py, *)
(* tenant_units_admin_service.py, the commission of                        *)
(* payment_split_service.py, app/routes/tenants.py and the sweep in        *)
(* app/routes/payments.py.                                                 *)
(***************************************************************************)
EXTENDS Naturals, FiniteSets

CONSTANTS
  Subs,       \* subscriptions tutors may make
  Kinds,      \* what a plan limits: a subset of {"walks", "pets", "units"}
  Cap,        \* FREE_PLAN_WALK_CAP, FREE_PLAN_PETS_PER_TUTOR, max_units_with_addon
  MaxUsed,    \* bound of the model: rows of each kind
  Deals,      \* percentages staff negotiates
  Handlers    \* requests in flight at once

\* What the parameters must be.
ParametersAssumption == Cap \in Nat /\ IsFiniteSet(Handlers) /\ Handlers # {}

VARIABLES
  plan,    \* tenants.plan
  trial,   \* trial_ends_at: not set, ahead or past; stamped is trial_downgraded_at
  rate,    \* commission_percent and commission_is_custom; raced, a ghost: two writers
           \* of them overlapped
  used,    \* rows of each kind that count
  held,    \* ghost: how many there were when the plan last set no limit to them
  tsub,    \* the tutors' subscriptions
  moved,   \* ghost: staff changed the plan
  ticket   \* what each request in flight has read

planVars == <<plan, trial, rate, used, held, tsub, moved, ticket>>

Plans == {"free", "pro", "enterprise"}
Free  == [op |-> "idle"]
NoSub == [st |-> "none", late |-> FALSE]

Init == /\ plan   = "none"
        /\ trial  = [end |-> "none", stamped |-> FALSE]
        /\ rate   = [percent |-> 0, custom |-> FALSE, raced |-> FALSE]
        /\ used   = [k \in Kinds |-> 0]
        /\ held   = [k \in Kinds |-> 0]
        /\ tsub   = [s \in Subs |-> NoSub]
        /\ moved  = FALSE
        /\ ticket = [h \in Handlers |-> Free]

\* effective_tenant_plan
Effective == IF plan = "free" /\ trial.end = "ahead" THEN "pro" ELSE plan

\* commission_default_for_plan
Default(p) == IF p = "free" THEN 20 ELSE IF p = "pro" THEN 10 ELSE 5

\* get_commission_percent: during the trial the configuration's own default gives way.
Charged == IF ~rate.custom /\ plan = "free" /\ trial.end = "ahead" THEN Default("pro")
           ELSE rate.percent

\* enforce_free_plan_walk_cap, enforce_free_plan_pet_limit, enforce_can_add_tenant_unit
Limited(k) == Effective = "free" \/ (k = "units" /\ Effective = "pro")

\* Mutant of Fits: the row over the limit is admitted.
FitsOneMore(k) == Limited(k) => used[k] <= Cap

Fits(k) == Limited(k) => used[k] < Cap

\* plan_blocks_feature, enforce_plan_allows_product_feature
MaySubscribe == Effective # "free"

----------------------------------------------------------------------------
\* create_tenant
CreateTenant(p) ==
  /\ plan = "none"
  /\ plan'  = p
  /\ trial' = [trial EXCEPT !.end = IF p = "free" THEN "ahead" ELSE "none"]
  /\ rate'  = [rate EXCEPT !.percent = Default(p)]
  /\ UNCHANGED <<used, held, tsub, moved, ticket>>

\* While the plan sets no limit, whatever is there is held.
Held(f) == held' = [k \in Kinds |-> IF f[k] THEN used'[k] ELSE held[k]]

TrialEnds ==
  /\ trial.end = "ahead"
  /\ trial' = [trial EXCEPT !.end = "past"]
  /\ UNCHANGED <<plan, rate, used, held, tsub, moved, ticket>>

Begin(h, t) == /\ plan # "none" /\ ticket[h] = Free
               /\ ticket' = [ticket EXCEPT ![h] = t]
               /\ UNCHANGED <<plan, trial, rate, used, held, tsub, moved>>

Leaves(h) == ticket' = [ticket EXCEPT ![h] = Free]

\* The rate that h commits has been read by the others in flight.
Done(h) == ticket' = [g \in Handlers |-> IF g = h \/ ticket[g] = Free THEN Free
                                         ELSE [ticket[g] EXCEPT !.stale = TRUE]]

\* Requests that add a row of a kind: a walk, a pet, a unit (or its reactivation).
BeginAdd(h, k) == Fits(k) /\ used[k] < MaxUsed
                  /\ Begin(h, [op |-> "add", kind |-> k, open |-> ~Limited(k), stale |-> FALSE])

CommitAdd(h) ==
  /\ ticket[h].op = "add"
  /\ LET k == ticket[h].kind
     IN /\ used' = [used EXCEPT ![k] = @ + 1]
        /\ Held([j \in Kinds |-> j = k /\ (ticket[h].open \/ ~Limited(k))])
  /\ Leaves(h) /\ UNCHANGED <<plan, trial, rate, tsub, moved>>

\* A walk is cancelled or the month turns, a pet is removed, a unit deactivated.
Remove(k) ==
  /\ used[k] > 0 /\ used' = [used EXCEPT ![k] = @ - 1]
  /\ Held([j \in Kinds |-> j = k /\ (~Limited(k) \/ held[k] > used[k] - 1)])
  /\ UNCHANGED <<plan, trial, rate, tsub, moved, ticket>>

----------------------------------------------------------------------------
(* The plan and the commission *)

\* update_tenant: the default of the new plan, unless the rate was negotiated.
BeginChange(h, p) == p # plan /\ Begin(h, [op |-> "change", to |-> p, read |-> rate, stale |-> FALSE])

\* Mutant of Recalculated: a negotiated rate follows the plan too.
RecalculatedAlways(r, p) == Default(p)

Recalculated(r, p) == IF r.custom THEN r.percent ELSE Default(p)

\* Only a column that differs from what was read is written.
CommitChange(h) ==
  /\ ticket[h].op = "change"
  /\ LET t == ticket[h]  new == Recalculated(t.read, t.to)
     IN /\ plan' = t.to
        /\ rate' = [rate EXCEPT !.percent = IF new = t.read.percent THEN @ ELSE new,
                                !.raced = @ \/ t.stale]
  /\ moved' = TRUE
  /\ held' = [k \in Kinds |-> used[k]]
  /\ Done(h) /\ UNCHANGED <<trial, used, tsub>>

\* update_payment_config: a percentage that differs is a negotiated one.
BeginDeal(h, v) == Begin(h, [op |-> "deal", to |-> v, read |-> rate, stale |-> FALSE])

CommitDeal(h) ==
  /\ ticket[h].op = "deal"
  /\ LET t == ticket[h]
     IN rate' = IF t.to = t.read.percent
                THEN [rate EXCEPT !.raced = @ \/ t.stale]
                ELSE [percent |-> t.to, custom |-> TRUE, raced |-> rate.raced \/ t.stale]
  /\ Done(h) /\ UNCHANGED <<plan, trial, used, held, tsub, moved>>

----------------------------------------------------------------------------
(* The subscriptions, and the end of the trial *)

\* subscribe: the gate, then the gateway, then the row.
BeginSubscribe(h, s) ==
  /\ MaySubscribe /\ tsub[s] = NoSub
  /\ \A g \in Handlers : ticket[g].op = "subscribe" => ticket[g].sub # s
  /\ Begin(h, [op |-> "subscribe", sub |-> s, stale |-> FALSE])

CommitSubscribe(h) ==
  /\ ticket[h].op = "subscribe"
  /\ tsub' = [tsub EXCEPT ![ticket[h].sub] = [st |-> "active", late |-> ~MaySubscribe]]
  /\ Leaves(h) /\ UNCHANGED <<plan, trial, rate, used, held, moved>>

TutorCancels(s) ==
  /\ tsub[s].st = "active"
  /\ tsub' = [tsub EXCEPT ![s].st = "cancelled"]
  /\ UNCHANGED <<plan, trial, rate, used, held, moved, ticket>>

\* Mutant of Ending: the stamp is all there is to the end of a trial.
EndingNone == {}

\* _cancel_active_tutor_subscriptions
Ending == {s \in Subs : tsub[s].st = "active"}

\* maybe_downgrade_expired_trial, from the sweep or when staff looks at the usage.
BeginSweep(h) ==
  /\ plan = "free" /\ trial.end = "past" /\ ~trial.stamped
  /\ Begin(h, [op |-> "sweep", subs |-> Ending, read |-> rate, stale |-> FALSE])

\* The gateway may fail to end some of them: those stay as they are.
CommitSweep(h) ==
  /\ ticket[h].op = "sweep"
  /\ trial' = [trial EXCEPT !.stamped = TRUE]
  /\ \E failed \in SUBSET ticket[h].subs :
       tsub' = [s \in Subs |-> IF s \in failed THEN [tsub[s] EXCEPT !.late = TRUE]
                               ELSE IF s \in ticket[h].subs THEN [tsub[s] EXCEPT !.st = "cancelled"]
                               ELSE tsub[s]]
  /\ LET r == ticket[h].read
     IN rate' = [rate EXCEPT !.percent = IF r.custom \/ r.percent = Default("free") THEN @
                                         ELSE Default("free"),
                             !.raced = @ \/ ticket[h].stale]
  /\ Done(h) /\ UNCHANGED <<plan, used, held, moved>>

Next == \/ \E p \in Plans : CreateTenant(p) \/ \E h \in Handlers : BeginChange(h, p)
        \/ TrialEnds
        \/ \E k \in Kinds : Remove(k) \/ \E h \in Handlers : BeginAdd(h, k)
        \/ \E s \in Subs : TutorCancels(s) \/ \E h \in Handlers : BeginSubscribe(h, s)
        \/ \E h \in Handlers : \/ \E v \in Deals : BeginDeal(h, v)
                               \/ BeginSweep(h) \/ CommitSweep(h) \/ CommitAdd(h)
                               \/ CommitChange(h) \/ CommitDeal(h) \/ CommitSubscribe(h)

Spec == Init /\ [][Next]_planVars

----------------------------------------------------------------------------
TypeOK == /\ plan \in Plans \cup {"none"}
          /\ trial \in [end : {"none", "ahead", "past"}, stamped : BOOLEAN]
          /\ rate.percent \in {0} \cup {Default(p) : p \in Plans} \cup Deals
          /\ used \in [Kinds -> Nat] /\ held \in [Kinds -> Nat]
          /\ tsub \in [Subs -> [st : {"none", "active", "cancelled"}, late : BOOLEAN]]

\* What the platform keeps is the default of the plan in force, the trial's included,
\* or what was negotiated; unless two writers of the rate overlapped.
CommissionFollowsPlan ==
  plan # "none" /\ ~rate.raced =>
    IF rate.custom THEN Charged \in Deals ELSE Charged = Default(Effective)

\* The limits are counted and then written: requests that overlap may exceed one by
\* as many as are in flight, and never by more; what is there when a limit begins
\* stays.
ExcessIsBounded ==
  \A k \in Kinds : used[k] <= (IF held[k] > Cap THEN held[k] ELSE Cap) + Cardinality(Handlers) - 1

\* "No charge without return": once the end of the trial is stamped no tutor is
\* charged for a subscription the plan has no use for, but those the gateway would
\* not end and those being made meanwhile.
TrialEndsSubscriptions ==
  trial.stamped /\ ~moved => \A s \in Subs : tsub[s].st = "active" => tsub[s].late

\* The plan in force rules the commission, the limits and the tutors' subscriptions.
PlanIsInForce == CommissionFollowsPlan /\ ExcessIsBounded /\ TrialEndsSubscriptions
=============================================================================
