----------------------------- MODULE CostAlerts -----------------------------
(***************************************************************************)
(* One cost alert: a budget per period with thresholds, which its owner    *)
(* edits, pauses and resumes, and which the scheduler evaluates.           *)
(*                                                                         *)
(* Code: app/services/cost_alert_service.py, app/routes/cost_alerts.py and *)
(* app/models/cost_alert.py.  An event is flushed, its owner is told, and  *)
(* only then is it committed; the commit makes the session forget the      *)
(* alert, which is read again for the next event.                          *)
(***************************************************************************)
EXTENDS Naturals

CONSTANTS Handlers,               \* requests of the owner in flight at once
          Budgets, Thresholds,    \* units; percents of the budget
          MaxSpend, MaxPeriods, MaxVersion, MaxCrashes

ParametersAssumption == /\ {MaxSpend, MaxCrashes} \subseteq Nat
                        /\ {MaxPeriods, MaxVersion} \subseteq Nat \ {0}

VARIABLES
  alert,    \* budget, version (config_version), and whether it is active
  spent,    \* the period at hand, and how much was spent in it
  events,   \* committed rows of cost_alert_events; ghost: the budget they were about
  told,     \* how often the owner was told of each event
  sweep,    \* of the alert as evaluated: what it hit, still to be told
  edit,     \* the configuration each request has loaded, and the one it writes
  crossed,  \* ghost: an edit came between the reads and the writes of another, or of a sweep
  crashes

alertVars == <<alert, spent, events, told, sweep, edit, crossed, crashes>>

Kinds == {"actual", "forecast"}
Keys == [period : 1..MaxPeriods, threshold : Thresholds, kind : Kinds, version : 1..MaxVersion]
NoSweep == [st |-> "idle", todo |-> {}]
NoEdit == [st |-> "idle"]

Init == /\ alert \in [budget : Budgets, version : {1}, on : {TRUE}]
        /\ spent = [period |-> 1, sum |-> 0]
        /\ events = {} /\ told = [k \in Keys |-> 0]
        /\ sweep = NoSweep /\ edit = [h \in Handlers |-> NoEdit]
        /\ crossed = FALSE /\ crashes = 0

\* forecast_amount: the spending goes on as it did; f is the whole period over what is past,
\* or 0 too early to tell.
Projected(f) == f * spent.sum

\* crossed_thresholds.
Hits(f) == {x \in Thresholds \X Kinds :
  LET sum == IF x[2] = "actual" THEN spent.sum ELSE Projected(f)
  IN /\ spent.sum > 0 /\ 100 * sum >= x[1] * alert.budget
     /\ x[2] = "forecast" => x[1] >= 100}

BeginSweep == \E f \in 0..2 :
  /\ sweep = NoSweep /\ alert.on
  /\ sweep' = [st |-> "sweep", hit |-> Hits(f), todo |-> Hits(f), period |-> spent.period,
               budget |-> alert.budget, version |-> alert.version, at |-> <<>>]
  /\ UNCHANGED <<alert, spent, events, told, edit, crossed, crashes>>

KeyOf(x, v) == [period |-> sweep.period, threshold |-> x[1], kind |-> x[2], version |-> v]
Recorded == {e.key : e \in events}

\* Mutant of IsNew: the kind is not part of the index.
IsNewOfAnyKind(k) == \A r \in Recorded : r # [k EXCEPT !.kind = r.kind]

\* The unique index is the dedupe.
IsNew(k) == k \notin Recorded

\* In order of thresholds; one that is recorded is passed over.
Fire == \E x \in sweep.todo : LET k == KeyOf(x, sweep.version) IN
  /\ sweep.st = "sweep" /\ \A y \in sweep.todo : y[1] >= x[1]
  /\ IF IsNew(k)
     THEN /\ told' = [told EXCEPT ![k] = @ + 1]
          /\ sweep' = [sweep EXCEPT !.st = "flushed", !.todo = @ \ {x}, !.at = x]
     ELSE /\ sweep' = [sweep EXCEPT !.todo = @ \ {x}] /\ UNCHANGED told
  /\ UNCHANGED <<alert, spent, events, edit, crossed, crashes>>

\* The commit, and the alert as read again.
CommitEvent == /\ sweep.st = "flushed"
               /\ events' = events \cup {[key |-> KeyOf(sweep.at, sweep.version), budget |-> sweep.budget]}
               /\ sweep' = [sweep EXCEPT !.st = "sweep", !.version = alert.version, !.at = <<>>]
               /\ UNCHANGED <<alert, spent, told, edit, crossed, crashes>>

EndSweep == /\ sweep.st = "sweep" /\ sweep.todo = {}
            /\ sweep' = NoSweep
            /\ UNCHANGED <<alert, spent, events, told, edit, crossed, crashes>>

\* The worker dies, or the evaluation fails: what is not committed is rolled back.
SweepDies == /\ sweep.st \in {"sweep", "flushed"} /\ crashes < MaxCrashes
             /\ sweep' = NoSweep /\ crashes' = crashes + 1
             /\ UNCHANGED <<alert, spent, events, told, edit, crossed>>

\* Mutant of Bumped: what changes keeps its version.
BumpedNever(a, b) == [a EXCEPT !.budget = b]

\* update_alert, update_tutor_alert: only a change of what is evaluated makes a version.
Bumped(a, b) == IF a.budget = b THEN a ELSE [a EXCEPT !.budget = b, !.version = @ + 1]

BeginEdit(h) == \E b \in Budgets :
  /\ edit[h] = NoEdit /\ Bumped(alert, b).version <= MaxVersion
  /\ edit' = [edit EXCEPT ![h] = [st |-> "edit", read |-> alert, new |-> Bumped(alert, b)]]
  /\ UNCHANGED <<alert, spent, events, told, sweep, crossed, crashes>>

\* Columns that did not change are not written.
CommitEdit(h) == LET e == edit[h] IN
  /\ e.st = "edit"
  /\ alert' = [c \in DOMAIN alert |-> IF e.new[c] = e.read[c] THEN alert[c] ELSE e.new[c]]
  /\ edit' = [edit EXCEPT ![h] = NoEdit]
  /\ crossed' = (crossed \/ (e.new # e.read /\ (alert # e.read \/ sweep.st \in {"sweep", "flushed"})))
  /\ UNCHANGED <<spent, events, told, sweep, crashes>>

\* pause_alert, resume_alert.
Switch == /\ alert' = [alert EXCEPT !.on = ~@]
          /\ UNCHANGED <<spent, events, told, sweep, edit, crossed, crashes>>

\* A commission or a payment, or its refund.
Spend == \E n \in 0..MaxSpend : /\ n # spent.sum /\ spent' = [spent EXCEPT !.sum = n]
                                /\ UNCHANGED <<alert, events, told, sweep, edit, crossed, crashes>>

NextPeriod == /\ spent.period < MaxPeriods
              /\ spent' = [period |-> spent.period + 1, sum |-> 0]
              /\ UNCHANGED <<alert, events, told, sweep, edit, crossed, crashes>>

Next == \/ BeginSweep \/ Fire \/ CommitEvent \/ EndSweep \/ SweepDies
        \/ \E h \in Handlers : BeginEdit(h) \/ CommitEdit(h)
        \/ Switch \/ Spend \/ NextPeriod

Spec == Init /\ [][Next]_alertVars

----------------------------------------------------------------------------
TypeOK == /\ alert \in [budget : Budgets, version : 1..MaxVersion, on : BOOLEAN]
          /\ spent \in [period : 1..MaxPeriods, sum : 0..MaxSpend]
          /\ \A e \in events : e.key \in Keys /\ e.budget \in Budgets
          /\ crashes \in 0..MaxCrashes

\* Nobody is told twice of a threshold, but for a death between the telling and the commit;
\* and what an evaluation found crossed was told by its end for that budget, in that period -
\* unless an edit crossed it: a hit of the old budget is then recorded under the version of
\* the new one, or two edits share a version, and what is crossed later is kept silent.
AlertsAreTold ==
  /\ \A k \in Keys : told[k] <= 1 + crashes
  /\ sweep.st = "sweep" /\ sweep.todo = {} /\ ~crossed =>
       \A x \in sweep.hit : \E e \in events :
         e.budget = sweep.budget /\ e.key = KeyOf(x, e.key.version)
=============================================================================
