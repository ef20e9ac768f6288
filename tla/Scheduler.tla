------------------------------ MODULE Scheduler ------------------------------
(***************************************************************************)
(* The cycle that every worker starts each half minute and one runs: the   *)
(* reminders of a pending offer, the recovery signals and the retry of     *)
(* pushes, which all remember what they did in rows of the operational     *)
(* log.  Expiry of offers and of unpaid walks is in WalkMatching.          *)
(*                                                                         *)
(* Code: app/services/operational_scheduler_service.py, record_operational *)
(* _log in operational_observability_service.py, push_notifications.py and *)
(* the loop in app/main.py.                                                *)
(***************************************************************************)
EXTENDS Naturals, Sequences, FiniteSets

CONSTANTS
  Workers,       \* processes with a loop of their own
  Offers,        \* pending offers
  Walks,         \* walks that may wait for recovery
  Pushes,        \* notifications whose push fails at first
  MaxReminders,  \* WALK_REQUEST_REMINDER_MAX_COUNT
  LogWindow,     \* rows _recent_log_exists looks back, 20
  RetryBatch,    \* failures one cycle looks at, 10
  MaxSignals,    \* bound: recovery signals of the hour
  MaxCrashes     \* bound: workers that die

ParametersAssumption == /\ "free" \notin Workers /\ IsFiniteSet(Walks)
                        /\ {MaxReminders, LogWindow, RetryBatch} \subseteq Nat

VARIABLES
  lock,     \* who holds the advisory lock, or "free"
  cycle,    \* where each worker is, and the offers left to remind
  offer,    \* age, in reminder intervals, stops counting past the last; sent; logged
  journal,      \* rows of the last hour: signals of walks, failures and retries of pushes
  tried,    \* how often each push was retried
  crashes

schedulerVars == <<lock, cycle, offer, journal, tried, crashes>>

Off == [at |-> "off", todo |-> {}]

Init == /\ lock = "free" /\ cycle = [w \in Workers |-> Off] /\ crashes = 0
        /\ offer = [o \in Offers |-> [open |-> TRUE, age |-> 0, sent |-> 0, logged |-> 0]]
        /\ journal = [signal |-> <<>>, failed |-> <<>>, retried |-> <<>>]
        /\ tried = [n \in Pushes |-> 0]

\* Time passes and an offer is answered; its reminders count by their rows in the log.
Ages(o) == /\ offer[o].age <= MaxReminders /\ offer' = [offer EXCEPT ![o].age = @ + 1]
           /\ UNCHANGED <<lock, cycle, journal, tried, crashes>>
Answered(o) == /\ offer[o].open /\ offer' = [offer EXCEPT ![o].open = FALSE]
               /\ UNCHANGED <<lock, cycle, journal, tried, crashes>>

Failures(n) == {i \in DOMAIN journal.failed : journal.failed[i] = n}

\* _do_send in its thread fails, once for each device.
Fails(n) == /\ tried[n] = 0 /\ Cardinality(Failures(n)) < 2
            /\ journal' = [journal EXCEPT !.failed = Append(@, n)]
            /\ UNCHANGED <<lock, cycle, offer, tried, crashes>>

\* Mutant of MayRun: the lock of the process is taken for the lock of them all.
MayRunAlways(w) == cycle[w] = Off

\* run_operational_scheduler_cycle: _CYCLE_LOCK in the process, pg_try_advisory_lock
\* between them; who does not get it skips.
MayRun(w) == cycle[w] = Off /\ lock = "free"

\* _task_walk_request_reminders reads the offers pending for an interval at least.
Start(w) ==
  /\ MayRun(w) /\ lock' = w
  /\ cycle' = [cycle EXCEPT ![w] = [at |-> "remind",
                 todo |-> {o \in Offers : offer[o].open /\ offer[o].age >= 1}]]
  /\ UNCHANGED <<offer, journal, tried, crashes>>

\* The reminder of each interval, three at most.
Due(o) == offer[o].logged < MaxReminders /\ offer[o].age >= offer[o].logged + 1

\* The push is committed, and only then the row that counts it.
Remind(w) ==
  /\ cycle[w].at = "remind"
  /\ \E o \in cycle[w].todo :
       IF Due(o)
       THEN /\ offer' = [offer EXCEPT ![o].sent = @ + 1]
            /\ cycle' = [cycle EXCEPT ![w] = [at |-> "count", todo |-> @.todo, on |-> o]]
       ELSE /\ cycle' = [cycle EXCEPT ![w].todo = @ \ {o}] /\ UNCHANGED offer
  /\ UNCHANGED <<lock, journal, tried, crashes>>

CountIt(w) ==
  /\ cycle[w].at = "count"
  /\ offer' = [offer EXCEPT ![cycle[w].on].logged = @ + 1]
  /\ cycle' = [cycle EXCEPT ![w] = [at |-> "remind", todo |-> @.todo \ {cycle[w].on}]]
  /\ UNCHANGED <<lock, journal, tried, crashes>>

Max(a, b) == IF a >= b THEN a ELSE b
LastOf(s, n) == {s[i] : i \in Max(1, Len(s) - n + 1)..Len(s)}

\* Mutant of Recent: one row fewer is looked at.
RecentButOne(s) == LastOf(s, LogWindow - 1)

\* _recent_log_exists: the last rows of the kind, as they are committed.
Recent(s) == LastOf(s, LogWindow)

\* The members of S, each once.
InSomeOrder(S) == {f \in [1..Cardinality(S) -> S] : \A i, j \in DOMAIN f : f[i] = f[j] => i = j}

\* _task_recovery_signals: in one transaction, a row for each walk not seen.
Signal(w) ==
  /\ cycle[w].at = "remind" /\ cycle[w].todo = {}
  /\ \E waiting \in SUBSET Walks :
       LET new == waiting \ Recent(journal.signal)
       IN \E order \in InSomeOrder(new) :
            /\ Len(journal.signal) + Cardinality(new) <= MaxSignals
            /\ journal' = [journal EXCEPT !.signal = @ \o order]
  /\ cycle' = [cycle EXCEPT ![w].at = "retry"]
  /\ UNCHANGED <<lock, offer, tried, crashes>>

\* Mutant of Refused: what was retried lately is retried again.
RefusedAgain == {i \in DOMAIN journal.failed : i > Len(journal.failed) - RetryBatch}

\* _task_push_retry looks at the last failures, and at none that was retried lately.
Refused == {i \in DOMAIN journal.failed : /\ i > Len(journal.failed) - RetryBatch
                                          /\ journal.failed[i] \notin Recent(journal.retried)}

\* Each of them is a push of its own; one that fails again is a failure more.
Retry(w) ==
  /\ cycle[w].at = "retry"
  /\ tried' = [n \in Pushes |-> tried[n] + Cardinality(Refused \cap Failures(n))]
  /\ LET todo == {journal.failed[i] : i \in Refused}
     IN \E done \in InSomeOrder(todo), again \in SUBSET todo :
        \E more \in InSomeOrder(again) :
          journal' = [journal EXCEPT !.retried = @ \o done, !.failed = @ \o more]
  /\ cycle' = [cycle EXCEPT ![w] = Off] /\ lock' = "free"
  /\ UNCHANGED <<offer, crashes>>

\* The process dies, or a task raises and is rolled back; the lock goes with it.
Dies(w) ==
  /\ cycle[w] # Off /\ crashes < MaxCrashes
  /\ cycle' = [cycle EXCEPT ![w] = Off] /\ lock' = IF lock = w THEN "free" ELSE lock
  /\ crashes' = crashes + 1 /\ UNCHANGED <<offer, journal, tried>>

Next == \/ \E o \in Offers : Ages(o) \/ Answered(o)
        \/ \E n \in Pushes : Fails(n)
        \/ \E w \in Workers : Start(w) \/ Remind(w) \/ CountIt(w) \/ Signal(w) \/ Retry(w) \/ Dies(w)

Spec == Init /\ [][Next]_schedulerVars

----------------------------------------------------------------------------
TypeOK == /\ lock \in Workers \cup {"free"} /\ tried \in [Pushes -> Nat]
          /\ \A o \in Offers : /\ offer[o].age \in 0..MaxReminders + 1
                               /\ offer[o].logged \in 0..MaxReminders
          /\ \A w \in Workers : cycle[w].at \in {"off", "remind", "count", "retry"}

\* An offer gets one reminder for each interval it has waited and three at most, however
\* many workers run the loop; a worker that died between a push and its row is the
\* exception.
RemindersArePaced ==
  \A o \in Offers : /\ offer[o].sent <= offer[o].age + crashes
                    /\ offer[o].sent <= MaxReminders + crashes

\* A walk is signalled twice within the hour only when more walks than the log window
\* holds were signalled in it.
SignalledOnce ==
  (\E i, j \in DOMAIN journal.signal : i # j /\ journal.signal[i] = journal.signal[j])
    => Cardinality({journal.signal[i] : i \in DOMAIN journal.signal}) > LogWindow

\* A push is retried once for each device that refused it, and not for what the retry
\* itself fails, unless more pushes were retried within the hour than the log window holds.
RetriedOnce == Cardinality({journal.retried[i] : i \in DOMAIN journal.retried}) <= LogWindow =>
  \A n \in Pushes : tried[n] <= Cardinality(Failures(n)) /\ tried[n] <= 2
=============================================================================
