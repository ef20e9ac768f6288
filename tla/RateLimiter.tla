---------------------------- MODULE RateLimiter ----------------------------
(***************************************************************************)
(* One key of a limiter: failed attempts are counted and further ones are  *)
(* turned away for a while.  With Redis the window is fixed; in memory,    *)
(* and while Redis does not answer, it slides.                             *)
(*                                                                         *)
(* Code: app/services/login_rate_limiter.py, as app/routes/auth.py,        *)
(* support_tickets.py and app/services/upload_validation.py use it.        *)
(* Nothing is locked; the attempt itself (a password is verified) lies     *)
(* between the check and the count.                                        *)
(***************************************************************************)
EXTENDS Naturals, FiniteSets

CONSTANTS Handlers,
          MaxFailures,
          Window,    \* window_seconds, in ticks
          WithRedis  \* UPSTASH_REDIS_URL is set

ParametersAssumption == /\ IsFiniteSet(Handlers) /\ MaxFailures \in Nat \ {0}
                        /\ Window \in Nat \ {0} /\ WithRedis \in BOOLEAN

VARIABLES
  up,     \* Redis answers
  redis,  \* the key: its counter, and the ticks it has left
  ages,   \* _failures[key]: how long ago each failure was, and which of its tick
  desk,   \* attempts at work; one that counts holds the list it read
  quiet,  \* ghost: ticks since an attempt was let in or counted
  failed, \* ghost: the failures of the last window
  lost    \* ghost: two threads counted from one list, or the store changed

limitVars == <<up, redis, ages, desk, quiet, failed, lost>>

Idle == [st |-> "idle"]
Empty == [count |-> 0, left |-> 0]

Init == /\ up = WithRedis /\ redis = Empty /\ ages = {}
        /\ desk = [h \in Handlers |-> Idle]
        /\ quiet = 0 /\ failed = {} /\ lost = FALSE

\* Mutant of Recent: what is older is kept.
RecentAll(list) == list

\* _prune_expired_keys, _recent_failures.
Recent(list) == {f \in list : f.age <= Window}

\* Mutant of Blocked: one attempt more is let in.
BlockedLate == IF up THEN redis.count > MaxFailures ELSE Cardinality(Recent(ages)) > MaxFailures

\* is_blocked.
Blocked == IF up THEN redis.count >= MaxFailures ELSE Cardinality(Recent(ages)) >= MaxFailures

\* login, past the check.
LetIn(h) == /\ desk[h] = Idle /\ ~Blocked
            /\ desk' = [desk EXCEPT ![h] = [st |-> "in"]]
            /\ quiet' = 0 /\ UNCHANGED <<up, redis, ages, failed, lost>>

\* clear, after a success.
Clear(h) == /\ desk[h].st = "in" /\ desk' = [desk EXCEPT ![h] = Idle]
            /\ ages' = {} /\ redis' = IF up THEN Empty ELSE redis
            /\ quiet' = 0 /\ failed' = {} /\ UNCHANGED <<up, lost>>

\* EXPIRE nx.
Expiring(r) == IF r.count = 0 THEN Window ELSE r.left

\* recent.append(now): one failure more of this tick.
WithOne(list) == list \cup {[age |-> 0, nth |-> Cardinality({f \in list : f.age = 0})]}

\* What the ghost needs: nothing is claimed once a count was lost.
Failing == IF lost' THEN {} ELSE WithOne(failed)

\* record_failure at Redis: INCR and EXPIRE in one pipeline.
CountThere(h) == /\ desk[h].st = "in" /\ up /\ desk' = [desk EXCEPT ![h] = Idle]
                 /\ redis' = [count |-> redis.count + 1, left |-> Expiring(redis)]
                 /\ quiet' = 0 /\ UNCHANGED <<up, ages, lost>> /\ failed' = Failing

\* record_failure in memory: the list is read, and put back with one more.
BeginCount(h) == /\ desk[h].st = "in" /\ ~up
                 /\ desk' = [desk EXCEPT ![h] = [st |-> "count", read |-> Recent(ages)]]
                 /\ ages' = Recent(ages) /\ UNCHANGED <<up, redis, quiet, failed, lost>>

Count(h) == /\ desk[h].st = "count" /\ desk' = [desk EXCEPT ![h] = Idle]
            /\ ages' = WithOne(desk[h].read)
            /\ lost' = (lost \/ ages # desk[h].read)
            /\ quiet' = 0 /\ failed' = Failing /\ UNCHANGED <<up, redis>>

Aged(list) == {[f EXCEPT !.age = @ + 1] : f \in list}

\* Time passes; an attempt ends within a tick.
Tick == /\ quiet <= Window /\ \A h \in Handlers : desk[h] = Idle
        /\ ages' = {f \in ages : f.age > Window} \cup Aged({f \in ages : f.age <= Window})
        /\ failed' = {f \in Aged(failed) : f.age <= Window}
        /\ redis' = IF redis.left <= 1 THEN Empty ELSE [redis EXCEPT !.left = @ - 1]
        /\ quiet' = quiet + 1 /\ UNCHANGED <<up, desk, lost>>

\* Redis stops answering, or answers again: counts are not carried over.
Switch == /\ WithRedis /\ up' = ~up /\ lost' = TRUE /\ failed' = {}
          /\ redis.count <= MaxFailures /\ Cardinality(ages) <= MaxFailures   \* bounds
          /\ UNCHANGED <<redis, ages, desk, quiet>>

\* The process starts anew.
Restart == /\ ages' = {} /\ desk' = [h \in Handlers |-> Idle] /\ lost' = TRUE
           /\ failed' = {} /\ UNCHANGED <<up, redis, quiet>>

Next == \/ \E h \in Handlers : LetIn(h) \/ Clear(h) \/ CountThere(h) \/ BeginCount(h) \/ Count(h)
        \/ Tick \/ Switch \/ Restart

Spec == Init /\ [][Next]_limitVars

----------------------------------------------------------------------------
Ages(list) == \A f \in list : f.age \in 0..(Window + 1)

TypeOK == /\ redis.count \in Nat /\ redis.left \in 0..Window /\ Ages(ages) /\ Ages(failed)

\* What passes a limiter that counts right: those below the limit, and whoever was in.
Most == MaxFailures - 1 + Cardinality(Handlers)

\* Within one window no more attempts fail than that - twice as many with Redis, whose window
\* is fixed - unless a count was lost or the store changed.
AttemptsAreBounded == ~lost => /\ redis.count <= Most
                               /\ Cardinality(failed) <= IF WithRedis THEN 2 * Most ELSE Most

\* Who was turned away is let in again once a window has passed since the last attempt that
\* was not, whichever store counted, and however often it changed.
BlockEnds == quiet > Window => ~Blocked
=============================================================================
