----------------------------- MODULE ConfigCache -----------------------------
(***************************************************************************)
(* The configuration of a tenant as the app is told it: read from the      *)
(* replica, kept for a while in Redis, or in the process while Redis does  *)
(* not answer, and dropped when the branding is edited.                    *)
(*                                                                         *)
(* Code: app/core/data_cache.py, get_tenant_app_config in                  *)
(* app/services/tenant_app_config_service.py, and the branding route.      *)
(* Time goes in ticks; a request takes at most Patience of them, and the   *)
(* replica lags at most Lag.                                               *)
(***************************************************************************)
EXTENDS Naturals

CONSTANTS Workers,     \* processes, each with a fallback of its own
          Handlers,    \* requests in flight at once
          TTL,         \* APP_CONFIG_CACHE_TTL_SECONDS
          Patience, Lag,
          MaxEdits     \* how often the configuration changes

ParametersAssumption == /\ TTL \in Nat /\ Patience \in Nat
                        /\ Lag \in Nat /\ MaxEdits \in Nat

VARIABLES
  version,   \* of the configuration, as committed
  gone,      \* ticks since each version was superseded
  replica,   \* the version the replica has
  redis,     \* the entry of Redis: version and ticks left
  up,        \* Redis answers
  fallback,  \* the entry of each process
  reading    \* of each request: the process, the version read, for how long

configVars == <<version, gone, replica, redis, up, fallback, reading>>

Versions == 0..MaxEdits
Tolerated == TTL + Patience + Lag
None == [of |-> 0, left |-> 0]
Entry(v) == [of |-> v, left |-> TTL]
Idle == [st |-> "idle"]

IsHit(e) == e.left > 0

Init == /\ version = 0 /\ gone = [v \in Versions |-> 0] /\ replica = 0
        /\ redis = None /\ up = TRUE /\ fallback = [w \in Workers |-> None]
        /\ reading = [h \in Handlers |-> Idle]

\* What get_json finds: in Redis when it answers, in the process when it does not.
Found(w) == IF up THEN redis ELSE fallback[w]

\* A miss: the configuration is read from the replica.
BeginRead(h) == \E w \in Workers :
  /\ reading[h] = Idle /\ ~IsHit(Found(w))
  /\ reading' = [reading EXCEPT ![h] = [st |-> "read", at |-> w, of |-> replica, age |-> 0]]
  /\ UNCHANGED <<version, gone, replica, redis, up, fallback>>

\* set_json, where Redis answers or not by then.
Store(h) ==
  /\ reading[h].st = "read"
  /\ IF up THEN redis' = Entry(reading[h].of) /\ UNCHANGED fallback
           ELSE /\ fallback' = [fallback EXCEPT ![reading[h].at] = Entry(reading[h].of)]
                /\ UNCHANGED redis
  /\ reading' = [reading EXCEPT ![h] = Idle]
  /\ UNCHANGED <<version, gone, replica, up>>

\* update_current_branding commits; features, units and the plan change without more ado.
Edit(h) == \E w \in Workers, st \in {"edited", "idle"} :
  /\ reading[h] = Idle /\ version < MaxEdits
  /\ version' = version + 1
  /\ reading' = [reading EXCEPT ![h] = IF st = "idle" THEN Idle
                                       ELSE [st |-> st, at |-> w, of |-> version', age |-> 0]]
  /\ UNCHANGED <<gone, replica, redis, up, fallback>>

\* delete: in Redis if it answers, and in this process.
Invalidate(h) ==
  /\ reading[h].st = "edited"
  /\ redis' = IF up THEN None ELSE redis
  /\ fallback' = [fallback EXCEPT ![reading[h].at] = None]
  /\ reading' = [reading EXCEPT ![h] = Idle]
  /\ UNCHANGED <<version, gone, replica, up>>

\* The request, or its process, dies on the way.
Drop(h) == /\ reading[h] # Idle /\ reading' = [reading EXCEPT ![h] = Idle]
           /\ UNCHANGED <<version, gone, replica, redis, up, fallback>>

Replicate == /\ replica < version /\ replica' = replica + 1
             /\ UNCHANGED <<version, gone, redis, up, fallback, reading>>

Outage == up' = ~up /\ UNCHANGED <<version, gone, replica, redis, fallback, reading>>

\* Mutant of Older: the last tick never ends.
OlderKept(e) == IF e.left > 1 THEN [e EXCEPT !.left = @ - 1] ELSE e

\* Redis drops an entry at its expiry, get drops the fallback's.
Older(e) == IF e.left > 1 THEN [e EXCEPT !.left = @ - 1] ELSE None

Tick ==
  /\ \A h \in Handlers : reading[h] # Idle => reading[h].age < Patience
  /\ replica < version => gone[replica] < Lag
  /\ gone' = [v \in Versions |-> IF v < version /\ gone[v] <= Tolerated THEN gone[v] + 1
                                 ELSE gone[v]]
  /\ redis' = Older(redis) /\ fallback' = [w \in Workers |-> Older(fallback[w])]
  /\ reading' = [h \in Handlers |-> IF reading[h] = Idle THEN Idle
                                    ELSE [reading[h] EXCEPT !.age = @ + 1]]
  /\ UNCHANGED <<version, replica, up>>

Next == \/ \E h \in Handlers : BeginRead(h) \/ Store(h) \/ Edit(h) \/ Invalidate(h) \/ Drop(h)
        \/ Replicate \/ Outage \/ Tick

Spec == Init /\ [][Next]_configVars

----------------------------------------------------------------------------
TypeOK == /\ version \in Versions /\ replica \in 0..version /\ up \in BOOLEAN
          /\ gone \in [Versions -> 0..(Tolerated + 1)]
          /\ redis \in [of : Versions, left : 0..TTL]
          /\ fallback \in [Workers -> [of : Versions, left : 0..TTL]]

\* Whatever is lost, late or down - an invalidation that crossed a read, a replica behind, an
\* entry of an outage before the last - no process serves from the cache a configuration
\* superseded longer ago than a life in the cache, the read before it and the lag.
StaleIsBounded == \A w \in Workers : IsHit(Found(w)) => gone[Found(w).of] <= Tolerated
=============================================================================
