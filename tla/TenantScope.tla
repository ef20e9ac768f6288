----------------------------- MODULE TenantScope -----------------------------
(***************************************************************************)
(* Under which tenant a request works: the key it sends (a slug, an id or  *)
(* a host) is looked up once per process and remembered for a while, and   *)
(* every transaction of its session is told the tenant anew, since the     *)
(* setting the row policies read ends with the transaction.                *)
(*                                                                         *)
(* Code: app/services/tenant_resolver_service.py, app/core/database.py,    *)
(* app/core/tenant_session.py and app/dependencies/tenant_scope.py.  One   *)
(* key; time goes in ticks, and a lookup takes at most Patience of them.   *)
(***************************************************************************)
EXTENDS Naturals

CONSTANTS Processes, Handlers,
          Tenants, Default,  \* the tenant of a key nobody has
          Strict,            \* STRICT_TENANT_RESOLUTION: such a key has none
          TTL,               \* TENANT_CACHE_TTL_SECONDS
          Patience,
          MaxChanges         \* how often the key changes hands

ParametersAssumption == /\ Default \in Tenants
                        /\ TTL \in Nat /\ Patience \in Nat /\ MaxChanges \in Nat

VARIABLES
  owner,     \* whose slug the key is, a tenant's or one of its units'
  changes,   \* how often that changed
  ago,       \* ticks since a tenant ceased to be what the key resolves to
  identity,  \* what each process remembers, and for how long
  session    \* of each request: the tenant its session is told (info), and
             \* what its open transaction was told (guc); ghost: what it should be

scopeVars == <<owner, changes, ago, identity, session>>

Nobody == "nobody"
Everyone == "*"
Names == Tenants \cup {Nobody}
Unknown == [of |-> Nobody, left |-> 0]
Idle == [st |-> "idle"]

\* resolve_tenant_from_request: without the strict mode, the default stands in.
Answer(o) == IF o = Nobody /\ ~Strict THEN Default ELSE o

Init == /\ owner \in {Nobody, Default} /\ changes = 0 /\ ago = [t \in Names |-> 0]
        /\ identity = [p \in Processes |-> Unknown]
        /\ session = [h \in Handlers |-> Idle]

\* get_db and get_global_db: the session is told, no transaction is open.
Session(t) == [st |-> "open", info |-> t, guc |-> Nobody, tx |-> FALSE, due |-> t]

\* The middleware: remembered, or to be looked up; the time is taken first.
Arrive(h) == \E p \in Processes :
  /\ session[h] = Idle
  /\ session' = [session EXCEPT ![h] =
       IF identity[p].left > 0 THEN Session(identity[p].of)
       ELSE [st |-> "lookup", at |-> p, age |-> 0]]
  /\ UNCHANGED <<owner, changes, ago, identity>>

\* Mutant of Remembered: the time is taken when the answer is there.
RememberedFrom(c, t) == [of |-> t, left |-> TTL]

\* An answer is remembered from when it was asked for; no answer is not remembered.
Remembered(c, t) == IF t = Nobody \/ c.age >= TTL THEN Unknown
                    ELSE [of |-> t, left |-> TTL - c.age]

\* The query of the lookup, then the cache: between them the request may be held up.
Query(h) == /\ session[h].st = "lookup"
            /\ session' = [session EXCEPT ![h] = [st |-> "answered", at |-> @.at, age |-> @.age,
                                                  of |-> Answer(owner)]]
            /\ UNCHANGED <<owner, changes, ago, identity>>

Remember(h) == LET c == session[h] IN
  /\ c.st = "answered"
  /\ identity' = [identity EXCEPT ![c.at] = IF c.of = Nobody THEN @ ELSE Remembered(c, c.of)]
  /\ session' = [session EXCEPT ![h] = Session(c.of)]
  /\ UNCHANGED <<owner, changes, ago>>

\* A webhook, or a task of the scheduler: get_global_db, global_scope_session.
ArrivePlatform(h) == /\ session[h] = Idle
                     /\ session' = [session EXCEPT ![h] = Session(Everyone)]
                     /\ UNCHANGED <<owner, changes, ago, identity>>

\* A statement: the first of a transaction begins it, and after_begin tells it.
Begun(s) == IF s.tx THEN s ELSE [s EXCEPT !.tx = TRUE, !.guc = s.info]

Statement(h) == /\ session[h].st = "open" /\ ~session[h].tx
                /\ session' = [session EXCEPT ![h] = Begun(@)]
                /\ UNCHANGED <<owner, changes, ago, identity>>

\* Mutant of Told: the open transaction is told, the session is not.
ToldOnce(s, t) == [Begun(s) EXCEPT !.guc = t, !.due = t]

\* set_session_tenant.
Told(s, t) == [Begun([s EXCEPT !.info = t]) EXCEPT !.guc = t, !.due = t]

\* get_admin_tenant_scope: an admin's own tenant, or all for the platform's, or the one
\* they act for.
AdminScope(h) == \E t \in Tenants \cup {Everyone} :
  /\ session[h].st = "open" /\ session' = [session EXCEPT ![h] = Told(@, t)]
  /\ UNCHANGED <<owner, changes, ago, identity>>

\* A commit or a rollback on the way: the setting is gone.
Commit(h) == /\ session[h].st = "open" /\ session[h].tx
             /\ session' = [session EXCEPT ![h].tx = FALSE, ![h].guc = Nobody]
             /\ UNCHANGED <<owner, changes, ago, identity>>

End(h) == /\ session[h] # Idle /\ session' = [session EXCEPT ![h] = Idle]
          /\ UNCHANGED <<owner, changes, ago, identity>>

\* create_tenant, create_unit, patch_unit: nobody drops what is remembered.
KeyChanges == \E o \in Names :
  /\ o # owner /\ changes < MaxChanges
  /\ owner' = o /\ changes' = changes + 1
  /\ ago' = [ago EXCEPT ![Answer(owner)] = 0]
  /\ UNCHANGED <<identity, session>>

IsLooking(c) == c.st \in {"lookup", "answered"}

Tick ==
  /\ \A h \in Handlers : IsLooking(session[h]) => session[h].age < Patience
  /\ identity' = [p \in Processes |-> IF identity[p].left > 1
                                      THEN [identity[p] EXCEPT !.left = @ - 1] ELSE Unknown]
  /\ ago' = [t \in Names |-> IF t = Answer(owner) \/ ago[t] > TTL THEN ago[t] ELSE ago[t] + 1]
  /\ session' = [h \in Handlers |-> IF IsLooking(session[h])
                                    THEN [session[h] EXCEPT !.age = @ + 1] ELSE session[h]]
  /\ UNCHANGED <<owner, changes>>

Next == \/ \E h \in Handlers : \/ Arrive(h) \/ Query(h) \/ Remember(h) \/ ArrivePlatform(h)
                               \/ Statement(h) \/ AdminScope(h) \/ Commit(h) \/ End(h)
        \/ KeyChanges \/ Tick

Spec == Init /\ [][Next]_scopeVars

----------------------------------------------------------------------------
TypeOK == /\ owner \in Names /\ changes \in 0..MaxChanges
          /\ ago \in [Names -> 0..(TTL + 1)]
          /\ identity \in [Processes -> [of : Names, left : 0..TTL]]

\* A transaction works under the tenant its request was last given, however many commits
\* and rollbacks went before, and whatever transaction that was told in.
ScopeHolds == \A h \in Handlers :
  session[h].st = "open" /\ session[h].tx => session[h].guc = session[h].due

\* A process answers for a key with what the database says, or said at most one life of the
\* cache ago, however slow the lookup was.  (That is all: the default that stood in for a
\* tenant about to be created is remembered as long.)
AnswerIsFresh == \A p \in Processes :
  LET e == identity[p] IN e.left > 0 /\ e.of # Answer(owner) => ago[e.of] <= TTL - e.left
=============================================================================
