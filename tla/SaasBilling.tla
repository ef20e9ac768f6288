----------------------------- MODULE SaasBilling -----------------------------
(***************************************************************************)
(* The monthly fee of one tenant: the staff start and cancel its           *)
(* subscription, the gateway bills it, its events mark the row overdue or  *)
(* paid, a sweep suspends the tenant that stays in arrears and a payment   *)
(* restores it.                                                            *)
(*                                                                         *)
(* Code: app/services/tenant_saas_billing_service.py, its routes and       *)
(* update_tenant in app/routes/tenants.py, the SaaS branch of the webhook  *)
(* and the sweep in app/routes/payments.py, cancel_asaas_subscription, and *)
(* the partial unique index of app/models/tenant_saas_subscription.py.     *)
(*                                                                         *)
(* start_subscription and cancel_subscription are coroutines: each awaits  *)
(* the gateway on the event loop of its process, and calls the database    *)
(* synchronously on it.  Between the flush and the commit of a start the   *)
(* index keeps other inserts of the tenant waiting.                        *)
(***************************************************************************)
EXTENDS Naturals, FiniteSets

CONSTANTS
  Subs,      \* rows of tenant_saas_subscriptions that may be made
  Staff      \* requests in flight at once, each on the loop of a process of its own

Live == {"active", "overdue"}

VARIABLES
  sub,       \* the status of the rows
  gw,        \* what the gateway has for each row
  tenant,    \* plan, status, suspended_reason
  req,       \* what each request in flight holds
  news,      \* events not delivered yet
  odd        \* ghosts: rows that a failed request or a late event left live without
             \* a gateway subscription; subscriptions whose answer was lost

saasVars == <<sub, gw, tenant, req, news, odd>>

Status == {"none", "active", "overdue", "cancelled"}
Gone   == "none"
ReqAt  == {"idle", "start", "cancel", "ready", "waits", "flushed"}
Req    == [at : ReqAt, old : Subs \cup {Gone}, new : Subs \cup {Gone}]
NoReq  == [at |-> "idle", old |-> Gone, new |-> Gone]
Bills  == {"overdue", "paid"}

\* No row is called as the absence of one.
SubsAssumption == Gone \notin Subs

Init == /\ sub    = [s \in Subs |-> "none"]
        /\ gw     = [s \in Subs |-> "none"]
        /\ tenant = [free |-> FALSE, st |-> "active", why |-> "none"]
        /\ req    = [h \in Staff |-> NoReq]
        /\ news   = {}
        /\ odd    = [left |-> {}, lost |-> {}]

LiveRows == {s \in Subs : sub[s] \in Live}

\* The request whose flushed row holds the index.
Holders == {h \in Staff : req[h].at = "flushed"}

Step(h, from, r) == req[h].at = from /\ req' = [req EXCEPT ![h] = r]

----------------------------------------------------------------------------
(* start_subscription and cancel_subscription *)

\* The row to replace is read, active or overdue.  The customer is there already.
BeginStart(h, s) ==
  /\ ~tenant.free
  /\ sub[s] = "none" /\ gw[s] = "none" /\ \A g \in Staff : req[g].new # s
  /\ \E old \in IF LiveRows = {} THEN {Gone} ELSE LiveRows :
       Step(h, "idle", [at |-> IF old = Gone THEN "ready" ELSE "start", old |-> old, new |-> s])
  /\ UNCHANGED <<sub, gw, tenant, news, odd>>

\* Only an active row is found.
BeginCancel(h) ==
  /\ \E old \in {s \in Subs : sub[s] = "active"} :
       Step(h, "idle", [at |-> "cancel", old |-> old, new |-> Gone])
  /\ UNCHANGED <<sub, gw, tenant, news, odd>>

\* cancel_asaas_subscription answers; one that is gone is no error.
EndedAtGateway(h) ==
  /\ Step(h, "start", [req[h] EXCEPT !.at = "ready"])
  /\ gw'  = [gw EXCEPT ![req[h].old] = "ended"]
  /\ UNCHANGED <<sub, tenant, news, odd>>

\* cancel_subscription commits over whatever the row became; it waits for a start
\* that has flushed the row.
CancelCommits(h) ==
  LET held == \E g \in Holders : req[g].old = req[h].old
  IN /\ \/ Step(h, "cancel", IF held THEN [req[h] EXCEPT !.at = "waits"] ELSE NoReq)
        \/ req[h].at = "waits" /\ req[h].new = Gone /\ ~held /\ req' = [req EXCEPT ![h] = NoReq]
     /\ gw'  = [gw EXCEPT ![req[h].old] = "ended"]
     /\ sub' = [sub EXCEPT ![req[h].old] = IF held THEN @ ELSE "cancelled"]
     /\ UNCHANGED <<tenant, news, odd>>

\* The gateway fails, before or after it ended the subscription.
EndFails(h, ended) ==
  /\ \E at \in {"start", "cancel"} : Step(h, at, NoReq)
  /\ gw'  = [gw EXCEPT ![req[h].old] = IF ended THEN "ended" ELSE @]
  /\ odd' = [odd EXCEPT !.left = IF ended THEN @ \cup {req[h].old} ELSE @]
  /\ UNCHANGED <<sub, tenant, news>>

\* Mutant of Taken: there is no index.
TakenNever(h) == req[h].new \notin Subs

\* uq_tenant_saas_subscriptions_active_per_tenant: another live row is committed.
Taken(h) == LiveRows \ {req[h].old} # {}

\* Mutant of Flush: the rows are committed before the gateway is asked.
FlushAndCommit(h) ==
  /\ Step(h, "ready", [req[h] EXCEPT !.at = "flushed"])
  /\ Holders = {} /\ ~Taken(h)
  /\ sub' = [s \in Subs |-> IF s = req[h].new THEN "active"
                            ELSE IF s = req[h].old THEN "cancelled" ELSE sub[s]]
  /\ UNCHANGED <<gw, tenant, news, odd>>

\* The flush: the old row ends and the new one is there, uncommitted.  It waits for
\* a row that another request has flushed.
Flush(h) ==
  /\ Step(h, "ready", [req[h] EXCEPT !.at = IF Holders # {} THEN "waits" ELSE "flushed"])
  /\ ~Taken(h)
  /\ UNCHANGED <<sub, gw, tenant, news, odd>>

Resume(h) ==
  /\ req[h].at = "waits" /\ req[h].new # Gone /\ Holders = {} /\ ~Taken(h)
  /\ req' = [req EXCEPT ![h].at = "flushed"]
  /\ UNCHANGED <<sub, gw, tenant, news, odd>>

\* The old row stays, and was ended at the gateway.
Left(h) == IF req[h].old \in LiveRows THEN {req[h].old} ELSE {}

\* The index refuses the row.
Conflict(h) ==
  /\ \/ req[h].at = "ready"
     \/ req[h].at = "waits" /\ req[h].new # Gone /\ Holders = {}
  /\ Taken(h)
  /\ req' = [req EXCEPT ![h] = NoReq]
  /\ odd' = [odd EXCEPT !.left = @ \cup Left(h)]
  /\ UNCHANGED <<sub, gw, tenant, news>>

\* create_asaas_subscription_native: refused, or made and its answer lost.
CreateFails(h, made) ==
  /\ Step(h, "flushed", NoReq)
  /\ gw'  = [gw EXCEPT ![req[h].new] = IF made THEN "live" ELSE @]
  /\ odd' = [odd EXCEPT !.left = @ \cup Left(h),
                        !.lost = IF made THEN @ \cup {req[h].new} ELSE @]
  /\ UNCHANGED <<sub, tenant, news>>

StartCommits(h) ==
  /\ Step(h, "flushed", NoReq)
  /\ gw'  = [gw EXCEPT ![req[h].new] = "live"]
  /\ sub' = [s \in Subs |-> IF s = req[h].new THEN "active"
                            ELSE IF s = req[h].old THEN "cancelled"
                            ELSE sub[s]]
  /\ UNCHANGED <<tenant, news, odd>>

----------------------------------------------------------------------------
(* The gateway and its events *)

\* A bill falls due or is paid; those of a subscription that ended may still be.
Emit(s, e) == /\ gw[s] # "none" /\ <<s, e>> \notin news
              /\ news' = news \cup {<<s, e>>}
              /\ UNCHANGED <<sub, gw, tenant, req, odd>>

\* A payment ends the suspension that the arrears caused.
Restored(t) == IF t.st = "suspended" /\ t.why = "billing"
               THEN [free |-> t.free, st |-> "active", why |-> "none"] ELSE t

\* _handle_tenant_saas_subscription_webhook, whatever the row was: a cancelled row
\* lives again, unless the index refuses it and the event comes back later.  An
\* event of a row that was rolled back has no effect.
Deliver(s, e) ==
  /\ <<s, e>> \in news
  /\ sub[s] = "none" \/ Holders \cup (LiveRows \ {s}) = {}
  /\ news' = news \ {<<s, e>>}
  /\ IF sub[s] = "none" THEN UNCHANGED <<sub, tenant, odd>>
     ELSE /\ sub' = [sub EXCEPT ![s] = IF e = "overdue" THEN "overdue" ELSE "active"]
          /\ tenant' = IF e = "paid" THEN Restored(tenant) ELSE tenant
          /\ odd' = [odd EXCEPT !.left = IF sub[s] = "cancelled" THEN @ \cup {s} ELSE @]
  /\ UNCHANGED <<gw, req>>

\* sweep_overdue_tenants, when the days of grace are over.
Sweep == /\ \E s \in Subs : sub[s] = "overdue"
         /\ ~tenant.free /\ tenant.st \notin {"suspended", "paused"}
         /\ tenant' = [tenant EXCEPT !.st = "suspended", !.why = "billing"]
         /\ UNCHANGED <<sub, gw, req, news, odd>>

\* update_tenant writes plan and status, and leaves suspended_reason alone.
SetStatus(st) == /\ tenant' = [tenant EXCEPT !.st = st]
                 /\ UNCHANGED <<sub, gw, req, news, odd>>
SetPlan(free) == /\ tenant' = [tenant EXCEPT !.free = free]
                 /\ UNCHANGED <<sub, gw, req, news, odd>>

----------------------------------------------------------------------------
OfRequest(h) == \/ \E s \in Subs : BeginStart(h, s)
                \/ BeginCancel(h) \/ EndedAtGateway(h) \/ CancelCommits(h)
                \/ Flush(h) \/ Resume(h) \/ Conflict(h) \/ StartCommits(h)
                \/ \E b \in BOOLEAN : EndFails(h, b) \/ CreateFails(h, b)

Next == \/ \E h \in Staff : OfRequest(h)
        \/ \E s \in Subs : \E e \in Bills : Emit(s, e) \/ Deliver(s, e)
        \/ Sweep
        \/ \E st \in {"active", "suspended", "paused"} : SetStatus(st)
        \/ \E b \in BOOLEAN : SetPlan(b)

Spec == Init /\ [][Next]_saasVars

----------------------------------------------------------------------------
(* Properties *)

TypeOK == /\ sub \in [Subs -> Status]
          /\ gw \in [Subs -> {"none", "live", "ended"}]
          /\ tenant \in [free : BOOLEAN, st : {"active", "suspended", "paused"},
                         why : {"none", "billing"}]
          /\ req \in [Staff -> Req]
          /\ news \subseteq Subs \X Bills
          /\ odd \in [left : SUBSET Subs, lost : SUBSET Subs]

\* The gateway never bills a tenant twice for one month - start_subscription ends
\* the old subscription first, and the index stops a second start before it reaches
\* the gateway - but for subscriptions whose answer was lost.
BilledOnce == Cardinality({s \in Subs : gw[s] = "live"} \ odd.lost) <= 1

\* A live row has its subscription at the gateway, unless a request that failed
\* half-way, or an event that came after the cancellation, left it so.
LiveRowIsBilled == \A s \in LiveRows : gw[s] = "live" \/ s \in odd.left
                      \/ \E h \in Staff : req[h].old = s

\* The rows and the gateway agree on who is billed: once, and whoever has a live row.
RowsMatchGateway == BilledOnce /\ LiveRowIsBilled
=============================================================================
