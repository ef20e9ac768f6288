---------------------------- MODULE WalkerNetwork ----------------------------
(***************************************************************************)
(* One walker in the network: links with tenants, invitations the walker   *)
(* answers, the requirements of a tenant, exclusivity, and the count of    *)
(* tenants served in the walker's network profile.                         *)
(*                                                                         *)
(* Code: app/routes/walker_network.py, the home link in approve_walker     *)
(* (app/routes/admin.py), app/services/walker_exclusivity_service.py and   *)
(* walker_network_matching_service.py; the profiles that the start of the  *)
(* process makes, in tenant_seed_service.py.                               *)
(*                                                                         *)
(* The sessions of app/core/database.py do not flush by themselves: a      *)
(* query of a request does not see what the request has changed.           *)
(***************************************************************************)
EXTENDS FiniteSets

CONSTANTS
  Tenants, Home,   \* the tenants, and the walker's own
  Handlers         \* answers in flight at once

LinkStatus == {"none", "pending", "active", "declined", "revoked", "paused"}
Nobody == "nobody"

VARIABLES
  link,     \* each tenant's row: status, access_type is exclusive, requirements_met;
            \* cleared, a ghost: staff said so, or nothing was required when it was made
  network,  \* the network profile: it exists, exclusive_tenant_id, total_tenants_served
  demands,  \* tenants with requirements of their own
  answer    \* what each answer in flight has read

networkVars == <<link, network, demands, answer>>

Init == /\ link    = [t \in Tenants |-> [st |-> "none", excl |-> FALSE, met |-> FALSE, cleared |-> FALSE]]
        /\ network = [exists |-> FALSE, to |-> Nobody, served |-> 0]
        /\ demands = {}
        /\ answer  = [h \in Handlers |-> Nobody]

ActiveIn(l) == {t \in Tenants : l[t].st = "active"}

\* ensure_network_profiles, when a process starts.
Seed == /\ ~network.exists /\ network' = [network EXCEPT !.exists = TRUE]
        /\ UNCHANGED <<link, demands, answer>>

Requires(t, on) == /\ demands' = IF on THEN demands \cup {t} ELSE demands \ {t}
                   /\ demands' # demands
                   /\ UNCHANGED <<link, network, answer>>

\* assert_walker_link_allowed and set_walker_exclusive
Allowed(t, excl) == /\ network.to \in {Nobody, t}
                    /\ excl => ActiveIn(link) \subseteq {t}

\* Mutant of MetAt: a new link is born with its requirements met.
MetAtBirth(t) == TRUE

\* initial_requirements_met
MetAt(t) == t \notin demands

\* _recompute_tenants_served counts the rows of the database.
CountSeen == Cardinality(ActiveIn(link))

\* link_walker_to_tenant.  _ensure_network_profile is called again by the recount:
\* a profile the first call has added is not seen, the second one violates the unique
\* index, and nothing of the request is kept.
LinkTo(t, st, excl) ==
  /\ Allowed(t, excl) /\ network.exists
  /\ link' = [link EXCEPT ![t] =
       IF @.st = "none" THEN [st |-> st, excl |-> excl, met |-> MetAt(t), cleared |-> t \notin demands]
       ELSE [@ EXCEPT !.st = st, !.excl = excl]]
  /\ network' = [network EXCEPT !.to = IF excl THEN t ELSE @, !.served = CountSeen]
  /\ UNCHANGED <<demands, answer>>

\* update_tenant_walker_access: the status alone is changed without asking about
\* exclusivity; a type that is not exclusive releases the walker.
Update(t, st) ==
  /\ link[t].st # "none"
  /\ link'    = [link EXCEPT ![t].st = st]
  /\ network' = [exists |-> TRUE, to |-> network.to, served |-> CountSeen]
  /\ UNCHANGED <<demands, answer>>

Retype(t, st, excl) ==
  /\ link[t].st # "none" /\ Allowed(t, excl) /\ (network.exists \/ ~excl)
  /\ link'    = [link EXCEPT ![t].st = st, ![t].excl = excl]
  /\ network' = [exists |-> TRUE, served |-> CountSeen,
                 to |-> IF excl THEN t ELSE IF network.to = t THEN Nobody ELSE network.to]
  /\ UNCHANGED <<demands, answer>>

\* approve_walker: the walker enters the pool of the home tenant.
ApproveHome ==
  /\ link' = [link EXCEPT ![Home] =
       IF @.st = "none" THEN [st |-> "active", excl |-> TRUE, met |-> TRUE, cleared |-> TRUE]
       ELSE [@ EXCEPT !.st = "active"]]
  /\ UNCHANGED <<network, demands, answer>>

\* approve_walker_requirements
Clears(t, on) == /\ link[t].st # "none"
                 /\ link' = [link EXCEPT ![t].met = on, ![t].cleared = on] /\ link' # link
                 /\ UNCHANGED <<network, demands, answer>>

\* _respond_to_invite
BeginAccept(h, t) ==
  /\ answer[h] = Nobody /\ link[t].st = "pending" /\ network.to \in {Nobody, t}
  /\ answer' = [answer EXCEPT ![h] = t]
  /\ UNCHANGED <<link, network, demands>>

Accept(h) ==
  /\ answer[h] # Nobody
  /\ LET t == answer[h] IN
     link' = [link EXCEPT ![t].st = "active", ![t].met = MetAt(t), ![t].cleared = t \notin demands]
  /\ network' = [network EXCEPT !.exists = TRUE, !.served = CountSeen]
  /\ answer' = [answer EXCEPT ![h] = Nobody]
  /\ UNCHANGED demands

Decline(t) == /\ link[t].st = "pending" /\ link' = [link EXCEPT ![t].st = "declined"]
              /\ UNCHANGED <<network, demands, answer>>

Next ==
  \/ Seed \/ ApproveHome
  \/ \E t \in Tenants :
       \/ Decline(t)
       \/ \E on \in BOOLEAN : Requires(t, on) \/ Clears(t, on)
       \/ \E st \in LinkStatus \ {"none"} :
            Update(t, st) \/ \E excl \in BOOLEAN : LinkTo(t, st, excl) \/ Retype(t, st, excl)
       \/ \E h \in Handlers : BeginAccept(h, t)
  \/ \E h \in Handlers : Accept(h)

Spec == Init /\ [][Next]_networkVars

----------------------------------------------------------------------------
TypeOK ==
  /\ link \in [Tenants -> [st : LinkStatus, excl : BOOLEAN, met : BOOLEAN, cleared : BOOLEAN]]
  /\ network.to \in Tenants \cup {Nobody} /\ demands \subseteq Tenants

\* is_walker_eligible_for_tenant, as far as this state goes.
InPool(t) == link[t].st = "active" /\ link[t].met /\ network.to \in {Nobody, t}

\* Nobody walks for a tenant with requirements of its own before staff says they are
\* met, whichever way the link was made, answered, revoked and renewed; links that are
\* older than the requirements are not demoted.
PoolMeetsRequirements == \A t \in Tenants : InPool(t) => link[t].cleared

\* "Walker aceita convites de dois tenants: total_tenants_served == 2", "PATCH
\* status=revoked: total_tenants_served cai para 0"
\* (tests/test_multitenant_walker_phase1_step8.py).
ServedIsCount ==
  [][network'.served # network.served => network'.served = Cardinality(ActiveIn(link'))]_networkVars
=============================================================================
