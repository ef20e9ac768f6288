----------------------------- MODULE OfferRaces -----------------------------
(***************************************************************************)
(* One search, transaction by transaction: the sweep of expired offers,    *)
(* which almost every listing of walks runs, a refusal, an acceptance and  *)
(* a cancellation, as PostgreSQL interleaves them.  WalkMatching has the   *)
(* same handlers as single steps, for every way a walk can go; here the    *)
(* walk is paid, one city-wide search, and nobody is its exclusive walker. *)
(*                                                                         *)
(* Code: process_expired_attempts, accept_walk, decline_walk and rematch   *)
(* in app/services/operational_matching_service.py, and their routes.      *)
(* Sessions read committed rows, flush when told to, and write only the    *)
(* columns that changed since they were loaded.                            *)
(***************************************************************************)
EXTENDS Naturals, Sequences, FiniteSets

CONSTANTS Handlers,    \* requests in flight at once
          Walkers,     \* whom the ranking may find
          MaxOffers    \* max_attempts of the walk, 3

ParametersAssumption == MaxOffers \in Nat \ {0} /\ "nobody" \notin Handlers

VARIABLES
  walk,      \* st; walker, its assigned_walker_id and walker_id
  offers,    \* walker, st, and whether expires_at is past, by attempt_number
  request,   \* of each request: the walk as loaded (read) and as it will be (mem), the
             \* offers to close (todo) and closed (done), the new ones (made)
  locker,    \* whoever has the row of the walk locked, or nobody
  crossed    \* ghost: a request wrote over a walk or an offer it had not read

offerVars == <<walk, offers, request, locker, crossed>>

Blank == [op |-> "idle", done |-> {}]
Waiting == {"pending_walker_confirmation", "auto_rematching"}
Offer(w) == [walker |-> w, st |-> "pending", due |-> FALSE]

\* start_matching has sent the first offer.
Init == \E w \in Walkers :
          /\ walk = [st |-> "pending_walker_confirmation", walker |-> w]
          /\ offers = <<Offer(w)>>
          /\ request = [h \in Handlers |-> Blank]
          /\ locker = "nobody" /\ crossed = FALSE

Pending == {n \in DOMAIN offers : offers[n].st = "pending"}
Due     == {n \in Pending : offers[n].due}
\* _current_pending_attempt.
IsCurrent(n) == n \in Pending /\ \A m \in Pending : m <= n

Loads(h, op, todo) ==
  /\ request[h] = Blank
  /\ request' = [request EXCEPT ![h] = [op |-> op, read |-> walk, mem |-> walk,
                                        todo |-> todo, done |-> {}, made |-> <<>>]]
  /\ UNCHANGED <<walk, offers, crossed>>

\* A plain select, which waits for no lock.
Reads(h, op, todo) == Loads(h, op, todo) /\ UNCHANGED locker

\* process_expired_attempts, with its own commit: the select, and the walk it loads.
BeginSweep(h) == /\ Due # {} /\ walk.st \in Waiting /\ Reads(h, "sweep", Due)

\* decline_walk: the walk's status is not looked at.  (The sweep in front of it closes an
\* offer that is due, and the refusal ends in a 403 without a commit.)
BeginDecline(h) == \E n \in Pending :
  /\ IsCurrent(n) /\ (walk.st \in Waiting => Due = {}) /\ Reads(h, "decline", {n})

BeginCancel(h) == walk.st # "ride_cancelled" /\ Reads(h, "cancel", {})

\* rematch, after the flush of the closed offer: the offers are selected anew, and the
\* ranking finds a walker who was not asked, or nobody.
Rematched(r, n) ==
  LET sent == offers \o r.made
      left == Walkers \ {sent[m].walker : m \in DOMAIN sent}
      closed == [r EXCEPT !.todo = @ \ {n}, !.done = @ \cup {n}]
  IN IF Len(sent) + 1 > MaxOffers
     THEN {[closed EXCEPT !.mem.st = "awaiting_tutor_reconfirmation"]}
     ELSE {[closed EXCEPT !.mem.st = "no_walker_found"]}
          \cup {[closed EXCEPT !.mem = [st |-> "auto_rematching", walker |-> w],
                               !.made = Append(@, Offer(w))] : w \in left}

\* An offer another transaction has closed is locked until that one commits.
IsUnlocked(h, n) == \A g \in Handlers \ {h} : n \notin request[g].done

\* One offer of the sweep, or the one refused: closed, by its id, a substitute sought, and
\* the walk updated, for which a transaction waits while another has the row.
Closes(h, n) ==
  /\ request[h].op \in {"sweep", "decline"} /\ n \in request[h].todo
  /\ IsUnlocked(h, n) /\ (request[h].done # {} => locker \in {h, "nobody"})
  /\ locker' = IF locker = "nobody" THEN h ELSE locker
  /\ IF request[h].op = "sweep" /\ request[h].mem.st \notin Waiting
     THEN request' = [request EXCEPT ![h].todo = @ \ {n}]
     ELSE \E r \in Rematched(request[h], n) : request' = [request EXCEPT ![h] = r]
  /\ UNCHANGED <<walk, offers, crossed>>

\* Mutant of Written: the walk keeps the walker of the offer before.
WrittenStatus(r) == [walk EXCEPT !.st = r.mem.st]

\* The columns that are not what was loaded; a refusal flushed walker_declined before.
Written(r) ==
  [st     |-> IF r.mem.st # r.read.st \/ r.op = "decline" THEN r.mem.st ELSE walk.st,
   walker |-> IF r.mem.walker # r.read.walker THEN r.mem.walker ELSE walk.walker]

Overwrites(r) == walk # r.read \/ \E n \in r.done : offers[n].st # "pending"

Commit(h) == LET r == request[h] IN
  /\ r.done # {} /\ r.todo = {} /\ locker \in {h, "nobody"}
  /\ walk' = Written(r)
  /\ offers' = [n \in DOMAIN offers |-> IF n \notin r.done THEN offers[n] ELSE
                  [offers[n] EXCEPT !.st = IF r.op = "sweep" THEN "expired" ELSE "declined"]]
               \o r.made
  /\ request' = [request EXCEPT ![h] = Blank]
  /\ locker' = "nobody" /\ crossed' = (crossed \/ Overwrites(r))

\* cancel_walk, after the gateway was asked for the refund; offers stay as they are.
CommitCancel(h) ==
  /\ request[h].op = "cancel" /\ locker = "nobody"
  /\ walk' = [walk EXCEPT !.st = "ride_cancelled"]
  /\ request' = [request EXCEPT ![h] = Blank]
  /\ crossed' = (crossed \/ Overwrites(request[h]))
  /\ UNCHANGED <<offers, locker>>

\* accept_walk, the row of the walk locked first: not while an offer is due, and only
\* the current offer.
MayAccept(n) == IsCurrent(n) /\ Due = {} /\ walk.walker = offers[n].walker

BeginAccept(h) == \E n \in Pending :
  /\ locker = "nobody" /\ locker' = h /\ MayAccept(n) /\ Loads(h, "accept", {n})

\* The conditional UPDATE of the walk, then the offer, which may have become due since.
CommitAccept(h) == LET r == request[h] IN
  /\ r.op = "accept" /\ walk.st \in Waiting /\ walk.walker = r.read.walker
  /\ \A n \in r.todo : IsUnlocked(h, n)
  /\ walk' = [walk EXCEPT !.st = "walker_accepted"]
  /\ offers' = [n \in DOMAIN offers |-> IF n \in r.todo THEN [offers[n] EXCEPT !.st = "accepted"]
                                        ELSE offers[n]]
  /\ request' = [request EXCEPT ![h] = Blank]
  /\ locker' = "nobody" /\ UNCHANGED crossed

\* A request that had nothing left to write, failed, or was chosen as a deadlock's victim.
Ends(h) == /\ request[h] # Blank /\ request' = [request EXCEPT ![h] = Blank]
           /\ locker' = IF locker = h THEN "nobody" ELSE locker
           /\ UNCHANGED <<walk, offers, crossed>>

TimePasses == \E n \in Pending \ Due :
  /\ offers' = [offers EXCEPT ![n].due = TRUE] /\ UNCHANGED <<walk, request, locker, crossed>>

Next == \/ \E h \in Handlers :
             \/ BeginSweep(h) \/ BeginDecline(h) \/ BeginCancel(h) \/ BeginAccept(h)
             \/ \E n \in DOMAIN offers : Closes(h, n)
             \/ Commit(h) \/ CommitCancel(h) \/ CommitAccept(h) \/ Ends(h)
        \/ TimePasses

Spec == Init /\ [][Next]_offerVars

----------------------------------------------------------------------------
TypeOK == /\ walk.st \in Waiting \cup {"walker_accepted", "no_walker_found",
                                       "awaiting_tutor_reconfirmation", "ride_cancelled"}
          /\ walk.walker \in Walkers
          /\ \A n \in DOMAIN offers :
               offers[n] \in [walker : Walkers, due : BOOLEAN,
                              st : {"pending", "accepted", "declined", "expired"}]

\* Whom a walk is given to was asked, however requests cross.  Unless they crossed, the walk
\* and its offers tell the same: who waits for an answer
\* waits for one walker, who accepted serves, a search that ended left no offer open, and
\* nobody is asked twice or beyond the limit.  Crossed, none of it need hold: accept alone
\* locks the walk and asks its status again, so a sweep that began before an acceptance
\* expires the accepted offer and gives the walk to another, whose acceptance it then is.
OffersAgree ==
  /\ \E n \in DOMAIN offers : offers[n].walker = walk.walker
  /\ ~crossed =>
    /\ walk.st \in Waiting =>
         \E n \in Pending : Pending = {n} /\ offers[n].walker = walk.walker
    /\ walk.st = "walker_accepted" =>
         Pending = {} /\ \E n \in DOMAIN offers : offers[n].st = "accepted"
                                                  /\ offers[n].walker = walk.walker
    /\ walk.st \in {"no_walker_found", "awaiting_tutor_reconfirmation"} => Pending = {}
    /\ Cardinality({offers[n].walker : n \in DOMAIN offers}) = Len(offers)
    /\ Len(offers) <= MaxOffers
=============================================================================
