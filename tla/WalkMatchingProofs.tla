------------------------- MODULE WalkMatchingProofs -------------------------
(***************************************************************************)
(* Proofs about WalkMatching, for any set of walkers and any limits.       *)
(***************************************************************************)
EXTENDS WalkMatching, FiniteSetTheorems, SequenceTheorems, TLAPS

\* SearchHasOffer and ServedByAccepter, as predicates of a row.
HasOffer(w) == w.status \in Waiting => Pending(w) # {}
Served(w) ==
  w.status \in Serving =>
    \E i \in DOMAIN w.offers : /\ w.offers[i].status = "accepted"
                               /\ w.offers[i].walker = w.walker

\* The statuses no operator of the search leads into.
Engaged == Serving \cup {"ride_completed"}

----------------------------------------------------------------------------
(* The operators of the search *)

\* _finish_attempt closes some attempts of a row and leaves the rest of it.
LEMMA CloseLemma ==
  ASSUME NEW w \in Walk, NEW S, NEW st \in OfferStatus
  PROVE  /\ Close(w, S, st) \in Walk
         /\ Close(w, S, st).status = w.status
         /\ DOMAIN Close(w, S, st).offers = DOMAIN w.offers
         /\ \A i \in DOMAIN w.offers :
              i \notin S => Close(w, S, st).offers[i] = w.offers[i]
<1> DEFINE os == [i \in DOMAIN w.offers |->
     IF i \in S THEN [w.offers[i] EXCEPT !.status = st, !.due = FALSE]
                ELSE w.offers[i]]
<1>1. w.offers \in Seq(Offer)
  BY DEF Walk
<1>2. \A i \in DOMAIN w.offers : w.offers[i] \in Offer
  BY <1>1
<1>3. \A i \in DOMAIN w.offers : os[i] \in Offer
  BY <1>2 DEF Offer
<1>4. os \in Seq(Offer) /\ DOMAIN os = DOMAIN w.offers
  <2>1. DOMAIN w.offers = 1..Len(w.offers) /\ Len(w.offers) \in Nat
    BY <1>1
  <2>2. os \in [1..Len(w.offers) -> Offer]
    BY <1>3, <2>1
  <2> HIDE DEF os
  <2> QED
    BY <2>1, <2>2
<1>5. Close(w, S, st) = [w EXCEPT !.offers = os]
  BY DEF Close
<1> QED
  BY <1>4, <1>5 DEF Walk

\* Every automatic rematch appends offers nobody has answered.
LEMMA SearchOnLemma ==
  ASSUME NEW w \in Walk, NEW k \in Nat, NEW c \in Chains(w, k)
  PROVE  /\ SearchOn(w, c) \in Walk
         /\ k = 0 => SearchOn(w, c) = w
         /\ k > 0 => /\ SearchOn(w, c).status \in Waiting
                     /\ \E i \in Pending(SearchOn(w, c)) : i \notin DOMAIN w.offers
<1>1. c \in [1..k -> Walkers]
  BY DEF Chains
<1>2. c \in Seq(Walkers) /\ Len(c) = k
  BY <1>1
<1>3. CASE k = 0
  <2>1. c = <<>>
    BY <1>2, <1>3
  <2> QED
    BY <2>1, <1>3 DEF SearchOn
<1>4. CASE k > 0
  <2> DEFINE new == [i \in DOMAIN c |-> NewOffer(c[i])]
             os  == w.offers \o new
             st  == IF Len(w.offers) + Len(c) = 1
                      THEN "pending_walker_confirmation" ELSE "auto_rematching"
             v   == [w EXCEPT !.status = st, !.assigned = c[Len(c)],
                              !.walker = c[Len(c)], !.offers = os]
  <2>1. c # <<>> /\ c[Len(c)] \in Walkers /\ SearchOn(w, c) = v
    BY <1>2, <1>4 DEF SearchOn
  <2>2. \A i \in DOMAIN c : NewOffer(c[i]) \in Offer
    BY <1>2 DEF NewOffer, Offer, OfferStatus
  <2>3. new \in Seq(Offer) /\ Len(new) = k
    BY <2>2, <1>2
  <2>4. w.offers \in Seq(Offer)
    BY DEF Walk
  <2> HIDE DEF new
  <2>5. os \in Seq(Offer) /\ Len(os) = Len(w.offers) + k
    BY <2>3, <2>4
  <2>6. os[Len(w.offers) + 1] = new[1]
    BY <2>3, <2>4, <1>4
  <2>7. new[1].status = "pending"
    BY <1>2, <1>4 DEF new, NewOffer
  <2> HIDE DEF os
  <2>0. st \in Waiting
    BY DEF Waiting
  <2> HIDE DEF st
  <2>8. v \in Walk /\ v.offers = os /\ v.status \in Waiting
    BY <2>0, <2>1, <2>5 DEF Walk, Status
  <2>9. Len(w.offers) + 1 \in Pending(v)
    BY <2>5, <2>6, <2>7, <2>8, <1>4, <2>4 DEF Pending
  <2>10. Len(w.offers) + 1 \notin DOMAIN w.offers
    BY <2>4
  <2> QED
    BY <2>1, <2>8, <2>9, <2>10, <1>4
<1> QED
  BY <1>3, <1>4

\* A search that gives up hands the walk to the tutor.
LEMMA GiveUpLemma ==
  ASSUME NEW w \in Walk
  PROVE  /\ GiveUp(w) \in Walk /\ GiveUp(w).status \in Decision
         /\ Unavailable(w) \in Walk /\ Unavailable(w).status \in Decision
BY DEF GiveUp, Unavailable, Walk, Status, Decision

\* Any run of rematches either hands the walk to the tutor or leaves an offer
\* that was not there before and that nobody has answered.
LEMMA RematchesLemma ==
  ASSUME NEW w \in Walk, NEW n \in Nat \ {0}, NEW r \in Rematches(w, n)
  PROVE  /\ r.walk \in Walk
         /\ \/ r.walk.status \in Decision
            \/ /\ r.walk.status \in Waiting
               /\ \E i \in Pending(r.walk) : i \notin DOMAIN w.offers
<1>1. CASE w.mode = "only_selected"
  BY <1>1, GiveUpLemma DEF Rematches
<1>2. CASE w.mode # "only_selected"
  <2>1. CASE \E c \in Chains(w, n) : r = [walk |-> SearchOn(w, c), calls |-> n]
    <3>1. PICK c \in Chains(w, n) : r.walk = SearchOn(w, c)
      BY <2>1
    <3> QED
      BY <3>1, SearchOnLemma
  <2>2. CASE \E k \in 0..(n-1) : \E c \in Chains(w, k) :
               r = [walk |-> GiveUp(SearchOn(w, c)), calls |-> k + 1]
    <3>0. PICK k \in 0..(n-1) : \E c \in Chains(w, k) :
               r.walk = GiveUp(SearchOn(w, c))
      BY <2>2
    <3>1. PICK c \in Chains(w, k) : r.walk = GiveUp(SearchOn(w, c))
      BY <3>0
    <3>2. SearchOn(w, c) \in Walk
      BY SearchOnLemma
    <3> QED
      BY <3>1, <3>2, GiveUpLemma
  <2> QED
    BY <1>2, <2>1, <2>2 DEF Rematches
<1> QED
  BY <1>1, <1>2

LEMMA RematchLemma ==
  ASSUME NEW w \in Walk, NEW v \in Rematch(w)
  PROVE  v \in Walk /\ HasOffer(v) /\ v.status \notin Engaged
<1>1. PICK r \in Rematches(w, 1) : v = r.walk
  BY DEF Rematch
<1> QED
  BY <1>1, RematchesLemma DEF HasOffer, Waiting, Serving, Decision, Engaged

\* The offers of a row are finitely many, so those due can be counted.
LEMMA DueCount ==
  ASSUME NEW w \in Walk, DueOffers(w) # {}
  PROVE  Cardinality(DueOffers(w)) \in Nat \ {0}
<1>1. DOMAIN w.offers = 1..Len(w.offers) /\ Len(w.offers) \in Nat
  BY DEF Walk
<1>2. IsFiniteSet(1..Len(w.offers))
  BY <1>1, FS_Interval
<1>3. DueOffers(w) \in SUBSET (1..Len(w.offers))
  BY <1>1 DEF DueOffers, Pending
<1>4. IsFiniteSet(DueOffers(w))
  BY <1>2, <1>3, FS_Subset
<1> QED
  BY <1>4, FS_CardinalityType, FS_EmptySet

\* The sweep leaves the row alone, hands it to the tutor, or leaves it with an
\* offer sent by this very sweep.
LEMMA SweepLemma ==
  ASSUME NEW w \in Walk, NEW v \in Sweep(w)
  PROVE  /\ v \in Walk
         /\ v = w \/ (HasOffer(v) /\ v.status \notin Engaged)
<1>1. CASE w.status \notin Waiting \/ DueOffers(w) = {}
  BY <1>1 DEF Sweep
<1>2. CASE w.status \in Waiting /\ DueOffers(w) # {}
  <2>1. PICK r \in Rematches(w, Cardinality(DueOffers(w))) :
          v = Close(r.walk, FirstOf(DueOffers(w), r.calls), "expired")
    BY <1>2 DEF Sweep
  <2> DEFINE ended == FirstOf(DueOffers(w), r.calls)
  <2>2. /\ r.walk \in Walk
        /\ \/ r.walk.status \in Decision
           \/ /\ r.walk.status \in Waiting
              /\ \E i \in Pending(r.walk) : i \notin DOMAIN w.offers
    BY <1>2, DueCount, RematchesLemma
  <2>3. ended \subseteq DOMAIN w.offers
    BY DEF FirstOf, DueOffers, Pending
  <2>4. "expired" \in OfferStatus
    BY DEF OfferStatus
  <2> HIDE DEF ended
  <2>5. /\ v \in Walk /\ v.status = r.walk.status
        /\ DOMAIN v.offers = DOMAIN r.walk.offers
        /\ \A i \in DOMAIN r.walk.offers :
             i \notin ended => v.offers[i] = r.walk.offers[i]
    BY <2>1, <2>2, <2>4, CloseLemma DEF ended
  <2>6. CASE r.walk.status \in Decision
    BY <2>5, <2>6 DEF HasOffer, Waiting, Serving, Decision, Engaged
  <2>7. CASE r.walk.status \in Waiting
    <3>1. PICK i \in Pending(r.walk) : i \notin DOMAIN w.offers
      BY <2>2, <2>7 DEF Decision, Waiting
    <3>2. i \in Pending(v)
      BY <2>3, <2>5, <3>1 DEF Pending
    <3> QED
      BY <2>5, <2>7, <3>2 DEF HasOffer, Serving, Waiting, Engaged
  <2> QED
    BY <2>2, <2>6, <2>7
<1> QED
  BY <1>1, <1>2

\* start_matching leaves a row in service alone and never leaves a waiting one
\* without an offer.
LEMMA SendOfferLemma ==
  ASSUME NEW w \in Walk, NEW c \in Walkers, NEW st \in Status
  PROVE  /\ SendOffer(w, c, st) \in Walk
         /\ SendOffer(w, c, st).status = st
         /\ Pending(SendOffer(w, c, st)) # {}
<1> DEFINE os == Append(w.offers, NewOffer(c))
<1>1. w.offers \in Seq(Offer) /\ NewOffer(c) \in Offer
      /\ NewOffer(c).status = "pending"
  BY DEF Walk, NewOffer, Offer, OfferStatus
<1>2. /\ os \in Seq(Offer) /\ Len(w.offers) + 1 \in DOMAIN os
      /\ os[Len(w.offers) + 1] = NewOffer(c)
  BY <1>1
<1> HIDE DEF os
<1>3. /\ SendOffer(w, c, st) \in Walk
      /\ SendOffer(w, c, st).status = st
      /\ SendOffer(w, c, st).offers = os
  BY <1>2 DEF SendOffer, Walk, os
<1> QED
  BY <1>1, <1>2, <1>3 DEF Pending

LEMMA StartLemma ==
  ASSUME NEW w \in Walk, NEW v \in Start(w)
  PROVE  /\ v \in Walk /\ HasOffer(v)
         /\ v = w \/ v.status \notin Engaged
<1> DEFINE v0 == [w EXCEPT !.finished = FALSE, !.orphan = FALSE]
<1>1. v0 \in Walk
  BY DEF Walk
<1> HIDE DEF v0
<1>2. "pending_walker_confirmation" \in Status \ Engaged
  BY DEF Status, Waiting, Serving, Engaged
<1>3. CASE w.finished /\ w.status \in {"walker_accepted", "ride_scheduled",
             "walker_arriving", "ride_in_progress", "ride_completed"}
  BY <1>3 DEF Start, HasOffer, Waiting
<1>4. CASE v = w /\ Pending(w) # {}
  BY <1>4 DEF HasOffer
<1>5. CASE v = Unavailable(v0)
  BY <1>1, <1>5, GiveUpLemma DEF HasOffer, Decision, Waiting, Serving, Engaged
<1>6. CASE \E c \in Walkers : v = SendOffer(v0, c, "pending_walker_confirmation")
  BY <1>1, <1>2, <1>6, SendOfferLemma DEF HasOffer
<1>7. CASE v = [v0 EXCEPT !.status = "no_walker_found", !.finished = TRUE]
  BY <1>1, <1>7 DEF Walk, Status, Decision, HasOffer, Waiting, Serving, Engaged
<1>8. v0.assigned \in Walkers \cup {None} /\ v0.walker \in Walkers \cup {None}
  BY <1>1 DEF Walk
<1> DEFINE skips == w.finished /\ w.status \in {"walker_accepted", "ride_scheduled",
             "walker_arriving", "ride_in_progress", "ride_completed"}
           selected == IF v0.assigned # None THEN v0.assigned ELSE v0.walker
           offered == {SendOffer(v0, c, "pending_walker_confirmation") : c \in Walkers}
           chosen == IF selected = None THEN {}
                     ELSE {SendOffer(v0, selected, "pending_walker_confirmation")}
           nobody == [v0 EXCEPT !.status = "no_walker_found", !.finished = TRUE]
<1>9. Start(w) = IF skips \/ Pending(w) # {} THEN {w}
                 ELSE IF v0.mode = "only_selected" THEN {Unavailable(v0)} \cup chosen
                 ELSE offered \cup {nobody}
  BY DEF Start, v0
<1>10. chosen \subseteq offered
  BY <1>8
<1> HIDE DEF skips, chosen, offered, nobody, selected
<1>11. \/ skips
       \/ v = w /\ Pending(w) # {}
       \/ v = Unavailable(v0)
       \/ v \in offered
       \/ v = nobody
  BY <1>9, <1>10
<1> QED
  BY <1>3, <1>4, <1>5, <1>6, <1>7, <1>11 DEF skips, offered, nobody

LEMMA StartMatchingLemma ==
  ASSUME NEW w \in Walk, NEW v \in StartMatching(w)
  PROVE  /\ v \in Walk /\ HasOffer(v)
         /\ v = w \/ v.status \notin Engaged
<1>1. PICK u \in Sweep(w) : v \in Start(u)
  BY DEF StartMatching
<1> QED
  BY <1>1, SweepLemma, StartLemma

----------------------------------------------------------------------------
(* The inductive invariant.  It needs no strengthening beyond the type: the   *)
(* outcome of every operator of the search is sound whatever the row was, as  *)
(* the lemmas above show.                                                     *)

\* Nobody writes by hand a status of the search or of the service.
Clean == RawStatuses \cap (Waiting \cup Serving) = {}

Inv == TypeOK /\ CompletedOnApproval /\ (Clean => SearchHasOffer /\ ServedByAccepter)

Approved == \E c \in Walkers : review[c] = "approved"

\* The invariant of one row.
Sound(w) ==
  /\ w \in Walk
  /\ w.status = "ride_completed" => Approved
  /\ Clean => /\ Served(w)
              /\ w.status \in Waiting => \/ Pending(w) # {} \/ starting \/ w.orphan

LEMMA InvIsSound == Inv <=> /\ Sound(walk)
                            /\ paid \in BOOLEAN /\ covered \in BOOLEAN
                            /\ starting \in BOOLEAN
                            /\ review \in [Walkers -> ReviewStatus]
BY DEF Inv, Sound, Served, TypeOK, SearchHasOffer, ServedByAccepter,
       CompletedOnApproval, Approved

\* Handlers that touch only the walk keep the invariant if their outcomes do.
LEMMA CommitLemma ==
  ASSUME Inv, NEW outcomes, Commit(outcomes), \A v \in outcomes : Sound(v)
  PROVE  Inv'
<1>1. Sound(walk') /\ UNCHANGED <<paid, covered, starting, review>>
  BY DEF Commit
<1>2. /\ walk' \in Walk
      /\ walk'.status = "ride_completed" => Approved
      /\ Clean /\ walk'.status \in Serving => \E i \in DOMAIN walk'.offers :
            walk'.offers[i].status = "accepted" /\ walk'.offers[i].walker = walk'.walker
      /\ Clean /\ walk'.status \in Waiting =>
            \/ Pending(walk') # {} \/ starting \/ walk'.orphan
  BY <1>1 DEF Sound, Served
<1> QED
  BY <1>1, <1>2 DEF Inv, TypeOK, SearchHasOffer, ServedByAccepter, Pending,
     CompletedOnApproval, Approved

\* A row that neither waits nor is in service, nor is completed, is sound.
LEMMA QuietLemma ==
  ASSUME NEW w \in Walk, w.status \notin Waiting \cup Engaged
  PROVE  Sound(w)
BY DEF Sound, Served, Engaged

\* A status written by hand leaves the row sound.
LEMMA WriteLemma ==
  ASSUME NEW w \in Walk, NEW st \in RawStatuses
  PROVE  Sound(WriteStatus(w, st))
<1>1. st \in Status \ {"ride_completed"}
  BY BoundsAssumption
<1>2. WriteStatus(w, st) \in Walk /\ WriteStatus(w, st).status = st
      /\ st # "ride_completed"
  BY <1>1 DEF WriteStatus, Walk
<1>3. Clean => st \notin Waiting \cup Serving
  BY DEF Clean
<1> QED
  BY <1>2, <1>3 DEF Sound, Served

LEMMA SoundSearch ==
  ASSUME NEW w \in Walk
  PROVE  /\ \A v \in Rematch(w) : Sound(v)
         /\ Sound(w) => \A v \in Sweep(w) : Sound(v)
         /\ (Clean => Served(w)) /\ (w.status = "ride_completed" => Approved) =>
              \A v \in StartMatching(w) : Sound(v)
<1>1. \A v \in Rematch(w) : Sound(v)
  BY RematchLemma DEF Sound, Served, HasOffer, Engaged
<1>2. Sound(w) => \A v \in Sweep(w) : Sound(v)
  BY SweepLemma DEF Sound, Served, HasOffer, Engaged
<1>3. (Clean => Served(w)) /\ (w.status = "ride_completed" => Approved) =>
        \A v \in StartMatching(w) : Sound(v)
  BY StartMatchingLemma DEF Sound, Served, HasOffer, Engaged
<1> QED
  BY <1>1, <1>2, <1>3

LEMMA SoundAccept ==
  ASSUME NEW w, Sound(w), NEW c \in Walkers, NEW u \in Accepted(w, c)
  PROVE  Sound(u)
<1>1. w \in Walk /\ \A v \in Sweep(w) : v \in Walk /\ Sound(v)
  BY SoundSearch DEF Sound
<1>2. CASE u \in Sweep(w)
  BY <1>1, <1>2
<1>3. CASE \E v \in Sweep(w) : \E i \in Pending(v) :
             /\ v.offers[i].walker = c
             /\ u = [Close(v, {i}, "accepted") EXCEPT
                       !.status = "walker_accepted", !.walker = c, !.finished = TRUE]
  <2>1. PICK v \in Sweep(w) : \E i \in Pending(v) :
             /\ v.offers[i].walker = c
             /\ u = [Close(v, {i}, "accepted") EXCEPT
                       !.status = "walker_accepted", !.walker = c, !.finished = TRUE]
    BY <1>3
  <2>2. PICK i \in Pending(v) :
             /\ v.offers[i].walker = c
             /\ u = [Close(v, {i}, "accepted") EXCEPT
                       !.status = "walker_accepted", !.walker = c, !.finished = TRUE]
    BY <2>1
  <2> DEFINE v1 == Close(v, {i}, "accepted")
  <2>3. i \in DOMAIN v.offers
    BY DEF Pending
  <2>4. v1 \in Walk /\ DOMAIN v1.offers = DOMAIN v.offers
    BY <1>1, CloseLemma DEF OfferStatus
  <2>5. v1.offers[i].status = "accepted" /\ v1.offers[i].walker = c
    <3>1. v1.offers[i] = [v.offers[i] EXCEPT !.status = "accepted", !.due = FALSE]
      BY <1>1, <2>3 DEF Close, Walk
    <3>2. v.offers[i] \in Offer
      BY <1>1, <2>3 DEF Walk
    <3> QED
      BY <3>1, <3>2, <2>2 DEF Offer
  <2> HIDE DEF v1
  <2>6. /\ u \in Walk /\ u.status = "walker_accepted" /\ u.walker = c
        /\ u.offers = v1.offers
    BY <2>2, <2>4 DEF v1, Walk, Status, Serving
  <2> QED
    BY <2>3, <2>4, <2>5, <2>6 DEF Sound, Served, Waiting
<1> QED
  BY <1>2, <1>3 DEF Accepted

----------------------------------------------------------------------------
(* One lemma per group of actions *)

LEMMA ReleaseKeepsInv == Inv /\ Release => Inv'
<1> SUFFICES ASSUME Inv, Release PROVE Inv'
  OBVIOUS
<1> USE InvIsSound
<1>0. /\ walk \in Walk /\ Sound(walk) /\ (Clean => Served(walk))
      /\ walk.status = "ride_completed" => Approved
  BY DEF Sound
<1>1. ASSUME NEW late \in BOOLEAN, PaymentConfirmed(late) PROVE Inv'
  <2>1. walk' \in Walk /\ walk'.offers = walk.offers /\ walk'.orphan = walk.orphan
        /\ walk'.walker = walk.walker
    BY <1>0, <1>1 DEF PaymentConfirmed, Walk, Status, Waiting, Serving, Decision
  <2>2. \/ walk' = walk /\ starting' = starting
        \/ walk'.status = "awaiting_tutor_reconfirmation" /\ starting' = starting
        \/ walk'.status = "pending_walker_confirmation" /\ starting' = TRUE
    BY <1>0, <1>1 DEF PaymentConfirmed, Walk
  <2> QED
    BY <1>1, <2>1, <2>2 DEF PaymentConfirmed, Inv, TypeOK, SearchHasOffer,
       ServedByAccepter, CompletedOnApproval, Waiting, Serving, Pending
<1>2. CASE PaymentReversed
  BY <1>2 DEF PaymentReversed, Inv, TypeOK, SearchHasOffer, ServedByAccepter,
     CompletedOnApproval, Pending
<1>3. CASE PlanConfirmed
  <2>1. walk' \in Walk /\ walk'.status = "pending_walker_confirmation"
    BY <1>0, <1>3 DEF PlanConfirmed, Walk, Status, Waiting
  <2> QED
    BY <1>3, <2>1 DEF PlanConfirmed, Inv, TypeOK, SearchHasOffer, ServedByAccepter,
       CompletedOnApproval, Serving
<1>4. CASE StartAfterRelease
  <2>1. walk' \in StartMatching(walk)
    BY <1>4 DEF StartAfterRelease
  <2>2. walk' \in Walk /\ HasOffer(walk')
        /\ (walk' = walk \/ walk'.status \notin Engaged)
    BY <2>1, <1>0, StartMatchingLemma
  <2> QED
    BY <1>4, <2>2 DEF StartAfterRelease, Inv, TypeOK, SearchHasOffer,
       ServedByAccepter, CompletedOnApproval, Engaged, HasOffer, Pending
<1>5. CASE StartFails
  <2>1. /\ walk' \in Walk /\ walk'.offers = walk.offers /\ walk'.orphan = TRUE
        /\ walk'.walker = walk.walker /\ walk'.status = walk.status
    BY <1>0, <1>5 DEF StartFails, Walk
  <2> QED
    BY <1>5, <2>1 DEF StartFails, Inv, TypeOK, SearchHasOffer, ServedByAccepter,
       CompletedOnApproval
<1>6. CASE StartRoute
  BY <1>0, <1>6, SoundSearch, CommitLemma DEF StartRoute
<1>7. CASE RematchRoute
  BY <1>0, <1>7, SoundSearch, CommitLemma DEF RematchRoute
<1>8. CASE ExpireUnpaid
  <2>1. Sound([walk EXCEPT !.status = "ride_cancelled"])
    <3>1. [walk EXCEPT !.status = "ride_cancelled"] \in Walk
      BY <1>0 DEF Walk, Status
    <3> QED
      BY <3>1, <1>0, QuietLemma DEF Waiting, Serving, Engaged, Walk
  <2> QED
    BY <1>8, <2>1, CommitLemma DEF ExpireUnpaid
<1> QED
  BY <1>1, <1>2, <1>3, <1>4, <1>5, <1>6, <1>7, <1>8 DEF Release

\* What the tutor may write before a search: any status but those in service.
LEMMA SearchAfterWrite ==
  ASSUME NEW w \in Walk, w.status \notin Engaged, NEW v \in StartMatching(w)
  PROVE  Sound(v)
BY SoundSearch DEF Served, Engaged

LEMMA TutorKeepsInv == Inv /\ TutorStep => Inv'
<1> SUFFICES ASSUME Inv, TutorStep PROVE Inv'
  OBVIOUS
<1> USE InvIsSound
<1>0. walk \in Walk
  BY DEF Sound
<1>1. Sound(Cancelled(walk))
  <2>1. Cancelled(walk) \in Walk /\ Cancelled(walk).status = "ride_cancelled"
    BY <1>0 DEF Cancelled, Walk, Status
  <2> QED
    BY <2>1, QuietLemma DEF Waiting, Serving, Engaged
<1>2. CASE CancelWalk \/ CancelByStatus \/ DecideRefund
  BY <1>1, <1>2, CommitLemma DEF CancelWalk, CancelByStatus, DecideRefund
<1>3. CASE ContinueSearch
  <2> DEFINE w == [walk EXCEPT !.mode = "auto", !.walker = None,
                               !.assigned = None, !.finished = FALSE]
  <2>1. w \in Walk /\ w.status \notin Engaged
    BY <1>0, <1>3 DEF ContinueSearch, Walk, Mode, Serving, Engaged, Decision
  <2> HIDE DEF w
  <2>2. Commit(StartMatching(w))
    BY <1>3 DEF ContinueSearch, w
  <2> QED
    BY <2>1, <2>2, SearchAfterWrite, CommitLemma
<1>4. CASE ReconfirmContinue
  <2> DEFINE w == [walk EXCEPT !.status = "priority_matching", !.finished = FALSE]
  <2>1. w \in Walk /\ w.status \notin Engaged
    BY <1>0 DEF Walk, Serving, Engaged, Status
  <2> HIDE DEF w
  <2>2. Commit(StartMatching(w))
    BY <1>4 DEF ReconfirmContinue, w
  <2> QED
    BY <2>1, <2>2, SearchAfterWrite, CommitLemma
<1>5. CASE ReconfirmOther
  <2>1. ASSUME NEW st \in {"reschedule_requested", "canceled_by_tutor"}
        PROVE  Sound([walk EXCEPT !.status = st])
    <3>1. [walk EXCEPT !.status = st] \in Walk
      BY <1>0 DEF Walk, Status
    <3> QED
      BY <1>0, <3>1, QuietLemma DEF Waiting, Serving, Engaged, Walk
  <2> QED
    BY <1>5, <2>1, CommitLemma DEF ReconfirmOther
<1>6. CASE RescheduleSelected
  <2> DEFINE chosen == IF walk.assigned # None THEN walk.assigned ELSE walk.walker
             w == [walk EXCEPT !.status = "pending_walker_confirmation",
                    !.finished = FALSE, !.walker = chosen, !.assigned = chosen]
  <2>1. w \in Walk /\ w.status \notin Engaged
    BY <1>0 DEF Walk, Serving, Engaged, Status, Waiting
  <2>2. Commit(StartMatching(w))
    BY <1>6 DEF RescheduleSelected
  <2> HIDE DEF w
  <2> QED
    BY <2>1, <2>2, SearchAfterWrite, CommitLemma
<1>7. ASSUME NEW w \in Walk PROVE \A v \in BackToSearch(w) : Sound(v)
  <2> DEFINE w1 == [w EXCEPT !.status = "pending_walker_confirmation", !.finished = FALSE]
             w2 == [w EXCEPT !.status = "awaiting_payment", !.finished = FALSE]
  <2>1. w1 \in Walk /\ w1.status \notin Engaged
    BY DEF Walk, Serving, Engaged, Status, Waiting
  <2>2. w2 \in Walk /\ w2.status \notin Waiting \cup Engaged
    BY DEF Walk, Serving, Engaged, Status, Waiting
  <2>3. BackToSearch(w) = IF paid THEN StartMatching(w1) ELSE {w2}
    BY DEF BackToSearch
  <2> HIDE DEF w1, w2
  <2>4. \A v \in StartMatching(w1) : Sound(v)
    BY <2>1, SearchAfterWrite
  <2>5. Sound(w2)
    BY <2>2, QuietLemma
  <2> QED
    BY <2>3, <2>4, <2>5
<1>8. CASE DecideReschedule
  BY <1>0, <1>7, <1>8, CommitLemma DEF DecideReschedule
<1>9. CASE DecideSwitch
  <2> DEFINE w == [walk EXCEPT !.mode = "auto", !.walker = None, !.assigned = None]
  <2>1. w \in Walk
    BY <1>0 DEF Walk, Mode
  <2>2. Commit(BackToSearch(w))
    BY <1>9 DEF DecideSwitch
  <2> HIDE DEF w
  <2> QED
    BY <1>7, <2>1, <2>2, CommitLemma
<1> QED
  BY <1>2, <1>3, <1>4, <1>5, <1>6, <1>8, <1>9 DEF TutorStep

LEMMA WalkerKeepsInv ==
  ASSUME Inv, NEW c \in Walkers, WalkerStep(c) PROVE Inv'
<1> USE InvIsSound
<1>0. /\ walk \in Walk /\ Sound(walk) /\ (Clean => Served(walk))
      /\ walk.status = "ride_completed" => Approved
  BY DEF Sound
<1>1. CASE Accept(c)
  BY <1>0, <1>1, SoundAccept, CommitLemma DEF Accept
<1>2. CASE Decline(c)
  <2>1. PICK v \in Sweep(walk) : \E i \in Pending(v) :
          Commit(Rematch(Close(v, {i}, "declined")))
    BY <1>2 DEF Decline
  <2>2. PICK i \in Pending(v) : Commit(Rematch(Close(v, {i}, "declined")))
    BY <2>1
  <2>3. Close(v, {i}, "declined") \in Walk
    BY <1>0, SweepLemma, CloseLemma DEF OfferStatus
  <2> QED
    BY <2>2, <2>3, SoundSearch, CommitLemma
<1>3. ASSUME NEW from \in SUBSET Serving, NEW to \in Serving, Advance(c, from, to)
      PROVE  Inv'
  <2> DEFINE w == [walk EXCEPT !.status = to]
  <2>1. /\ w \in Walk /\ w.status = to /\ w.offers = walk.offers
        /\ w.walker = walk.walker
    BY <1>0 DEF Walk, Status
  <2>2. walk.status \in Serving /\ Commit({w})
    BY <1>3 DEF Advance
  <2> HIDE DEF w
  <2>3. Sound(w)
    BY <1>0, <2>1, <2>2 DEF Sound, Served, Serving, Waiting
  <2> QED
    BY <2>2, <2>3, CommitLemma
<1>4. CASE CheckIn(c) \/ Handover(c) \/ BeginRide(c)
  BY <1>3, <1>4 DEF CheckIn, Handover, BeginRide, Serving
<1>5. CASE SubmitReport(c) \/ ApproveReport(c) \/ RejectReport(c)
  <2>1. /\ walk' \in Walk /\ review' \in [Walkers -> ReviewStatus]
        /\ walk'.status \notin Waiting \cup Serving
        /\ walk'.status = "ride_completed" => Approved'
        /\ UNCHANGED <<paid, covered, starting>>
    BY <1>0, <1>5 DEF SubmitReport, ApproveReport, RejectReport, Reviewed, Walk,
       Status, Waiting, Serving, ReviewStatus, Approved
  <2> QED
    BY <2>1 DEF Inv, TypeOK, SearchHasOffer, ServedByAccepter,
       CompletedOnApproval, Approved
<1>6. CASE \E st \in RawStatuses : WalkerStatus(c, st)
  <2>1. PICK st \in RawStatuses : WalkerStatus(c, st)
    BY <1>6
  <2>2. \A v \in Walk : Sound(WriteStatus(v, st))
    BY WriteLemma
  <2>3. \A v \in Accepted(walk, c) : v \in Walk
    BY <1>0, SoundAccept DEF Sound
  <2> QED
    BY <1>0, <2>1, <2>2, <2>3, CommitLemma DEF WalkerStatus
<1> QED
  BY <1>1, <1>2, <1>4, <1>5, <1>6 DEF WalkerStep

LEMMA OthersKeepInv ==
  ASSUME Inv, Recover \/ Elapse \/ ExpireOffers \/ \E st \in RawStatuses : RawStatus(st)
  PROVE  Inv'
<1> USE InvIsSound
<1>0. walk \in Walk /\ Sound(walk)
  BY DEF Sound
<1>1. CASE Recover
  <2>1. ASSUME NEW v \in Sweep(walk)
        PROVE  Sound([v EXCEPT !.status = "awaiting_tutor_reconfirmation",
                 !.walker = None, !.assigned = None, !.finished = FALSE])
    <3> DEFINE u == [v EXCEPT !.status = "awaiting_tutor_reconfirmation",
                 !.walker = None, !.assigned = None, !.finished = FALSE]
    <3>1. u \in Walk /\ u.status = "awaiting_tutor_reconfirmation"
      BY <1>0, SweepLemma DEF Walk, Status, Decision
    <3> QED
      BY <3>1, QuietLemma DEF Waiting, Serving, Engaged
  <2> QED
    BY <1>1, <2>1, CommitLemma DEF Recover
<1>2. CASE Elapse
  <2>1. PICK i \in Pending(walk) \ DueOffers(walk) :
    Commit({[walk EXCEPT !.offers = [j \in DOMAIN walk.offers |->
              IF j <= i /\ j \in Pending(walk)
                THEN [walk.offers[j] EXCEPT !.due = TRUE]
                ELSE walk.offers[j]]]})
    BY <1>2 DEF Elapse
  <2> DEFINE os == [j \in DOMAIN walk.offers |->
                     IF j <= i /\ j \in Pending(walk)
                       THEN [walk.offers[j] EXCEPT !.due = TRUE]
                       ELSE walk.offers[j]]
             w == [walk EXCEPT !.offers = os]
  <2>2. walk.offers \in Seq(Offer) /\ DOMAIN walk.offers = 1..Len(walk.offers)
        /\ Len(walk.offers) \in Nat
    BY <1>0 DEF Walk
  <2>3. ASSUME NEW j \in DOMAIN walk.offers
        PROVE  /\ os[j] \in Offer
               /\ os[j].status = walk.offers[j].status
               /\ os[j].walker = walk.offers[j].walker
    <3>1. walk.offers[j] \in Offer
      BY <2>2
    <3>2. os[j] = IF j <= i /\ j \in Pending(walk)
                    THEN [walk.offers[j] EXCEPT !.due = TRUE]
                    ELSE walk.offers[j]
      OBVIOUS
    <3> HIDE DEF os
    <3> QED
      BY <3>1, <3>2 DEF Offer
  <2>4. os \in [1..Len(walk.offers) -> Offer]
    BY <2>2, <2>3
  <2> HIDE DEF os
  <2>5. os \in Seq(Offer) /\ DOMAIN os = DOMAIN walk.offers
    BY <2>2, <2>4
  <2>6. /\ w \in Walk /\ w.offers = os /\ w.status = walk.status
        /\ w.walker = walk.walker /\ w.orphan = walk.orphan
    BY <1>0, <2>5 DEF Walk
  <2> HIDE DEF w
  <2>7. Pending(w) = Pending(walk)
    BY <2>3, <2>5, <2>6 DEF Pending
  <2>8. Sound(w)
    BY <1>0, <2>3, <2>5, <2>6, <2>7 DEF Sound, Served
  <2>9. Commit({w})
    BY <2>1 DEF w, os
  <2> QED
    BY <2>8, <2>9, CommitLemma
<1>3. CASE ExpireOffers
  BY <1>0, <1>3, SoundSearch, CommitLemma DEF ExpireOffers
<1>4. CASE \E st \in RawStatuses : RawStatus(st)
  BY <1>0, <1>4, WriteLemma, CommitLemma DEF RawStatus
<1> QED
  BY <1>1, <1>2, <1>3, <1>4

----------------------------------------------------------------------------
(* The theorems *)

LEMMA InitInv == Init => Inv
<1> SUFFICES ASSUME Init PROVE Inv
  OBVIOUS
<1> DEFINE st == IF PaymentGate THEN "awaiting_payment"
                                 ELSE "pending_walker_confirmation"
<1>b. walk \in [status : {st}, mode : Mode, assigned : Walkers \cup {None},
                walker : Walkers \cup {None}, finished : {FALSE},
                orphan : {FALSE}, offers : {<<>>}]
  BY DEF Init
<1>c. /\ st \in Status
      /\ st \notin Engaged
      /\ st \in Waiting => ~PaymentGate
  BY BoundsAssumption DEF Status, Waiting, Serving, Engaged
<1>d. <<>> \in Seq(Offer)
  OBVIOUS
<1> HIDE DEF st
<1>e. walk \in Walk /\ walk.status = st
  BY <1>b, <1>c, <1>d DEF Walk
<1>1. walk \in Walk /\ review \in [Walkers -> ReviewStatus]
  BY <1>e DEF Init, ReviewStatus
<1>2. walk.status \notin Engaged /\ (walk.status \in Waiting => starting)
  BY <1>c, <1>e DEF Init
<1> QED
  BY <1>1, <1>2, BoundsAssumption DEF Init, Inv, TypeOK, SearchHasOffer,
     ServedByAccepter, CompletedOnApproval, Engaged

LEMMA NextInv == Inv /\ [Next]_vars => Inv'
<1> SUFFICES ASSUME Inv, [Next]_vars PROVE Inv'
  OBVIOUS
<1>1. CASE Next
  BY <1>1, ReleaseKeepsInv, TutorKeepsInv, WalkerKeepsInv, OthersKeepInv DEF Next
<1>2. CASE UNCHANGED vars
  BY <1>2 DEF vars, Inv, TypeOK, SearchHasOffer, ServedByAccepter,
     CompletedOnApproval, Pending
<1> QED
  BY <1>1, <1>2

LEMMA InvHolds == Spec => []Inv
BY InitInv, NextInv, PTL DEF Spec

\* Every reachable row of the walk and of its attempts is well formed, whatever
\* statuses are written by hand.
THEOREM TypeCorrect == Spec => []TypeOK
<1>1. Inv => TypeOK
  BY DEF Inv
<1> QED
  BY <1>1, InvHolds, PTL

\* However the offers, expiries, manual rematches, recoveries and late answers
\* interleave, a walk in service was accepted by the walker who serves it, as
\* long as no status of the search or the service is written by hand.
THEOREM ServiceIsAccepted ==
  ASSUME RawStatuses \cap (Waiting \cup Serving) = {}
  PROVE  Spec => []ServedByAccepter
<1>1. Inv => ServedByAccepter
  BY DEF Inv, Clean
<1> QED
  BY <1>1, InvHolds, PTL

\* A walk that waits has an offer open, unless its search has yet to start or
\* its start was lost, for any number of walkers and any limit of attempts.
THEOREM NoOrphanSearch ==
  ASSUME RawStatuses \cap (Waiting \cup Serving) = {}
  PROVE  Spec => []SearchHasOffer
<1>1. Inv => SearchHasOffer
  BY DEF Inv, Clean
<1> QED
  BY <1>1, InvHolds, PTL

\* A walk is completed only on a report an admin approved: whatever statuses
\* the apps and staff write by hand (none of them writes the completion), and
\* whichever report is submitted, rejected or approved in which order.
THEOREM CompletionIsApproved == Spec => []CompletedOnApproval
<1>1. Inv => CompletedOnApproval
  BY DEF Inv
<1> QED
  BY <1>1, InvHolds, PTL

----------------------------------------------------------------------------
(* What a step does to the offers of a walk *)

\* The offers there are keep their walker, and those answered their answer.
Kept(w, v) == \A i \in DOMAIN w.offers :
  /\ i \in DOMAIN v.offers /\ v.offers[i].walker = w.offers[i].walker
  /\ i \notin Pending(w) => v.offers[i] = w.offers[i]

New(w, v) == {v.offers[i].walker : i \in (DOMAIN v.offers) \ DOMAIN w.offers}

\* What the search does by itself: it goes to walkers it has not tried, and to none once the
\* attempts are used up or while the tutor chose one walker.
Searched(w, v) ==
  /\ Kept(w, v) /\ New(w, v) \cap Attempted(w) = {} /\ v.mode = w.mode
  /\ w.mode = "only_selected" \/ Len(w.offers) >= MaxAttempts => DOMAIN v.offers = DOMAIN w.offers
  /\ w.mode = "only_selected" /\ v.status = "auto_rematching" => w.status = "auto_rematching"

\* What any step does: it may send one offer more, to whom the tutor chose.
Answers(w, v) ==
  /\ Kept(w, v)
  /\ v.status = "auto_rematching" => New(w, v) \cap Attempted(w) = {}
  /\ Len(w.offers) >= MaxAttempts /\ Len(v.offers) > Len(w.offers) =>
       Len(v.offers) = Len(w.offers) + 1 /\ Pending(v) = {Len(v.offers)}
Chosen(w, v) ==
  /\ v.mode = w.mode
  /\ w.mode = "only_selected" =>
       /\ New(w, v) \subseteq {w.assigned, w.walker}
       /\ v.status = "auto_rematching" => w.status = "auto_rematching"

LEMMA OffersAre ==
  ASSUME NEW w \in Walk
  PROVE  /\ w.offers \in Seq(Offer) /\ Len(w.offers) \in Nat
         /\ DOMAIN w.offers = 1 .. Len(w.offers) /\ \A i \in DOMAIN w.offers : w.offers[i] \in Offer
<1>1. w.offers \in Seq(Offer) BY DEF Walk
<1> QED BY <1>1, LenProperties, ElementOfSeq

LEMMA SameOffers ==
  ASSUME NEW w, NEW v, v.offers = w.offers
  PROVE  Kept(w, v) /\ New(w, v) = {}
BY DEF Kept, New

LEMMA KeptOn ==
  ASSUME NEW w, NEW u, NEW v, Kept(w, u), Kept(u, v)
  PROVE  /\ Kept(w, v) /\ Attempted(w) \subseteq Attempted(u)
         /\ New(w, v) \subseteq New(w, u) \cup New(u, v)
<1>1. ASSUME NEW i \in DOMAIN w.offers
      PROVE  /\ i \in DOMAIN v.offers /\ v.offers[i].walker = w.offers[i].walker
             /\ i \notin Pending(w) => v.offers[i] = w.offers[i]
             /\ w.offers[i].walker \in Attempted(u)
  <2>1. /\ i \in DOMAIN u.offers /\ u.offers[i].walker = w.offers[i].walker
        /\ i \notin Pending(w) => u.offers[i] = w.offers[i]
    BY DEF Kept
  <2>2. /\ i \in DOMAIN v.offers /\ v.offers[i].walker = u.offers[i].walker
        /\ i \notin Pending(u) => v.offers[i] = u.offers[i]
    BY <2>1 DEF Kept
  <2>3. i \notin Pending(w) => i \notin Pending(u) BY <2>1 DEF Pending
  <2> QED BY <2>1, <2>2, <2>3 DEF Attempted
<1>2. ASSUME NEW x \in New(w, v) PROVE x \in New(w, u) \cup New(u, v)
  <2>1. PICK i \in DOMAIN v.offers : i \notin DOMAIN w.offers /\ x = v.offers[i].walker
    BY DEF New
  <2>2. CASE i \in DOMAIN u.offers
    <3>1. v.offers[i].walker = u.offers[i].walker BY <2>2 DEF Kept
    <3> QED BY <2>1, <2>2, <3>1 DEF New
  <2>3. CASE i \notin DOMAIN u.offers BY <2>1, <2>3 DEF New
  <2> QED BY <2>2, <2>3
<1>3. Attempted(w) \subseteq Attempted(u) BY <1>1 DEF Attempted
<1> QED BY <1>1, <1>2, <1>3 DEF Kept

LEMMA SearchedOn ==
  ASSUME NEW w \in Walk, NEW u \in Walk, NEW v \in Walk, Searched(w, u), Searched(u, v)
  PROVE  Searched(w, v)
<1>1. Kept(w, v) /\ New(w, v) \cap Attempted(w) = {} BY KeptOn DEF Searched
<1>2. DOMAIN u.offers = DOMAIN w.offers => Len(u.offers) = Len(w.offers) BY OffersAre
<1> QED BY <1>1, <1>2 DEF Searched

\* A walk written over whose offers are left alone.
LEMMA Rewritten ==
  ASSUME NEW w \in Walk, NEW u \in Walk, Searched(w, u), NEW v \in Walk, v.offers = u.offers
  PROVE  /\ Answers(w, v)
         /\ v.mode = w.mode /\ v.status # "auto_rematching" => Searched(w, v)
<1>1. Kept(w, v) BY DEF Searched, Kept
<1>2. New(w, v) = New(w, u) BY DEF New
<1>3. DOMAIN u.offers = DOMAIN w.offers => Len(u.offers) = Len(w.offers) BY OffersAre
<1>4. Len(u.offers) \in Nat /\ Len(w.offers) \in Nat BY OffersAre
<1>5. Answers(w, v) BY <1>1, <1>2, <1>3, <1>4 DEF Searched, Answers
<1> QED BY <1>1, <1>2, <1>5 DEF Searched

LEMMA SearchedProceeds ==
  ASSUME NEW w \in Walk, NEW v \in Walk, Searched(w, v)
  PROVE  Answers(w, v) /\ Chosen(w, v)
<1>1. w.mode = "only_selected" => New(w, v) = {} BY DEF Searched, New
<1> QED BY <1>1, Rewritten DEF Searched, Chosen

LEMMA Same == ASSUME NEW w \in Walk PROVE Searched(w, w)
BY SameOffers DEF Searched

\* Attempts that wait for an answer are closed.
LEMMA ClosesPending ==
  ASSUME NEW w \in Walk, NEW S \in SUBSET Pending(w), NEW st \in OfferStatus, NEW v,
         v = Close(w, S, st)
  PROVE  v \in Walk /\ Searched(w, v) /\ v.assigned = w.assigned /\ v.walker = w.walker
<1>1. /\ v \in Walk /\ v.status = w.status /\ DOMAIN v.offers = DOMAIN w.offers
      /\ \A i \in DOMAIN w.offers : i \notin S => v.offers[i] = w.offers[i]
  BY CloseLemma
<1>2. v.mode = w.mode /\ v.assigned = w.assigned /\ v.walker = w.walker BY DEF Close, Walk
<1>3. \A i \in DOMAIN w.offers : v.offers[i].walker = w.offers[i].walker
  <2>1. SUFFICES ASSUME NEW i \in DOMAIN w.offers, i \in S
                 PROVE  v.offers[i].walker = w.offers[i].walker
    BY <1>1
  <2>2. v.offers[i] = [w.offers[i] EXCEPT !.status = st, !.due = FALSE]
    BY <2>1 DEF Close, Walk
  <2>3. w.offers[i] \in Offer BY OffersAre
  <2> QED BY <2>2, <2>3 DEF Offer
<1>4. Kept(w, v) BY <1>1, <1>3 DEF Kept
<1>5. New(w, v) = {} BY <1>1 DEF New
<1> QED BY <1>1, <1>2, <1>4, <1>5 DEF Searched

\* What is offered more leaves what was offered as it is.
Extends(w, v) == \A i \in DOMAIN w.offers : i \in DOMAIN v.offers /\ v.offers[i] = w.offers[i]

\* A run of rematches goes to walkers not tried before, within the attempts.
LEMMA SearchOnSearches ==
  ASSUME NEW w \in Walk, w.mode # "only_selected", NEW k \in Nat, NEW c \in Chains(w, k),
         NEW v, v = SearchOn(w, c)
  PROVE  v \in Walk /\ Searched(w, v) /\ Extends(w, v)
<1>1. v \in Walk /\ (k = 0 => v = w) BY SearchOnLemma
<1>2. CASE k = 0 BY <1>1, <1>2, Same DEF Extends
<1>3. CASE k > 0
  <2>1. /\ c \in [1 .. k -> Walkers \ Attempted(w)] /\ Len(w.offers) + k <= MaxAttempts
        /\ DOMAIN c = 1 .. k
    BY <1>3 DEF Chains
  <2>2. c \in Seq(Walkers \ Attempted(w)) /\ Len(c) = k BY <2>1
  <2>3. PICK new : new = [i \in DOMAIN c |-> NewOffer(c[i])] OBVIOUS
  <2>4. \A i \in DOMAIN c : new[i] \in Offer /\ new[i].walker = c[i]
    BY <2>1, <2>3 DEF NewOffer, Offer, OfferStatus
  <2>5. new \in Seq(Offer) /\ Len(new) = k BY <2>1, <2>3, <2>4
  <2>6. PICK os : os = w.offers \o new OBVIOUS
  <2>7. c # <<>> BY <1>3, <2>2
  <2>8. v.offers = os /\ v.mode = w.mode BY <2>3, <2>6, <2>7 DEF SearchOn, Walk
  <2>9. Len(w.offers) \in Nat /\ DOMAIN w.offers = 1 .. Len(w.offers) BY OffersAre
  <2>10. /\ DOMAIN os = 1 .. Len(w.offers) + k
         /\ \A i \in 1 .. Len(w.offers) + k :
              os[i] = IF i <= Len(w.offers) THEN w.offers[i] ELSE new[i - Len(w.offers)]
    <3>1. os \in Seq(Offer) /\ Len(os) = Len(w.offers) + Len(new)
      BY <2>5, <2>6, OffersAre, ConcatProperties
    <3>2. \A i \in 1 .. Len(w.offers) + Len(new) :
            os[i] = IF i <= Len(w.offers) THEN w.offers[i] ELSE new[i - Len(w.offers)]
      BY <2>5, <2>6, OffersAre, ConcatProperties
    <3> QED BY <2>5, <3>1, <3>2, LenProperties
  <2>11. Kept(w, v) /\ Extends(w, v) BY <2>8, <2>9, <2>10 DEF Kept, Extends
  <2>12. New(w, v) \cap Attempted(w) = {}
    <3>1. ASSUME NEW i \in DOMAIN os, i \notin DOMAIN w.offers
          PROVE  os[i].walker \notin Attempted(w)
      <4>1. i - Len(w.offers) \in 1 .. k /\ os[i] = new[i - Len(w.offers)]
        BY <2>9, <2>10, <3>1
      <4> QED BY <2>1, <2>4, <4>1
    <3> QED BY <2>8, <3>1 DEF New
  <2>13. ~(Len(w.offers) >= MaxAttempts) BY <1>3, <2>1, <2>9, BoundsAssumption
  <2> QED BY <1>1, <2>8, <2>11, <2>12, <2>13 DEF Searched
<1> QED BY <1>2, <1>3

LEMMA GivesUp ==
  ASSUME NEW w \in Walk, NEW v \in {GiveUp(w), Unavailable(w)}
  PROVE  /\ v \in Walk /\ v.offers = w.offers /\ v.mode = w.mode /\ v.status # "auto_rematching"
         /\ v.assigned = w.assigned /\ v.walker = w.walker
<1>1. v \in Walk /\ v.status \in Decision BY GiveUpLemma
<1>2. v.status # "auto_rematching" BY <1>1 DEF Decision
<1>3. v.offers = w.offers /\ v.mode = w.mode /\ v.assigned = w.assigned /\ v.walker = w.walker
  BY DEF GiveUp, Unavailable, Walk
<1> QED BY <1>1, <1>2, <1>3

LEMMA RematchesSearch ==
  ASSUME NEW w \in Walk, NEW n \in Nat, NEW r \in Rematches(w, n)
  PROVE  /\ r.walk \in Walk /\ Searched(w, r.walk) /\ Extends(w, r.walk)
         /\ w.mode = "only_selected" => r.walk.assigned = w.assigned /\ r.walk.walker = w.walker
<1>1. CASE w.mode = "only_selected"
  <2>1. PICK v : v = Unavailable(w) OBVIOUS
  <2>2. r.walk = v BY <1>1, <2>1 DEF Rematches
  <2>3. /\ v \in Walk /\ v.offers = w.offers /\ v.mode = w.mode /\ v.status # "auto_rematching"
        /\ v.assigned = w.assigned /\ v.walker = w.walker
    BY <2>1, GivesUp
  <2>4. Searched(w, v) BY <2>3, Same, Rewritten
  <2> QED BY <2>2, <2>3, <2>4 DEF Extends
<1>2. CASE w.mode # "only_selected"
  <2>1. CASE \E c \in Chains(w, n) : r = [walk |-> SearchOn(w, c), calls |-> n]
    <3>1. PICK c \in Chains(w, n) : r.walk = SearchOn(w, c) BY <2>1
    <3> QED BY <1>2, <3>1, SearchOnSearches
  <2>2. CASE \E k \in 0 .. (n - 1) : \E c \in Chains(w, k) :
               r = [walk |-> GiveUp(SearchOn(w, c)), calls |-> k + 1]
    <3>1. PICK k \in 0 .. (n - 1) : \E c \in Chains(w, k) : r.walk = GiveUp(SearchOn(w, c))
      BY <2>2
    <3>2. PICK c \in Chains(w, k) : r.walk = GiveUp(SearchOn(w, c)) BY <3>1
    <3>3. PICK u : u = SearchOn(w, c) OBVIOUS
    <3>4. u \in Walk /\ Searched(w, u) /\ Extends(w, u) BY <1>2, <3>3, SearchOnSearches
    <3>5. PICK v : v = GiveUp(u) OBVIOUS
    <3>6. v \in Walk /\ v.offers = u.offers /\ v.mode = u.mode /\ v.status # "auto_rematching"
      BY <3>4, <3>5, GivesUp
    <3>7. Searched(w, v) BY <3>4, <3>6, Rewritten DEF Searched
    <3>8. Extends(w, v) BY <3>4, <3>6 DEF Extends
    <3> QED BY <1>2, <3>2, <3>3, <3>5, <3>6, <3>7, <3>8
  <2> QED BY <1>2, <2>1, <2>2 DEF Rematches
<1> QED BY <1>1, <1>2

LEMMA RematchSearches == ASSUME NEW w \in Walk, NEW v \in Rematch(w) PROVE v \in Walk /\ Searched(w, v)
<1>1. PICK r \in Rematches(w, 1) : v = r.walk BY DEF Rematch
<1> QED BY <1>1, RematchesSearch

\* The sweep closes what is due and goes on from there.
LEMMA SweepSearches ==
  ASSUME NEW w \in Walk, NEW v \in Sweep(w)
  PROVE  /\ v \in Walk /\ Searched(w, v)
         /\ w.mode = "only_selected" => v.assigned = w.assigned /\ v.walker = w.walker
<1>1. CASE w.status \notin Waiting \/ DueOffers(w) = {} BY <1>1, Same DEF Sweep
<1>2. CASE w.status \in Waiting /\ DueOffers(w) # {}
  <2>1. PICK r \in Rematches(w, Cardinality(DueOffers(w))) :
          v = Close(r.walk, FirstOf(DueOffers(w), r.calls), "expired")
    BY <1>2 DEF Sweep
  <2>2. PICK u : u = r.walk OBVIOUS
  <2>3. /\ u \in Walk /\ Searched(w, u) /\ Extends(w, u)
        /\ w.mode = "only_selected" => u.assigned = w.assigned /\ u.walker = w.walker
    BY <1>2, <2>1, <2>2, DueCount, RematchesSearch
  <2>4. PICK S : S = FirstOf(DueOffers(w), r.calls) OBVIOUS
  <2>5. S \subseteq Pending(w) BY <2>4 DEF FirstOf, DueOffers
  <2>6. Pending(w) \subseteq Pending(u) BY <2>3 DEF Extends, Pending
  <2>7. S \in SUBSET Pending(u) /\ v = Close(u, S, "expired") BY <2>1, <2>2, <2>4, <2>5, <2>6
  <2>8. v \in Walk /\ Searched(u, v) /\ v.assigned = u.assigned /\ v.walker = u.walker
    BY <2>3, <2>7, ClosesPending DEF OfferStatus
  <2> QED BY <2>3, <2>8, SearchedOn
<1> QED BY <1>1, <1>2

----------------------------------------------------------------------------
(* What every step of the walk does to its offers *)

\* Somebody writes by hand that the search is going on.
ByHand == "auto_rematching" \in RawStatuses

Lifted(w, v) == w.status \in Decision \cup {"auto_rematching"} /\ v.mode = "auto"
Moves(w, v) == Answers(w, v) /\ (ByHand \/ Chosen(w, v) \/ Lifted(w, v))

LEMMA SearchedMoves == ASSUME NEW w \in Walk, NEW v \in Walk, Searched(w, v) PROVE Moves(w, v)
BY SearchedProceeds DEF Moves

\* A row the search left, written over: its offers and its mode stay.
LEMMA WrittenMoves ==
  ASSUME NEW w \in Walk, NEW u \in Walk, Searched(w, u), NEW v \in Walk,
         v.offers = u.offers, v.mode = u.mode,
         ByHand \/ v.status # "auto_rematching" \/ v.status = u.status
  PROVE  Moves(w, v)
<1>1. Answers(w, v) BY Rewritten
<1>2. CASE ByHand BY <1>1, <1>2 DEF Moves
<1>3. CASE v.status # "auto_rematching"
  BY <1>3, Rewritten, SearchedMoves DEF Searched
<1>4. CASE v.status = u.status
  <2>1. New(w, v) = New(w, u) /\ Kept(w, v) BY DEF New, Kept, Searched
  <2>2. Searched(w, v) BY <1>4, <2>1 DEF Searched
  <2> QED BY <2>2, SearchedMoves
<1> QED BY <1>2, <1>3, <1>4

\* One offer more, when nobody can answer an earlier one.
LEMMA SentAnswers ==
  ASSUME NEW u \in Walk, NEW c \in Walkers, NEW v, v.offers = Append(u.offers, NewOffer(c)),
         Pending(u) = {}
  PROVE  /\ Kept(u, v) /\ New(u, v) = {c}
         /\ Len(v.offers) = Len(u.offers) + 1 /\ Pending(v) = {Len(v.offers)}
<1>1. u.offers \in Seq(Offer) /\ NewOffer(c) \in Offer BY OffersAre DEF NewOffer, Offer, OfferStatus
<1>2. NewOffer(c).walker = c /\ NewOffer(c).status = "pending" BY DEF NewOffer
<1>3. PICK n : n = Len(u.offers) OBVIOUS
<1>4. n \in Nat /\ DOMAIN u.offers = 1 .. n BY <1>3, OffersAre
<1>5. /\ Len(v.offers) = n + 1 /\ DOMAIN v.offers = 1 .. n + 1 /\ v.offers[n + 1] = NewOffer(c)
      /\ \A i \in 1 .. n : v.offers[i] = u.offers[i]
  BY <1>1, <1>3, AppendProperties, LenProperties
<1>6. Kept(u, v) BY <1>4, <1>5 DEF Kept
<1>7. (DOMAIN v.offers) \ DOMAIN u.offers = {n + 1} BY <1>4, <1>5
<1>8. New(u, v) = {c} BY <1>2, <1>5, <1>7 DEF New
<1>9. \A i \in 1 .. n : v.offers[i].status # "pending" BY <1>4, <1>5 DEF Pending
<1>10. \A i \in 1 .. n + 1 : i \in 1 .. n \/ i = n + 1 BY <1>4
<1>11. n + 1 \in 1 .. n + 1 BY <1>4
<1>12. Pending(v) = {n + 1} BY <1>2, <1>5, <1>9, <1>10, <1>11 DEF Pending
<1> QED BY <1>3, <1>5, <1>6, <1>8, <1>12

\* start_matching: nothing, a search given up, or one offer where none is open; an exclusive
\* walker is the one the row points at.
LEMMA StartSends ==
  ASSUME NEW u \in Walk, NEW v \in Start(u)
  PROVE  /\ v \in Walk /\ v.mode = u.mode
         /\ \/ v = u
            \/ v.offers = u.offers /\ v.status # "auto_rematching"
            \/ /\ Pending(u) = {} /\ v.status # "auto_rematching"
               /\ \E c \in Walkers : /\ v.offers = Append(u.offers, NewOffer(c))
                                     /\ u.mode = "only_selected" => c \in {u.assigned, u.walker}
<1> DEFINE u0 == [u EXCEPT !.finished = FALSE, !.orphan = FALSE]
<1>1. /\ u0 \in Walk /\ u0.mode = u.mode /\ u0.offers = u.offers
      /\ u0.assigned = u.assigned /\ u0.walker = u.walker
  BY DEF Walk
<1> DEFINE skips == u.finished /\ u.status \in {"walker_accepted", "ride_scheduled",
             "walker_arriving", "ride_in_progress", "ride_completed"}
           selected == IF u0.assigned # None THEN u0.assigned ELSE u0.walker
           nobody == [u0 EXCEPT !.status = "no_walker_found", !.finished = TRUE]
           sent(c) == SendOffer(u0, c, "pending_walker_confirmation")
<1>2. selected \in {u.assigned, u.walker} /\ (selected = None \/ selected \in Walkers)
  BY <1>1 DEF Walk
<1>3. Start(u) = IF skips \/ Pending(u) # {} THEN {u}
                 ELSE IF u0.mode = "only_selected"
                      THEN {Unavailable(u0)} \cup (IF selected = None THEN {} ELSE {sent(selected)})
                      ELSE {sent(c) : c \in Walkers} \cup {nobody}
  BY DEF Start
<1>4. /\ nobody \in Walk /\ nobody.offers = u.offers /\ nobody.mode = u.mode
      /\ nobody.status # "auto_rematching"
  BY <1>1 DEF Walk, Status, Decision
<1>5. ASSUME NEW x, x = Unavailable(u0)
      PROVE  x \in Walk /\ x.offers = u.offers /\ x.mode = u.mode /\ x.status # "auto_rematching"
  BY <1>1, <1>5, GivesUp
<1>6. ASSUME NEW c \in Walkers
      PROVE  /\ sent(c) \in Walk /\ sent(c).mode = u.mode /\ sent(c).status # "auto_rematching"
             /\ sent(c).offers = Append(u.offers, NewOffer(c))
  <2>1. "pending_walker_confirmation" \in Status BY DEF Status, Waiting
  <2>2. sent(c) \in Walk /\ sent(c).status = "pending_walker_confirmation"
    BY <1>1, <2>1, SendOfferLemma
  <2>3. sent(c).mode = u0.mode /\ sent(c).offers = Append(u0.offers, NewOffer(c))
    BY <1>1 DEF SendOffer, Walk
  <2> QED BY <1>1, <2>2, <2>3
<1> HIDE DEF u0, skips, selected, nobody, sent
<1>7. CASE skips \/ Pending(u) # {} BY <1>3, <1>7
<1>8. CASE ~(skips \/ Pending(u) # {}) /\ u0.mode = "only_selected"
  <2>1. CASE v = Unavailable(u0) BY <1>5, <2>1
  <2>2. CASE v = sent(selected) /\ selected # None BY <1>2, <1>6, <1>8, <2>2
  <2> QED BY <1>3, <1>8, <2>1, <2>2
<1>9. CASE ~(skips \/ Pending(u) # {}) /\ u0.mode # "only_selected"
  <2>1. CASE v = nobody BY <1>4, <2>1
  <2>2. CASE \E c \in Walkers : v = sent(c) BY <1>1, <1>6, <1>9, <2>2
  <2> QED BY <1>3, <1>9, <2>1, <2>2
<1> QED BY <1>7, <1>8, <1>9

LEMMA StartingProceeds ==
  ASSUME NEW w \in Walk, NEW v \in StartMatching(w)
  PROVE  v \in Walk /\ Answers(w, v) /\ Chosen(w, v)
<1>1. PICK u \in Sweep(w) : v \in Start(u) BY DEF StartMatching
<1>2. /\ u \in Walk /\ Searched(w, u)
      /\ w.mode = "only_selected" => u.assigned = w.assigned /\ u.walker = w.walker
  BY SweepSearches
<1>3. v \in Walk /\ v.mode = u.mode /\ u.mode = w.mode BY <1>1, <1>2, StartSends DEF Searched
<1>4. CASE v = u BY <1>2, <1>4, SearchedProceeds
<1>5. CASE v.offers = u.offers /\ v.status # "auto_rematching"
  BY <1>2, <1>3, <1>5, Rewritten, SearchedProceeds
<1>6. ASSUME NEW c \in Walkers, Pending(u) = {}, v.status # "auto_rematching",
             v.offers = Append(u.offers, NewOffer(c)),
             u.mode = "only_selected" => c \in {u.assigned, u.walker}
      PROVE  Answers(w, v) /\ Chosen(w, v)
  <2>1. /\ Kept(u, v) /\ New(u, v) = {c}
        /\ Len(v.offers) = Len(u.offers) + 1 /\ Pending(v) = {Len(v.offers)}
    BY <1>2, <1>6, SentAnswers
  <2>2. Kept(w, v) /\ New(w, v) \subseteq New(w, u) \cup {c}
    BY <1>2, <2>1, KeptOn DEF Searched
  <2>3. DOMAIN u.offers = DOMAIN w.offers => Len(u.offers) = Len(w.offers) /\ New(w, u) = {}
    BY <1>2, OffersAre DEF New
  <2>4. Answers(w, v)
    BY <1>2, <1>6, <2>1, <2>2, <2>3 DEF Answers, Searched
  <2>5. Chosen(w, v)
    <3>1. w.mode = "only_selected" => New(w, v) \subseteq {c} /\ c \in {w.assigned, w.walker}
      BY <1>2, <1>3, <1>6, <2>2, <2>3 DEF Searched
    <3> QED BY <1>3, <1>6, <3>1 DEF Chosen
  <2> QED BY <2>4, <2>5
<1> QED BY <1>1, <1>2, <1>3, <1>4, <1>5, <1>6, StartSends

LEMMA StartingMoves == ASSUME NEW w \in Walk, NEW v \in StartMatching(w) PROVE Moves(w, v)
BY StartingProceeds DEF Moves

\* A search opened on a row that was written over first.
LEMMA StartingOver ==
  ASSUME NEW w \in Walk, NEW u \in Walk, u.offers = w.offers, NEW v \in StartMatching(u),
         \/ /\ u.mode = w.mode /\ u.status # "auto_rematching"
            /\ {u.assigned, u.walker} \subseteq {w.assigned, w.walker}
         \/ w.status \in Decision \cup {"auto_rematching"} /\ u.mode = "auto"
  PROVE  Moves(w, v)
<1>1. Answers(u, v) /\ Chosen(u, v) BY StartingProceeds
<1>2. /\ Pending(u) = Pending(w) /\ New(u, v) = New(w, v) /\ Attempted(u) = Attempted(w)
      /\ Kept(u, v) => Kept(w, v)
  BY DEF Pending, New, Attempted, Kept
<1>3. Answers(w, v) BY <1>1, <1>2 DEF Answers
<1>4. Chosen(w, v) \/ Lifted(w, v) BY <1>1, <1>2 DEF Chosen, Lifted
<1> QED BY <1>3, <1>4 DEF Moves

LEMMA AcceptedSearches ==
  ASSUME NEW w \in Walk, NEW c \in Walkers, NEW u \in Accepted(w, c)
  PROVE  u \in Walk /\ Searched(w, u)
<1>1. \A v \in Sweep(w) : v \in Walk /\ Searched(w, v) BY SweepSearches
<1>2. CASE u \in Sweep(w) BY <1>1, <1>2
<1>3. CASE \E v \in Sweep(w) : \E i \in Pending(v) :
             u = [Close(v, {i}, "accepted") EXCEPT
                    !.status = "walker_accepted", !.walker = c, !.finished = TRUE]
  <2>1. PICK v \in Sweep(w) : \E i \in Pending(v) :
             u = [Close(v, {i}, "accepted") EXCEPT
                    !.status = "walker_accepted", !.walker = c, !.finished = TRUE]
    BY <1>3
  <2>2. PICK i \in Pending(v) :
             u = [Close(v, {i}, "accepted") EXCEPT
                    !.status = "walker_accepted", !.walker = c, !.finished = TRUE]
    BY <2>1
  <2>3. PICK v1 : v1 = Close(v, {i}, "accepted") OBVIOUS
  <2>4. v1 \in Walk /\ Searched(v, v1)
    BY <1>1, <2>3, {i} \in SUBSET Pending(v), ClosesPending DEF OfferStatus
  <2>5. Searched(w, v1) BY <1>1, <2>4, SearchedOn
  <2>6. /\ u \in Walk /\ u.status # "auto_rematching" /\ u.mode = v1.mode
        /\ u.offers = v1.offers
    BY <2>2, <2>3, <2>4 DEF Walk, Status, Serving
  <2>7. u.mode = w.mode BY <2>5, <2>6 DEF Searched
  <2> QED BY <2>4, <2>5, <2>6, <2>7, Rewritten
<1> QED BY <1>2, <1>3 DEF Accepted

\* The same row, but for columns the search does not read.
LEMMA Untouched ==
  ASSUME NEW w \in Walk, NEW v \in Walk, v.offers = w.offers, v.mode = w.mode,
         ByHand \/ v.status # "auto_rematching" \/ v.status = w.status
  PROVE  Moves(w, v)
BY Same, WrittenMoves

LEMMA ReleaseMoves ==
  ASSUME TypeOK, TypeOK', Release
  PROVE  Moves(walk, walk')
<1>0. walk \in Walk /\ walk' \in Walk BY DEF TypeOK
<1>1. CASE \E late \in BOOLEAN : PaymentConfirmed(late)
  <2>1. PICK late \in BOOLEAN : PaymentConfirmed(late) BY <1>1
  <2>2. /\ walk'.offers = walk.offers /\ walk'.mode = walk.mode
        /\ walk'.status # "auto_rematching" \/ walk'.status = walk.status
    BY <1>0, <2>1 DEF PaymentConfirmed, Walk
  <2> QED BY <1>0, <2>2, Untouched
<1>2. CASE PaymentReversed \/ PlanConfirmed \/ StartFails \/ ExpireUnpaid
  <2>1. /\ walk'.offers = walk.offers /\ walk'.mode = walk.mode
        /\ walk'.status # "auto_rematching" \/ walk'.status = walk.status
    BY <1>0, <1>2 DEF PaymentReversed, PlanConfirmed, StartFails, ExpireUnpaid, Commit, Walk
  <2> QED BY <1>0, <2>1, Untouched
<1>3. CASE StartAfterRelease \/ StartRoute
  <2>1. walk' \in StartMatching(walk) BY <1>3 DEF StartAfterRelease, StartRoute, Commit
  <2> QED BY <1>0, <2>1, StartingMoves
<1>4. CASE RematchRoute
  <2>1. walk' \in Rematch(walk) BY <1>4 DEF RematchRoute, Commit
  <2> QED BY <1>0, <2>1, RematchSearches, SearchedMoves
<1> QED BY <1>1, <1>2, <1>3, <1>4 DEF Release

LEMMA BackToSearchMoves ==
  ASSUME NEW w \in Walk, NEW u \in Walk, u.offers = w.offers, w.status \in Decision,
         \/ u.mode = w.mode /\ {u.assigned, u.walker} \subseteq {w.assigned, w.walker}
         \/ u.mode = "auto",
         NEW v \in BackToSearch(u)
  PROVE  Moves(w, v)
<1> DEFINE u1 == [u EXCEPT !.status = "pending_walker_confirmation", !.finished = FALSE]
           u2 == [u EXCEPT !.status = "awaiting_payment", !.finished = FALSE]
<1>1. /\ u1 \in Walk /\ u1.status # "auto_rematching" /\ u1.offers = w.offers /\ u1.mode = u.mode
      /\ u1.assigned = u.assigned /\ u1.walker = u.walker
  BY DEF Walk, Status, Waiting
<1>2. u2 \in Walk /\ u2.status # "auto_rematching" /\ u2.offers = w.offers /\ u2.mode = u.mode
  BY DEF Walk, Status
<1>3. v \in (IF paid THEN StartMatching(u1) ELSE {u2}) BY DEF BackToSearch
<1> HIDE DEF u1, u2
<1>4. CASE paid BY <1>1, <1>3, <1>4, StartingOver
<1>5. CASE ~paid /\ u.mode = w.mode BY <1>2, <1>3, <1>5, Untouched
<1>6. CASE ~paid /\ u.mode = "auto"
  <2>1. v = u2 BY <1>3, <1>6
  <2>2. Searched(w, w) BY Same
  <2>3. Answers(w, v) BY <1>2, <2>1, <2>2, Rewritten
  <2> QED BY <1>2, <1>6, <2>1, <2>3 DEF Moves, Lifted
<1> QED BY <1>4, <1>5, <1>6

LEMMA TutorMoves ==
  ASSUME TypeOK, TypeOK', TutorStep
  PROVE  Moves(walk, walk')
<1>0. walk \in Walk /\ walk' \in Walk BY DEF TypeOK
<1>1. CASE CancelWalk \/ CancelByStatus \/ DecideRefund \/ ReconfirmOther
  <2>1. /\ walk'.offers = walk.offers /\ walk'.mode = walk.mode
        /\ walk'.status # "auto_rematching"
    BY <1>0, <1>1 DEF CancelWalk, CancelByStatus, DecideRefund, ReconfirmOther, Cancelled, Commit, Walk
  <2> QED BY <1>0, <2>1, Untouched
<1>2. CASE ContinueSearch
  <2> DEFINE u == [walk EXCEPT !.mode = "auto", !.walker = None, !.assigned = None, !.finished = FALSE]
  <2>1. /\ u \in Walk /\ u.offers = walk.offers /\ u.mode = "auto"
        /\ walk.status \in Decision \cup {"auto_rematching"}
    BY <1>0, <1>2 DEF ContinueSearch, Walk, Mode
  <2>2. walk' \in StartMatching(u) BY <1>2 DEF ContinueSearch, Commit
  <2> HIDE DEF u
  <2> QED BY <1>0, <2>1, <2>2, StartingOver
<1>3. CASE ReconfirmContinue
  <2> DEFINE u == [walk EXCEPT !.status = "priority_matching", !.finished = FALSE]
  <2>1. /\ u \in Walk /\ u.offers = walk.offers /\ u.mode = walk.mode
        /\ u.status # "auto_rematching" /\ u.assigned = walk.assigned /\ u.walker = walk.walker
    BY <1>0 DEF Walk, Status
  <2>2. walk' \in StartMatching(u) BY <1>3 DEF ReconfirmContinue, Commit
  <2> HIDE DEF u
  <2> QED BY <1>0, <2>1, <2>2, StartingOver
<1>4. CASE RescheduleSelected
  <2> DEFINE chosen == IF walk.assigned # None THEN walk.assigned ELSE walk.walker
             u == [walk EXCEPT !.status = "pending_walker_confirmation",
                    !.finished = FALSE, !.walker = chosen, !.assigned = chosen]
  <2>1. /\ u \in Walk /\ u.offers = walk.offers /\ u.mode = walk.mode
        /\ u.status # "auto_rematching" /\ u.assigned = chosen /\ u.walker = chosen
        /\ chosen \in {walk.assigned, walk.walker}
    BY <1>0 DEF Walk, Status, Waiting
  <2>2. walk' \in StartMatching(u) BY <1>4 DEF RescheduleSelected, Commit
  <2> HIDE DEF u, chosen
  <2> QED BY <1>0, <2>1, <2>2, StartingOver
<1>5. CASE DecideReschedule
  <2>1. walk' \in BackToSearch(walk) /\ walk.status \in Decision BY <1>5 DEF DecideReschedule, Commit
  <2> QED BY <1>0, <2>1, BackToSearchMoves
<1>6. CASE DecideSwitch
  <2> DEFINE u == [walk EXCEPT !.mode = "auto", !.walker = None, !.assigned = None]
  <2>1. u \in Walk /\ u.offers = walk.offers /\ u.mode = "auto" BY <1>0 DEF Walk, Mode
  <2>2. walk' \in BackToSearch(u) /\ walk.status \in Decision BY <1>6 DEF DecideSwitch, Commit
  <2> HIDE DEF u
  <2> QED BY <1>0, <2>1, <2>2, BackToSearchMoves
<1> QED BY <1>1, <1>2, <1>3, <1>4, <1>5, <1>6 DEF TutorStep

LEMMA WalkerMoves ==
  ASSUME TypeOK, TypeOK', NEW c \in Walkers, WalkerStep(c)
  PROVE  Moves(walk, walk')
<1>0. walk \in Walk /\ walk' \in Walk BY DEF TypeOK
<1>1. CASE Accept(c)
  <2>1. walk' \in Accepted(walk, c) BY <1>1 DEF Accept, Commit
  <2> QED BY <1>0, <2>1, AcceptedSearches, SearchedMoves
<1>2. CASE Decline(c)
  <2>1. PICK v \in Sweep(walk) : \E i \in Pending(v) : walk' \in Rematch(Close(v, {i}, "declined"))
    BY <1>2 DEF Decline, Commit
  <2>2. PICK i \in Pending(v) : walk' \in Rematch(Close(v, {i}, "declined")) BY <2>1
  <2>3. v \in Walk /\ Searched(walk, v) BY <1>0, SweepSearches
  <2>4. PICK u : u = Close(v, {i}, "declined") OBVIOUS
  <2>5. {i} \in SUBSET Pending(v) OBVIOUS
  <2>6. u \in Walk /\ Searched(v, u) BY <2>3, <2>4, <2>5, ClosesPending DEF OfferStatus
  <2>7. Searched(walk, u) BY <1>0, <2>3, <2>6, SearchedOn
  <2>8. Searched(u, walk') BY <2>2, <2>4, <2>6, RematchSearches
  <2>9. Searched(walk, walk') BY <1>0, <2>6, <2>7, <2>8, SearchedOn
  <2> QED BY <1>0, <2>9, SearchedMoves
<1>3. CASE \/ CheckIn(c) \/ Handover(c) \/ BeginRide(c)
           \/ SubmitReport(c) \/ ApproveReport(c) \/ RejectReport(c)
  <2>1. /\ walk'.offers = walk.offers /\ walk'.mode = walk.mode
        /\ walk'.status # "auto_rematching"
    BY <1>0, <1>3 DEF CheckIn, Handover, BeginRide, Advance, SubmitReport, ApproveReport,
       RejectReport, Reviewed, Commit, Walk
  <2> QED BY <1>0, <2>1, Untouched
<1>4. CASE \E st \in RawStatuses : WalkerStatus(c, st)
  <2>1. PICK st \in RawStatuses : WalkerStatus(c, st) BY <1>4
  <2>2. PICK v \in Accepted(walk, c) \cup {walk} : walk' = WriteStatus(v, st)
    BY <2>1 DEF WalkerStatus, Commit
  <2>3. v \in Walk /\ Searched(walk, v) BY <1>0, AcceptedSearches, Same
  <2>4. walk'.offers = v.offers /\ walk'.mode = v.mode /\ walk'.status = st
    BY <2>2, <2>3 DEF WriteStatus, Walk
  <2>5. ByHand \/ st # "auto_rematching" BY DEF ByHand
  <2> QED BY <1>0, <2>3, <2>4, <2>5, WrittenMoves
<1> QED BY <1>1, <1>2, <1>3, <1>4 DEF WalkerStep

LEMMA OthersMove ==
  ASSUME TypeOK, TypeOK', Recover \/ Elapse \/ ExpireOffers \/ \E st \in RawStatuses : RawStatus(st)
  PROVE  Moves(walk, walk')
<1>0. walk \in Walk /\ walk' \in Walk BY DEF TypeOK
<1>1. CASE Recover
  <2>1. PICK v \in Sweep(walk) :
          walk' = [v EXCEPT !.status = "awaiting_tutor_reconfirmation", !.walker = None,
                            !.assigned = None, !.finished = FALSE]
    BY <1>1 DEF Recover, Commit
  <2>2. v \in Walk /\ Searched(walk, v) BY <1>0, SweepSearches
  <2>3. walk'.offers = v.offers /\ walk'.mode = v.mode /\ walk'.status # "auto_rematching"
    BY <2>1, <2>2 DEF Walk
  <2> QED BY <1>0, <2>2, <2>3, WrittenMoves
<1>2. CASE Elapse
  <2>1. PICK i \in Pending(walk) \ DueOffers(walk) :
          walk' = [walk EXCEPT !.offers = [j \in DOMAIN walk.offers |->
                     IF j <= i /\ j \in Pending(walk)
                       THEN [walk.offers[j] EXCEPT !.due = TRUE]
                       ELSE walk.offers[j]]]
    BY <1>2 DEF Elapse, Commit
  <2>2. /\ walk'.mode = walk.mode /\ walk'.status = walk.status
        /\ walk'.offers = [j \in DOMAIN walk.offers |->
                             IF j <= i /\ j \in Pending(walk)
                               THEN [walk.offers[j] EXCEPT !.due = TRUE]
                               ELSE walk.offers[j]]
    BY <1>0, <2>1 DEF Walk
  <2>3. \A j \in DOMAIN walk.offers : walk.offers[j] \in Offer BY <1>0, OffersAre
  <2>4. DOMAIN walk'.offers = DOMAIN walk.offers BY <2>2
  <2>5. ASSUME NEW j \in DOMAIN walk.offers
        PROVE  /\ walk'.offers[j].walker = walk.offers[j].walker
               /\ j \notin Pending(walk) => walk'.offers[j] = walk.offers[j]
    <3>1. walk'.offers[j] = IF j <= i /\ j \in Pending(walk)
                              THEN [walk.offers[j] EXCEPT !.due = TRUE] ELSE walk.offers[j]
      BY <2>2
    <3> QED BY <2>3, <3>1 DEF Offer
  <2>6. Kept(walk, walk') BY <2>4, <2>5 DEF Kept
  <2>7. New(walk, walk') = {} BY <2>4 DEF New
  <2>8. Searched(walk, walk') BY <2>2, <2>4, <2>6, <2>7 DEF Searched
  <2> QED BY <1>0, <2>8, SearchedMoves
<1>3. CASE ExpireOffers
  <2>1. walk' \in Sweep(walk) BY <1>3 DEF ExpireOffers, Commit
  <2> QED BY <1>0, <2>1, SweepSearches, SearchedMoves
<1>4. CASE \E st \in RawStatuses : RawStatus(st)
  <2>1. PICK st \in RawStatuses : walk' = WriteStatus(walk, st) BY <1>4 DEF RawStatus, Commit
  <2>2. walk'.offers = walk.offers /\ walk'.mode = walk.mode /\ walk'.status = st
    BY <1>0, <2>1 DEF WriteStatus, Walk
  <2>3. ByHand \/ st # "auto_rematching" BY DEF ByHand
  <2> QED BY <1>0, <2>2, <2>3, Untouched
<1> QED BY <1>1, <1>2, <1>3, <1>4

LEMMA StepsMove ==
  ASSUME TypeOK, TypeOK', [Next]_vars
  PROVE  Moves(walk, walk')
<1>1. CASE Next BY <1>1, ReleaseMoves, TutorMoves, WalkerMoves, OthersMove DEF Next
<1>2. CASE UNCHANGED vars
  <2>1. walk' = walk /\ walk \in Walk BY <1>2 DEF vars, TypeOK
  <2> QED BY <2>1, Same, SearchedMoves
<1> QED BY <1>1, <1>2

\* Answers are final whatever is written by hand: an offer keeps its walker and, once answered,
\* its answer, and the automatic search asks nobody twice.
THEOREM AnswersStand == Spec => AnswersAreFinal
<1>1. TypeOK /\ TypeOK' /\ [Next]_vars =>
      [/\ \A i \in DOMAIN walk.offers :
            /\ i \in DOMAIN walk'.offers
            /\ walk'.offers[i].walker = walk.offers[i].walker
            /\ i \notin Pending(walk) => walk'.offers[i] = walk.offers[i]
       /\ walk'.status = "auto_rematching" =>
            \A c \in NewOffers : c \notin Attempted(walk)]_vars
  <2> SUFFICES ASSUME TypeOK, TypeOK', [Next]_vars
               PROVE  /\ \A i \in DOMAIN walk.offers :
                           /\ i \in DOMAIN walk'.offers
                           /\ walk'.offers[i].walker = walk.offers[i].walker
                           /\ i \notin Pending(walk) => walk'.offers[i] = walk.offers[i]
                      /\ walk'.status = "auto_rematching" =>
                           \A c \in NewOffers : c \notin Attempted(walk)
    OBVIOUS
  <2>1. Answers(walk, walk') BY StepsMove DEF Moves
  <2>2. NewOffers = New(walk, walk') BY DEF NewOffers, New
  <2> QED BY <2>1, <2>2 DEF Answers, Kept
<1> QED BY <1>1, TypeCorrect, PTL DEF Spec, AnswersAreFinal

\* The search never passes max_attempts by itself, for any limit: beyond it one offer is sent at
\* a time, and only when no earlier one can be answered.
THEOREM AttemptsAreBounded == Spec => AttemptBudget
<1>1. TypeOK /\ TypeOK' /\ [Next]_vars =>
      [Len(walk.offers) >= MaxAttempts /\ Len(walk'.offers) > Len(walk.offers) =>
         /\ Len(walk'.offers) = Len(walk.offers) + 1
         /\ Pending(walk') = {Len(walk'.offers)}]_vars
  <2> SUFFICES ASSUME TypeOK, TypeOK', [Next]_vars,
                      Len(walk.offers) >= MaxAttempts, Len(walk'.offers) > Len(walk.offers)
               PROVE  /\ Len(walk'.offers) = Len(walk.offers) + 1
                      /\ Pending(walk') = {Len(walk'.offers)}
    OBVIOUS
  <2>1. Answers(walk, walk') BY StepsMove DEF Moves
  <2> QED BY <2>1 DEF Answers
<1> QED BY <1>1, TypeCorrect, PTL DEF Spec, AttemptBudget

\* A walk of one chosen walker is never under automatic search.
NotSearching == walk.mode = "only_selected" => walk.status # "auto_rematching"

LEMMA NotSearchingHolds ==
  ASSUME "auto_rematching" \notin RawStatuses
  PROVE  Spec => []NotSearching
<1>1. Init => NotSearching
  <2> SUFFICES ASSUME Init PROVE walk.status # "auto_rematching" BY DEF NotSearching
  <2> QED BY DEF Init
<1>2. TypeOK /\ TypeOK' /\ NotSearching /\ [Next]_vars => NotSearching'
  <2> SUFFICES ASSUME TypeOK, TypeOK', NotSearching, [Next]_vars PROVE NotSearching'
    OBVIOUS
  <2>1. Chosen(walk, walk') \/ Lifted(walk, walk') BY StepsMove DEF Moves, ByHand
  <2> QED BY <2>1 DEF Chosen, Lifted, NotSearching
<1> QED BY <1>1, <1>2, TypeCorrect, PTL DEF Spec

\* While the tutor's choice of one walker stands nobody else is offered the walk, and only the
\* tutor lifts it, unless somebody writes by hand that the search goes on.
THEOREM ChoiceIsKept ==
  ASSUME "auto_rematching" \notin RawStatuses
  PROVE  Spec => ExclusiveChoiceKept
<1>1. TypeOK /\ TypeOK' /\ NotSearching /\ [Next]_vars =>
      [walk.mode = "only_selected" =>
         \/ /\ NewOffers \subseteq {walk.assigned, walk.walker}
            /\ walk'.mode = "only_selected"
         \/ walk.status \in Decision /\ walk'.mode = "auto"]_vars
  <2> SUFFICES ASSUME TypeOK, TypeOK', NotSearching, [Next]_vars, walk.mode = "only_selected"
               PROVE  \/ /\ NewOffers \subseteq {walk.assigned, walk.walker}
                         /\ walk'.mode = "only_selected"
                      \/ walk.status \in Decision /\ walk'.mode = "auto"
    OBVIOUS
  <2>1. Chosen(walk, walk') \/ Lifted(walk, walk') BY StepsMove DEF Moves, ByHand
  <2>2. NewOffers = New(walk, walk') BY DEF NewOffers, New
  <2> QED BY <2>1, <2>2 DEF Chosen, Lifted, NotSearching
<1> QED BY <1>1, TypeCorrect, NotSearchingHolds, PTL DEF Spec, ExclusiveChoiceKept
============================================================================
