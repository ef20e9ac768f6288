----------------------------- MODULE SharedWalks -----------------------------
(***************************************************************************)
(* One shared walk: a tutor opens it with own pets, others join with       *)
(* theirs, each pays a quota, the host confirms, and any of them may leave.*)
(*                                                                         *)
(* Code: app/services/shared_walk_service.py, its routes in                *)
(* app/routes/shared_walks.py and the rows of app/models/shared_walk.py.   *)
(*                                                                         *)
(* No handler locks anything: each decides on the rows it read and commits *)
(* later, writing the columns it changed.  A row or a confirmation is      *)
(* stale, a ghost, when something changed between the two, and so is the   *)
(* row of a tutor who is in the walk by a stale row.                       *)
(***************************************************************************)
EXTENDS Naturals, FiniteSets

CONSTANTS
  Host, Guests,   \* the tutors
  Owned,          \* how many pets each tutor has that may walk with others
  MaxTutors,      \* max_tutors, copied to the session when it opens
  MaxPets,        \* max_pets_same_tutor
  MaxDogs,        \* the local rule limite_caes where the host lives
  MaxRows,        \* bound of the model: participations
  Handlers        \* requests in flight at once

\* What is assumed of the parameters.
LimitsAssumption == /\ Owned \in Nat /\ MaxTutors \in Nat \ {0} /\ MaxPets \in Nat
                    /\ MaxDogs \in Nat /\ MaxRows \in Nat

Tutors == {Host} \cup Guests
Rows   == 1 .. MaxRows

VARIABLES
  session,    \* the row of shared_walks: status; stale
  seats,      \* the rows of shared_walk_participants; bills counts their payments
  asked       \* what each request in flight holds: what it read

sharedVars == <<session, seats, asked>>

States  == {"none", "forming", "confirmed", "cancelled"}
Session == [st : States, stale : BOOLEAN]
Part    == [st : {"none", "accepted", "paid", "cancelled"}, tutor : Tutors,
            bills : 0 .. 2, stale : BOOLEAN]
NoPart  == [st |-> "none", tutor |-> Host,
            bills |-> 0, stale |-> FALSE]
NoTask  == [op |-> "idle"]

Init == /\ session = [st |-> "none", stale |-> FALSE]
        /\ seats    = [r \in Rows |-> NoPart]
        /\ asked    = [h \in Handlers |-> NoTask]

\* active_participants, of the rows read.
Active(R)    == {r \in Rows : R[r].st \in {"accepted", "paid"}}
Tutors_(R)   == {R[r].tutor : r \in Active(R)}
Of(R, t)     == {r \in Active(R) : R[r].tutor = t}
Quota(R, t)  == {r \in Rows : R[r].st = "accepted" /\ R[r].tutor = t}
Unused       == {r \in Rows : seats[r].st = "none"}

\* create_session, with n of the host's pets.
Create(n) ==
  /\ session.st = "none"
  /\ n \in 1 .. Owned /\ n <= MaxPets /\ n <= MaxDogs
  /\ session' = [session EXCEPT !.st = "forming"]
  /\ seats' = [r \in Rows |-> IF r <= n THEN [NoPart EXCEPT !.st = "accepted"] ELSE seats[r]]
  /\ UNCHANGED asked

----------------------------------------------------------------------------
(* What each request decides on what it reads *)

\* Mutant of MayJoin: the limit of tutors is not looked at.
MayJoinAnyway(R, t) ==
  Cardinality(Of(R, t)) < Owned /\ Cardinality(Of(R, t)) < MaxPets

\* join_session: a limit of tutors, a pet that is not in the walk yet, a limit of pets
\* per tutor, and the local one.
MayJoin(R, t) ==
  /\ t \in Tutors_(R) \/ Cardinality(Tutors_(R)) < MaxTutors
  /\ Cardinality(Of(R, t)) < Owned /\ Cardinality(Of(R, t)) < MaxPets
  /\ Cardinality(Active(R)) < MaxDogs

\* Mutant of MayConfirm: the host has paid.
MayConfirmEarly(R) == Quota(R, Host) = {} /\ Cardinality(Active(R)) >= 2

\* confirm_session
MayConfirm(R) == /\ \A r \in Active(R) : R[r].st = "paid"
                 /\ Cardinality(Active(R)) >= 2

\* Mutant of Leaving: a host who leaves takes no guest along.
LeavingAlone(R, t) == {r \in Rows : R[r].st # "none" /\ R[r].tutor = t}

\* The rows that leave with a tutor: the host takes everyone along.
Leaving(R, t) == {r \in Rows : R[r].st # "none" /\ (t = Host \/ R[r].tutor = t)}

Allowed(op, t) ==
  CASE op = "join"     -> session.st = "forming" /\ MayJoin(seats, t)
    [] op = "checkout" -> Quota(seats, t) # {}
    [] op = "confirm"  -> t = Host /\ session.st = "forming" /\ MayConfirm(seats)
    [] op = "cancel"   -> TRUE

Begin(h, op, t) ==
  /\ asked[h].op = "idle" /\ session.st # "none" /\ Allowed(op, t)
  /\ asked' = [asked EXCEPT ![h] =
       [op |-> op, tutor |-> t, stale |-> FALSE,
        rows |-> CASE op = "checkout" -> Quota(seats, t) [] op = "cancel" -> Leaving(seats, t)
                   [] OTHER -> {}]]
  /\ UNCHANGED <<session, seats>>

----------------------------------------------------------------------------
(* What it commits *)

\* The others in flight have read what is changed now.
Done(h) == asked' = [g \in Handlers |-> IF g = h \/ asked[g].op = "idle" THEN NoTask
                                       ELSE [asked[g] EXCEPT !.stale = TRUE]]

\* A tutor already counted out of the group: a second pet of theirs does not put them in it.
InByStale(t) == \E q \in Rows : seats[q].tutor = t /\ seats[q].stale

CommitJoin(h) ==
  /\ asked[h].op = "join"
  /\ \E r \in Unused :
       /\ \A q \in Unused : r <= q
       /\ seats' = [seats EXCEPT ![r] = [NoPart EXCEPT !.st = "accepted",
            !.tutor = asked[h].tutor, !.stale = asked[h].stale \/ InByStale(asked[h].tutor)]]
  /\ Done(h) /\ UNCHANGED session

\* checkout: one payment for the tutor's accepted rows, whatever the session is.
CommitCheckout(h) ==
  /\ asked[h].op = "checkout"
  /\ seats' = [r \in Rows |-> IF r \notin asked[h].rows THEN seats[r]
       ELSE [seats[r] EXCEPT !.st = "paid", !.stale = @ \/ asked[h].stale,
                            !.bills = IF @ = 2 THEN 2 ELSE @ + 1]]
  /\ Done(h) /\ UNCHANGED session

CommitConfirm(h) ==
  /\ asked[h].op = "confirm"
  /\ session' = [st |-> "confirmed", stale |-> asked[h].stale]
  /\ Done(h) /\ UNCHANGED seats

\* cancel_participation, whatever the session is; nothing is given back.
CommitCancel(h) ==
  /\ asked[h].op = "cancel"
  /\ session' = IF asked[h].tutor = Host
                THEN [st |-> "cancelled", stale |-> session.stale \/ asked[h].stale] ELSE session
  /\ seats' = [r \in Rows |-> IF r \in asked[h].rows
                THEN [seats[r] EXCEPT !.st = "cancelled"] ELSE seats[r]]
  /\ Done(h)

Next == \/ \E n \in Rows : Create(n)
        \/ \E h \in Handlers :
             \/ \E t \in Tutors, op \in {"join", "checkout", "confirm", "cancel"} : Begin(h, op, t)
             \/ CommitJoin(h) \/ CommitCheckout(h) \/ CommitConfirm(h) \/ CommitCancel(h)

Spec == Init /\ [][Next]_sharedVars

----------------------------------------------------------------------------
(* Properties: the handlers keep these when they do not overlap, over any sequence *)
(* of calls; a row or a confirmation committed on a stale read is the exception.   *)

TypeOK == session \in Session /\ seats \in [Rows -> Part]

Fresh == {r \in Active(seats) : ~seats[r].stale}

\* The group never has more tutors than the session allows, nor a tutor more pets.
GroupFits ==
  /\ Cardinality({seats[r].tutor : r \in Fresh}) <= MaxTutors
  /\ \A t \in Tutors : Cardinality({r \in Fresh : seats[r].tutor = t}) <= MaxPets

\* Who walks in a confirmed session has paid, and paid once.
ConfirmedIsPaid ==
  session.st = "confirmed" /\ ~session.stale =>
    \A r \in Fresh : seats[r].st = "paid" /\ seats[r].bills = 1

\* Nobody is left in a session the host cancelled: no quota of it can be charged.
NobodyLeftBehind ==
  session.st = "cancelled" /\ ~session.stale => Fresh = {}

\* Whatever the order of joins, payments, confirmation and departures, the group fits,
\* has paid when it walks, and is dissolved with its session.
GroupIsSettled == GroupFits /\ ConfirmedIsPaid /\ NobodyLeftBehind
=============================================================================
