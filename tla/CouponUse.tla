------------------------------ MODULE CouponUse ------------------------------
(***************************************************************************)
(* One coupon of a tenant: tutors redeem it for their walks while staff    *)
(* edits it.  A coupon that covers the whole price takes the place of the  *)
(* payment.                                                                *)
(*                                                                         *)
(* Code: app/services/coupon_service.py, app/routes/coupons.py and the     *)
(* unique index of app/models/coupon.py (single use per user).             *)
(*                                                                         *)
(* The conditional UPDATE takes the row of the coupon, which is held until *)
(* the request commits or rolls back; the checks before it, and the walk,  *)
(* are read without a lock.                                                *)
(***************************************************************************)
EXTENDS Naturals, FiniteSets

CONSTANTS
  Users, Walks, Owner,   \* tutors, walks and whose each walk is
  Covered,               \* the walks whose price the coupon covers
  Limits,                \* values staff gives max_uses
  PerUser,               \* max_uses_per_user
  Handlers               \* requests in flight at once

\* What the parameters must be.
ParametersAssumption == /\ Limits \subseteq Nat /\ PerUser \in Nat
                        /\ Owner \in [Walks -> Users]

VARIABLES
  coupon,   \* max_uses, uses_count, active; top, a ghost: the highest max_uses so far
  redeemed, \* rows of coupon_redemptions of each user
  trip,     \* each walk: its status and, a ghost, what opened it to walkers
  checkout  \* what each redemption in flight has read, and whether it holds the coupon

couponVars == <<coupon, redeemed, trip, checkout>>

Nothing == [at |-> "idle"]

Init == /\ coupon   = [max |-> 0, uses |-> 0, active |-> FALSE, top |-> 0]
        /\ redeemed = [u \in Users |-> 0]
        /\ trip     = [w \in Walks |-> [st |-> "awaiting", by |-> "none"]]
        /\ checkout = [h \in Handlers |-> Nothing]

\* admin_create and admin_update.
Edit(n, on) ==
  /\ \A h \in Handlers : checkout[h].at # "holding"
  /\ coupon' = [coupon EXCEPT !.max = n, !.active = on, !.top = IF n > @ THEN n ELSE @]
  /\ coupon' # coupon
  /\ UNCHANGED <<redeemed, trip, checkout>>

Holding == {h \in Handlers : checkout[h].at = "holding"}

\* validate; an UPDATE that is not committed is not seen.
Valid(u) == /\ coupon.active /\ coupon.uses - Cardinality(Holding) < coupon.max
            /\ redeemed[u] < PerUser

\* redeem_coupon and redeem up to the UPDATE: the walk and the limits are read.
BeginRedeem(h, w) ==
  /\ checkout[h] = Nothing /\ Valid(Owner[w])
  /\ checkout' = [checkout EXCEPT ![h] =
       [at |-> "valid", walk |-> w, read |-> trip[w].st, max |-> coupon.max]]
  /\ UNCHANGED <<coupon, redeemed, trip>>

\* Mutant of Left: nobody looks at the counter again.
LeftUnchecked(h) == TRUE

\* The condition of the UPDATE: the counter as it is now, the limit as it was read.
Left(h) == coupon.uses < checkout[h].max

\* The UPDATE waits for whoever holds the row.
Take(h) ==
  /\ checkout[h].at = "valid" /\ \A g \in Handlers : checkout[g].at # "holding"
  /\ IF Left(h) THEN /\ coupon' = [coupon EXCEPT !.uses = @ + 1]
                     /\ checkout' = [checkout EXCEPT ![h].at = "holding"]
     ELSE UNCHANGED coupon /\ checkout' = [checkout EXCEPT ![h] = Nothing]
  /\ UNCHANGED <<redeemed, trip>>

\* Mutant of Rejected: the table has no unique index.
RejectedNever(h) == FALSE

\* The unique index on coupon and user, for coupons of a single use per user.
Rejected(h) == PerUser = 1 /\ redeemed[Owner[checkout[h].walk]] > 0

\* Mutant of Opened: any discount opens the walk.
OpenedByAny(h) == checkout[h].read = "awaiting"

\* _covers_full of a walk that was awaiting payment when it was read; it may have been
\* paid or cancelled since, and is opened again.
Opened(h) == checkout[h].walk \in Covered /\ checkout[h].read = "awaiting"

\* The end of redeem: rejected, the whole transaction is undone.
CommitRedeem(h) ==
  /\ checkout[h].at = "holding"
  /\ LET w == checkout[h].walk
     IN IF Rejected(h)
        THEN coupon' = [coupon EXCEPT !.uses = @ - 1] /\ UNCHANGED <<redeemed, trip>>
        ELSE /\ redeemed' = [redeemed EXCEPT ![Owner[w]] = @ + 1]
             /\ trip' = IF ~Opened(h) THEN trip
                        ELSE [trip EXCEPT ![w] = [st |-> "open", by |-> "coupon"]]
             /\ UNCHANGED coupon
  /\ checkout' = [checkout EXCEPT ![h] = Nothing]

\* The payment is confirmed, or the walk is cancelled, while redemptions are in flight.
Paid(w)     == /\ trip[w].st = "awaiting" /\ trip' = [trip EXCEPT ![w].st = "open", ![w].by = "money"]
               /\ UNCHANGED <<coupon, redeemed, checkout>>
Cancels(w)  == /\ trip[w].st # "cancelled" /\ trip' = [trip EXCEPT ![w].st = "cancelled"]
               /\ UNCHANGED <<coupon, redeemed, checkout>>

Next == \/ \E n \in Limits, on \in BOOLEAN : Edit(n, on)
        \/ \E h \in Handlers : Take(h) \/ CommitRedeem(h) \/ \E w \in Walks : BeginRedeem(h, w)
        \/ \E w \in Walks : Paid(w) \/ Cancels(w)

Spec == Init /\ [][Next]_couponVars

----------------------------------------------------------------------------
Checkout == [at : {"idle"}] \cup
            [at : {"valid", "holding"}, walk : Walks, max : Limits \cup {0},
             read : {"awaiting", "open", "cancelled"}]

TypeOK == /\ coupon \in [max : Limits \cup {0}, uses : Nat, active : BOOLEAN, top : Limits \cup {0}]
          /\ redeemed \in [Users -> Nat]
          /\ trip \in [Walks -> [st : {"awaiting", "open", "cancelled"},
                                 by : {"none", "money", "coupon"}]]
          /\ checkout \in [Handlers -> Checkout]

\* "Only one transaction wins": however many redeem at once, what is committed is what
\* single steps on an atomic voucher could do; the counter is one ahead while a request
\* holds the row, and a redemption the index rejects leaves no trace.
Voucher == INSTANCE Voucher WITH
  limit <- coupon.top, taken <- coupon.uses - Cardinality(Holding), used <- redeemed

\* A walk opens to walkers without money only when the coupon covers all of it.
FreeWalkIsCovered ==
  \A w \in Walks : trip[w].by = "coupon" => w \in Covered /\ redeemed[Owner[w]] > 0
=============================================================================
