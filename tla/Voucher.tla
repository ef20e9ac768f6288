------------------------------- MODULE Voucher -------------------------------
(***************************************************************************)
(* What a coupon promises, whatever is in flight: a redemption is one      *)
(* step, taken while something is left of the limit and, for a coupon of   *)
(* one use per user, by a user who had none.  CouponUse implements it.     *)
(***************************************************************************)
EXTENDS Naturals

CONSTANTS Users, Limits, PerUser

VARIABLES
  limit,   \* the highest limit staff gave it so far
  taken,   \* redemptions
  used     \* redemptions of each user

voucherVars == <<limit, taken, used>>

Init == limit = 0 /\ taken = 0 /\ used = [u \in Users |-> 0]

Raise(n) == n > limit /\ limit' = n /\ UNCHANGED <<taken, used>>

Redeem(u) == /\ taken < limit
             /\ PerUser = 1 => used[u] = 0
             /\ taken' = taken + 1
             /\ used'  = [used EXCEPT ![u] = @ + 1]
             /\ UNCHANGED limit

Next == (\E n \in Limits : Raise(n)) \/ (\E u \in Users : Redeem(u))

Spec == Init /\ [][Next]_voucherVars
=============================================================================
