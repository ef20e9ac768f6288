------------------------------- MODULE Market -------------------------------
(*****************************************************************************)
(* What is sold, owed and billed beside the payment of a walk: coupons,      *)
(* referrals and shared walks; earnings, tips, commissions, the platform's   *)
(* subscription and its invoices.  The components share no row, so a         *)
(* behaviour picks the one that works, and the states add up instead of      *)
(* multiplying.                                                              *)
(*****************************************************************************)
CONSTANTS
  Handlers,                                           \* requests in flight at once
  Users, Walks, Owner, Covered, Limits, PerUser,      \* of CouponUse
  Invited, BonusAfter, MaxWalks,                      \* of WalkerReferrals
  Host, Guests, Owned, MaxTutors, MaxPets, MaxDogs, MaxRows,   \* of SharedWalks
  Served, Requests, Share, Price, AutoPix, MaxLost,   \* of WalkerWallet
  Commissioned, MaxPeriod, MaxCharges,                \* of CommissionBilling
  Tips, Amounts,                                      \* of TipLedger
  Subs,                                               \* of SaasBilling
  MaxEvents                                           \* of FiscalNotes

VARIABLES
  part,   \* the component at work
  coupon, redeemed, trip, checkout,
  invite, kept, given, member, earned, turn,
  referral, bonus, walked, step,
  session, seats, asked,
  walk, wd, mail, task, peak,
  entry, charge, run, reversed, overtaken, raced,
  tip, fresh, told, ask,
  sub, gw, tenant, req, news, odd,
  nfse, issued, post, asking, trace

Coupon     == INSTANCE CouponUse
Tutor      == INSTANCE TutorReferrals
Walker     == INSTANCE WalkerReferrals
Shared     == INSTANCE SharedWalks
Wallet     == INSTANCE WalkerWallet WITH Walks <- Served, Auto <- AutoPix
Commission == INSTANCE CommissionBilling WITH Walks <- Commissioned, Runs <- Handlers
Tip        == INSTANCE TipLedger WITH Askers <- Handlers
Saas       == INSTANCE SaasBilling WITH Staff <- Handlers
Fiscal     == INSTANCE FiscalNotes

ASSUME CouponParameters     == Coupon!ParametersAssumption
ASSUME WalkerParameters     == Walker!ParametersAssumption
ASSUME SharedParameters     == Shared!LimitsAssumption
ASSUME WalletParameters     == Wallet!AmountsAssumption /\ Wallet!SetsAssumption
ASSUME CommissionParameters == Commission!BillingBounds /\ Commission!WalksAreFinite
ASSUME SaasParameters       == Saas!SubsAssumption
ASSUME FiscalParameters     == Fiscal!EventsAssumption

OfCoupon     == <<coupon, redeemed, trip, checkout>>
OfTutor      == <<invite, kept, given, member, earned, turn>>
OfWalker     == <<referral, bonus, walked, step>>
OfShared     == <<session, seats, asked>>
OfWallet     == <<walk, wd, mail, task, peak>>
OfCommission == <<entry, charge, run, reversed, overtaken, raced>>
OfTip        == <<tip, fresh, told, ask>>
OfSaas       == <<sub, gw, tenant, req, news, odd>>
OfFiscal     == <<nfse, issued, post, asking, trace>>

vars == <<part, OfCoupon, OfTutor, OfWalker, OfShared, OfWallet, OfCommission, OfTip, OfSaas,
          OfFiscal>>

Init ==
  /\ part \in {"coupon", "tutor", "walker", "shared", "wallet", "commission", "tip", "saas",
               "fiscal"}
  /\ Coupon!Init /\ Tutor!Init /\ Walker!Init /\ Shared!Init /\ Wallet!Init
  /\ Commission!Init /\ Tip!Init /\ Saas!Init /\ Fiscal!Init

Next ==
  \/ /\ part = "coupon" /\ Coupon!Next
     /\ UNCHANGED <<part, OfTutor, OfWalker, OfShared, OfWallet, OfCommission, OfTip, OfSaas,
                    OfFiscal>>
  \/ /\ part = "tutor" /\ Tutor!Next
     /\ UNCHANGED <<part, OfCoupon, OfWalker, OfShared, OfWallet, OfCommission, OfTip, OfSaas,
                    OfFiscal>>
  \/ /\ part = "walker" /\ Walker!Next
     /\ UNCHANGED <<part, OfCoupon, OfTutor, OfShared, OfWallet, OfCommission, OfTip, OfSaas,
                    OfFiscal>>
  \/ /\ part = "shared" /\ Shared!Next
     /\ UNCHANGED <<part, OfCoupon, OfTutor, OfWalker, OfWallet, OfCommission, OfTip, OfSaas,
                    OfFiscal>>
  \/ /\ part = "wallet" /\ Wallet!Next
     /\ UNCHANGED <<part, OfCoupon, OfTutor, OfWalker, OfShared, OfCommission, OfTip, OfSaas,
                    OfFiscal>>
  \/ /\ part = "commission" /\ Commission!Next
     /\ UNCHANGED <<part, OfCoupon, OfTutor, OfWalker, OfShared, OfWallet, OfTip, OfSaas,
                    OfFiscal>>
  \/ /\ part = "tip" /\ Tip!Next
     /\ UNCHANGED <<part, OfCoupon, OfTutor, OfWalker, OfShared, OfWallet, OfCommission, OfSaas,
                    OfFiscal>>
  \/ /\ part = "saas" /\ Saas!Next
     /\ UNCHANGED <<part, OfCoupon, OfTutor, OfWalker, OfShared, OfWallet, OfCommission, OfTip,
                    OfFiscal>>
  \/ /\ part = "fiscal" /\ Fiscal!Next
     /\ UNCHANGED <<part, OfCoupon, OfTutor, OfWalker, OfShared, OfWallet, OfCommission, OfTip,
                    OfSaas>>

Spec == Init /\ [][Next]_vars

----------------------------------------------------------------------------
\* The state of the component at work has its type.
TypeOK == /\ part = "coupon"     => Coupon!TypeOK
          /\ part = "tutor"      => Tutor!TypeOK
          /\ part = "walker"     => Walker!TypeOK
          /\ part = "shared"     => Shared!TypeOK
          /\ part = "wallet"     => Wallet!TypeOK
          /\ part = "commission" => Commission!TypeOK
          /\ part = "tip"        => Tip!TypeOK
          /\ part = "saas"       => Saas!TypeOK
          /\ part = "fiscal"     => Fiscal!TypeOK

\* Of CouponUse: redemptions are those of an atomic voucher, and a walk that opens
\* without money is covered.
RedeemsAtomically == Coupon!Voucher!Spec
FreeWalkIsCovered == part = "coupon" => Coupon!FreeWalkIsCovered

\* Of the two referral programmes: a reward is given once, a bonus is entered once, over
\* every order of the joins, walks, renewals and staff decisions that lead to them.
ReferralsPayOnce == /\ part = "tutor"  => Tutor!RewardedOnce
                    /\ part = "walker" => Walker!BonusIsPaidOnce

\* Of SharedWalks: the group fits, a confirmed one has paid, and nobody stays in one the
\* host left.
GroupIsSettled == part = "shared" => Shared!GroupIsSettled

\* Of WalkerWallet: no second transfer, no overdraft.
TransferredOnce == part = "wallet" => Wallet!TransferredOnce
NeverOverdrawn  == part = "wallet" => Wallet!NeverOverdrawn

\* Of CommissionBilling: charges and entries agree, and a reversed walk is settled.
BooksMatchCharges == part = "commission" => Commission!BooksMatchCharges

\* Of TipLedger: one open session, and only money received counts.
TipsFollowMoney == part = "tip" => Tip!TipsFollowMoney

\* Of SaasBilling: billed once, and a live row is billed.
RowsMatchGateway == part = "saas" => Saas!RowsMatchGateway

\* Of FiscalNotes: one invoice stands for a payment.
OneNoteStands == part = "fiscal" => Fiscal!OneNoteStands
=============================================================================
