---------------------------- MODULE TutorReferrals ----------------------------
(***************************************************************************)
(* One tutor's invitation of another: linked when the guest joins,         *)
(* converted by the tenant's trigger, and rewarded on both sides, with a   *)
(* coupon or with credits in the subscription, held back while there is    *)
(* none.                                                                   *)
(*                                                                         *)
(* Code: app/services/tutor_referrals.py, tutor_referral_rewards.py, the   *)
(* call sites in app/routes/tutor.py (join) and app/routes/admin.py        *)
(* (a walk is approved), and in recurring_plan_service (subscribe, renew). *)
(***************************************************************************)
EXTENDS Naturals, FiniteSets

CONSTANTS Handlers   \* requests in flight at once

Sides   == {"referrer", "referred"}
Rewards == {"coupon", "credit"}   \* reward_type: desconto and passeio_gratis make a coupon

VARIABLES
  invite,   \* status, reward_status and the reward_type of the snapshot; raced, a ghost:
            \* a conversion, or a use of held credits, overlapped another
  kept,     \* sides whose credits are held back (held_credits_json)
  given,    \* how often each side has got the credits, or the coupon
  member,   \* sides with an active subscription
  earned,   \* the trigger is reached: at once, or by the guest's paid walks
  turn      \* what each request in flight has read

tutorVars == <<invite, kept, given, member, earned, turn>>

None == [op |-> "idle"]

Init == /\ invite = [st |-> "none", reward |-> "not_eligible", type |-> "coupon", raced |-> FALSE]
        /\ kept   = {}
        /\ given  = [s \in Sides |-> 0]
        /\ member = {}
        /\ earned = FALSE
        /\ turn   = [h \in Handlers |-> None]

\* create_tutor_referral: the pending invitation is used again.
Create == /\ invite.st = "none" /\ invite' = [invite EXCEPT !.st = "pending"]
          /\ UNCHANGED <<kept, given, member, earned, turn>>

\* link_tutor_referral
Link == /\ invite.st \in {"pending", "registered"} /\ invite' = [invite EXCEPT !.st = "registered"]
        /\ invite' # invite
        /\ UNCHANGED <<kept, given, member, earned, turn>>

\* A paid walk of the guest is approved, or the tenant's trigger is the joining itself.
Earns == ~earned /\ earned' = TRUE /\ UNCHANGED <<invite, kept, given, member, turn>>

Begin(h, t) == /\ turn[h] = None /\ turn' = [turn EXCEPT ![h] = t]
               /\ UNCHANGED <<invite, kept, given, member, earned>>

Done(h) == turn' = [g \in Handlers |-> IF g = h \/ turn[g] = None THEN None
                                       ELSE [turn[g] EXCEPT !.stale = TRUE]]

\* Mutant of MayConvert: converted already or not.
MayConvertAgain == invite.st \in {"registered", "converted"} /\ earned

\* refresh_referral_conversion converts only an invitation that is registered.
MayConvert == invite.st = "registered" /\ earned

BeginConvert(h, type, payout) ==
  /\ MayConvert
  /\ Begin(h, [op |-> "convert", type |-> type, payout |-> payout, paid |-> member,
               held |-> kept, stale |-> FALSE])

\* _grant_credit: credits go to the active subscription, or are held back.
KeptBy(t) == IF t.type = "credit" THEN t.held \cup (Sides \ t.paid) ELSE t.held

\* grant_reward: a coupon that exists is not made again; credits are added in SQL.
GivenBy(t) == [s \in Sides |->
                CASE t.type = "coupon" -> IF given[s] = 0 THEN 1 ELSE given[s]
                  [] t.type = "credit" /\ s \in t.paid -> given[s] + 1
                  [] OTHER -> given[s]]

\* The conversion with its grant.  When the payout is not enabled the reward stays
\* eligible, and nothing takes it up later.
CommitConvert(h) ==
  /\ turn[h].op = "convert"
  /\ LET t == turn[h]
     IN /\ invite' = [st |-> "converted", type |-> t.type, raced |-> invite.raced \/ t.stale,
                      reward |-> IF t.payout THEN "granted" ELSE "eligible"]
        /\ kept'  = IF t.payout THEN KeptBy(t) ELSE kept
        /\ given' = IF t.payout THEN GivenBy(t) ELSE given
  /\ Done(h) /\ UNCHANGED <<member, earned>>

\* A side's subscription begins or renews: what is held for it is added.
BeginApply(h, s) == Begin(h, [op |-> "apply", side |-> s, held |-> kept, stale |-> FALSE])

StillKept(t) == t.held \ {t.side}

\* apply_held_credit_on_subscription; the held credits are one column, written whole
\* when something was taken.
CommitApply(h) ==
  /\ turn[h].op = "apply"
  /\ LET t == turn[h]
         takes == t.side \in t.held
     IN /\ member' = member \cup {t.side}
        /\ kept'   = IF takes THEN StillKept(t) ELSE kept
        /\ given'  = IF takes THEN [given EXCEPT ![t.side] = @ + 1] ELSE given
        /\ invite' = IF takes THEN [invite EXCEPT !.raced = @ \/ t.stale] ELSE invite
  /\ Done(h) /\ UNCHANGED earned

Lapses(s) == /\ s \in member /\ member' = member \ {s}
             /\ UNCHANGED <<invite, kept, given, earned, turn>>

Next == \/ Create \/ Link \/ Earns
        \/ \E s \in Sides : Lapses(s)
        \/ \E h \in Handlers :
             \/ \E type \in Rewards, payout \in BOOLEAN : BeginConvert(h, type, payout)
             \/ \E s \in Sides : BeginApply(h, s)
             \/ CommitConvert(h) \/ CommitApply(h)

Spec == Init /\ [][Next]_tutorVars

----------------------------------------------------------------------------
TypeOK == /\ invite \in [st : {"none", "pending", "registered", "converted"}, type : Rewards,
                         reward : {"not_eligible", "eligible", "granted"}, raced : BOOLEAN]
          /\ kept \subseteq Sides /\ member \subseteq Sides /\ earned \in BOOLEAN
          /\ given \in [Sides -> Nat]

\* Once the reward is granted each side has it exactly once: as a coupon, in its
\* subscription or on hold for the next one; over joins, renewals and approvals in
\* any order, as long as no two of them write the same invitation at once.
RewardedOnce ==
  invite.reward = "granted" /\ ~invite.raced =>
    \A s \in Sides : given[s] + (IF s \in kept THEN 1 ELSE 0) = 1
=============================================================================
