--------------------------- MODULE WalkerReferrals ---------------------------
(***************************************************************************)
(* One walker's referral of another: linked to whoever registers with its  *)
(* code, moved by the staff's decisions on that walker and on the referral *)
(* itself, and paid to both sides once enough walks of the referred walker *)
(* are approved.                                                           *)
(*                                                                         *)
(* Code: app/services/walker_referrals.py and its call sites in            *)
(* app/routes/auth.py (register), referrals.py, partner_application.py,    *)
(* walker.py (profile) and admin.py (decisions, approval of a walk).       *)
(***************************************************************************)
EXTENDS Naturals, FiniteSets

CONSTANTS
  Invited,     \* who may register with the code
  BonusAfter,  \* BONUS_AFTER_COMPLETED_WALKS
  MaxWalks,    \* bound on approved walks
  Handlers     \* requests in flight at once

\* What is assumed of the parameters.
ParametersAssumption == IsFiniteSet(Handlers) /\ BonusAfter \in Nat /\ MaxWalks \in Nat

Statuses == {"pending", "registered", "under_review", "approved", "rejected", "cancelled",
             "converted"}
Unlinked == "nobody"
Referrer == "referrer"

VARIABLES
  referral,  \* the row: status, reward_status and referred_user_id
  bonus,     \* entries of the wallets for this referral: side, whose, after how many walks
  walked,    \* approved walks of each registered walker
  step       \* what each request in flight has read

referrerVars == <<referral, bonus, walked, step>>

Out == [op |-> "idle"]

Init == /\ referral  = [st |-> "pending", reward |-> "not_eligible", to |-> Unlinked]
        /\ bonus  = {}
        /\ walked = [p \in Invited |-> 0]
        /\ step   = [h \in Handlers |-> Out]

Begin(h, s) == step[h] = Out /\ step' = [step EXCEPT ![h] = s] /\ UNCHANGED <<referral, bonus, walked>>
Over(h)     == step' = [step EXCEPT ![h] = Out]

\* validate_referral_code
Valid == referral.st \notin {"rejected", "cancelled"} /\ referral.to = Unlinked

BeginLink(h, p) == Valid /\ Begin(h, [op |-> "link", who |-> p])

\* link_referral_to_user: nothing looks again before the row is written.
CommitLink(h) ==
  /\ step[h].op = "link"
  /\ referral' = [referral EXCEPT !.to = step[h].who, !.st = "registered"]
  /\ Over(h) /\ UNCHANGED <<bonus, walked>>

Decide(o) == referral' = o /\ referral' # referral /\ UNCHANGED <<bonus, walked, step>>

\* mark_referral_under_review, when the linked walker fills in the profile.
UnderReview == /\ referral.to # Unlinked /\ referral.st \in {"registered", "pending"}
               /\ Decide([referral EXCEPT !.st = "under_review"])

\* mark_referral_approved
Approved == /\ referral.to # Unlinked /\ referral.st \in {"registered", "under_review"}
            /\ Decide([referral EXCEPT !.st = "approved", !.reward = "pending"])

\* mark_referral_rejected
Rejected == /\ referral.to # Unlinked /\ referral.st \in {"registered", "under_review", "approved"}
            /\ Decide([referral EXCEPT !.st = "rejected", !.reward = "cancelled"])

\* update_referral_status: any status from any other; enough is the number of walks
\* staff may enter with it.
ByStaff(s, enough) ==
  LET reward == CASE s = "approved"                 -> "pending"
                  [] s \in {"rejected", "cancelled"} -> "cancelled"
                  [] s = "converted"                -> "eligible"
                  [] OTHER                          -> referral.reward
  IN Decide(IF enough /\ s = "approved"
            THEN [referral EXCEPT !.st = "converted", !.reward = "eligible"]
            ELSE [referral EXCEPT !.st = s, !.reward = reward])

\* refresh_referred_walk_count reads the row and the entries of both sides while
\* staff approves a walk of p; on: WALKER_REFERRAL_PAYOUT_ENABLED.
BeginWalk(h, p, on) ==
  /\ walked[p] + Cardinality({g \in Handlers : step[g].op = "walk"}) < MaxWalks
  /\ Begin(h, [op |-> "walk", who |-> p, on |-> on, read |-> referral, entries |-> bonus,
               count |-> walked[p] + 1])

Enough(s) == s.count >= BonusAfter

\* The referral of the walker who walked, as it was read, with what this walk made of it.
Counted(s) ==
  IF s.read.to = s.who /\ s.read.st = "approved" /\ Enough(s)
  THEN [s.read EXCEPT !.st = "converted", !.reward = "eligible"] ELSE s.read

Pays(s) == LET r == Counted(s)
           IN s.on /\ r.to = s.who /\ r.st = "converted" /\ r.reward = "eligible"

\* pay_referral_rewards: the sides with no entry under the made-up walk_id.
Missing(s) == {e \in {<<"referrer", Referrer>>, <<"referred", s.read.to>>} :
                 \A b \in s.entries : b[1] # e[1]}

\* Mutant of Clash: the index is not unique.
ClashNever(new) == FALSE

\* The walk_id of an entry is unique: another request has inserted it meanwhile.
Clash(new) == \E e \in new, b \in bonus : b[1] = e[1]

\* When the insert fails, the approval of the walk fails with it.
CommitWalk(h) ==
  /\ step[h].op = "walk"
  /\ LET s   == step[h]
         new == IF Pays(s) THEN Missing(s) ELSE {}
     IN IF Clash(new) THEN UNCHANGED <<referral, bonus, walked>>
        ELSE /\ walked' = [walked EXCEPT ![s.who] = @ + 1]
             /\ bonus'  = bonus \cup {<<e[1], e[2], walked[s.who]>> : e \in new}
             /\ referral'  = [referral EXCEPT
                  !.st = IF Counted(s).st # s.read.st THEN Counted(s).st ELSE @,
                  !.reward = CASE Pays(s) -> "paid"
                               [] Counted(s).reward # s.read.reward -> Counted(s).reward
                               [] OTHER -> @]
  /\ Over(h)

Next == \/ UnderReview \/ Approved \/ Rejected
        \/ \E s \in Statuses, enough \in BOOLEAN : ByStaff(s, enough)
        \/ \E h \in Handlers, p \in Invited :
             BeginLink(h, p) \/ \E on \in BOOLEAN : BeginWalk(h, p, on)
        \/ \E h \in Handlers : CommitLink(h) \/ CommitWalk(h)

Spec == Init /\ [][Next]_referrerVars

----------------------------------------------------------------------------
TypeOK == /\ referral \in [st : Statuses, to : Invited \cup {Unlinked},
                        reward : {"not_eligible", "pending", "eligible", "paid", "cancelled"}]
          /\ \A b \in bonus : b[1] \in {"referrer", "referred"} /\ b[2] \in Invited \cup {Referrer}
          /\ walked \in [Invited -> 0 .. MaxWalks]

\* The bonus of a referral is entered once a side at most, and for both sides together,
\* however often staff takes the referral back to an earlier status and however many
\* approvals of walks overlap.
BonusIsPaidOnce ==
  /\ Cardinality(bonus) \in {0, 2}
  /\ \A a, b \in bonus : a[1] = b[1] => a = b
=============================================================================
