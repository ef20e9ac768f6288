------------------------------ MODULE TipLedger ------------------------------
(***************************************************************************)
(* The tips of one tutor for one walk.  A checkout opens a charge at the   *)
(* gateway and supersedes the sessions before it; the gateway's events     *)
(* come late and in any order.                                             *)
(*                                                                         *)
(* Code: create_walk_tip_checkout in app/routes/walks.py,                  *)
(* _handle_tip_webhook in app/routes/payments.py and what the wallet in    *)
(* app/routes/walker.py counts.  The gateway is external.                  *)
(***************************************************************************)
EXTENDS Naturals, FiniteSets

CONSTANTS
  Tips,      \* rows of walk_tips that may be made
  Amounts,   \* what a tip may be worth
  Askers     \* checkouts in flight at once

\* What the webhook makes of an event (STATUS_BY_WEBHOOK_EVENT).
Events == {"waits", "confirmed", "failed"}

VARIABLES
  tip,     \* the rows: status, amount, charge open at the gateway and paid there,
           \* and, a ghost, whether an event reopened it after it was superseded
  fresh,   \* tips paid in the last quarter of an hour
  told,    \* events not delivered yet: pairs of tip and event
  ask      \* what each checkout in flight holds

tipVars == <<tip, fresh, told, ask>>

TipRow == [st : {"none", "pending", "cancelled", "paid", "failed"}, amount : Amounts \cup {0},
           billed : BOOLEAN, got : BOOLEAN, revived : BOOLEAN]
NoTip  == [st |-> "none", amount |-> 0, billed |-> FALSE, got |-> FALSE, revived |-> FALSE]
NoAsk  == [at |-> "idle", tip |-> "none", amount |-> 0]

Init == /\ tip   = [t \in Tips |-> NoTip]
        /\ fresh = {}
        /\ told  = {}
        /\ ask   = [h \in Askers |-> NoAsk]

\* An identical tip was paid a moment ago.
Duplicate(a) == \E t \in fresh : tip[t].st = "paid" /\ tip[t].amount = a

BeginCheckout(h, t, a) ==
  /\ ask[h].at = "idle" /\ tip[t].st = "none"
  /\ \A g \in Askers : ask[g].tip # t
  /\ ~Duplicate(a)
  /\ ask' = [ask EXCEPT ![h] = [at |-> "asked", tip |-> t, amount |-> a]]
  /\ UNCHANGED <<tip, fresh, told>>

\* The gateway makes the charge, tells of it, and is not waited for any more; or
\* it does not answer, which the checkout survives; or it refuses.
Charged(h) ==
  /\ ask[h].at = "asked"
  /\ tip'  = [tip EXCEPT ![ask[h].tip].billed = TRUE]
  /\ told' = told \cup {<<ask[h].tip, "waits">>}
  /\ ask'  = [ask EXCEPT ![h].at = "charged"]
  /\ UNCHANGED fresh

\* Mutant of Superseded: earlier sessions stay open.
SupersededNot(t) == tip[t]

Superseded(t) == [tip[t] EXCEPT !.st = IF @ = "pending" THEN "cancelled" ELSE @]

CommitCheckout(h) ==
  /\ ask[h].at \in {"asked", "charged"}
  /\ tip' = [t \in Tips |-> IF t = ask[h].tip
                            THEN [tip[t] EXCEPT !.st = "pending", !.amount = ask[h].amount]
                            ELSE Superseded(t)]
  /\ ask' = [ask EXCEPT ![h] = NoAsk]
  /\ UNCHANGED <<fresh, told>>

Refused(h) ==
  /\ ask[h].at = "asked"
  /\ ask' = [ask EXCEPT ![h] = NoAsk]
  /\ UNCHANGED <<tip, fresh, told>>

\* The tutor pays a charge, superseded or not, looks at it, lets it fall due, or
\* takes the money back.
Pay(t) == /\ tip[t].billed /\ ~tip[t].got
          /\ tip'  = [tip EXCEPT ![t].got = TRUE]
          /\ told' = told \cup {<<t, "confirmed">>}
          /\ UNCHANGED <<fresh, ask>>

Tell(t, e) == /\ tip[t].billed /\ e \in {"waits", "failed"} /\ <<t, e>> \notin told
              /\ told' = told \cup {<<t, e>>}
              /\ UNCHANGED <<tip, fresh, ask>>

\* Mutant of Told: what is not refused is paid.
ToldPaid(e) == IF e = "failed" THEN "failed" ELSE "paid"

Told(e) == CASE e = "confirmed" -> "paid" [] e = "failed" -> "failed" [] e = "waits" -> "pending"

\* _handle_tip_webhook: whatever the tip was.  An event of a tip that is not
\* written yet is taken and has no effect.
Deliver(t, e) ==
  /\ <<t, e>> \in told
  /\ told' = told \ {<<t, e>>}
  /\ IF tip[t].st = "none" THEN UNCHANGED <<tip, fresh>>
     ELSE /\ tip'   = [tip EXCEPT ![t].st = Told(e),
                                  ![t].revived = @ \/ (e = "waits" /\ tip[t].st # "pending")]
          /\ fresh' = IF e = "confirmed" THEN fresh \cup {t} ELSE fresh
  /\ UNCHANGED ask

Ages == fresh # {} /\ fresh' = {} /\ UNCHANGED <<tip, told, ask>>

Next == \/ \E h \in Askers : \/ \E t \in Tips, a \in Amounts : BeginCheckout(h, t, a)
                             \/ Charged(h) \/ CommitCheckout(h) \/ Refused(h)
        \/ \E t \in Tips : Pay(t) \/ \E e \in Events : Tell(t, e) \/ Deliver(t, e)
        \/ Ages

Spec == Init /\ [][Next]_tipVars

----------------------------------------------------------------------------
TypeOK == /\ tip \in [Tips -> TipRow]
          /\ fresh \subseteq Tips
          /\ told \subseteq Tips \X Events
          /\ ask \in [Askers -> [at : {"idle", "asked", "charged"}, tip : Tips \cup {"none"},
                                 amount : Amounts \cup {0}]]

\* "At most one pending tip of a walk and tutor" (the guard of the checkout):
\* concurrent checkouts keep it; a late event, which sets a superseded tip back to
\* pending, does not.
OneOpenTip ==
  LET open == {t \in Tips : tip[t].st = "pending" /\ ~tip[t].revived}
  IN Cardinality(open) <= 1

\* The wallet counts a tip only when the gateway got the tutor's money, in whatever
\* order events and checkouts come.
CountedTipWasPaid == \A t \in Tips : tip[t].st = "paid" => tip[t].got

\* A walk has one tip open at a time, and what counts is what the tutor paid.
TipsFollowMoney == OneOpenTip /\ CountedTipWasPaid
=============================================================================
