---------------------------- MODULE WalkerWallet ----------------------------
(***************************************************************************)
(* The money of one walker: what a walk credits when its report is         *)
(* approved or its late cancellation compensated, what a refund takes      *)
(* back, and the withdrawals the staff approve and the gateway transfers.  *)
(*                                                                         *)
(* Code: app/services/walker_earning_service.py, walker_payout_service.py, *)
(* the balances and request_withdrawal in app/routes/walker.py, the        *)
(* withdrawal routes and _ensure_internal_walk_payment in                  *)
(* app/routes/admin.py, TRANSFER_FAILED and the refund events of the       *)
(* webhook in app/routes/payments.py.                                      *)
(*                                                                         *)
(* A request locks the walker's row, an approval the withdrawal's; each is *)
(* split where it reads, calls the gateway and commits.  One tenant; tips  *)
(* are left out.  The gateway is external.                                 *)
(***************************************************************************)
EXTENDS Naturals, FiniteSetsExt

CONSTANTS
  Walks,      \* walks the walker may serve
  Requests,   \* withdrawals that may be asked for
  Handlers,   \* requests and approvals in flight at once
  Share,      \* the walker's part of a walk, and of a compensation
  Price,      \* the price of a walk
  Auto,       \* WALKER_AUTO_PIX_ENABLED
  MaxLost     \* bound of the model: answers lost per withdrawal

\* What is assumed of the parameters.
AmountsAssumption == Share \in Nat /\ Price \in Nat /\ Share < Price
SetsAssumption    == IsFiniteSet(Walks) /\ IsFiniteSet(Requests)

\* tutor: the tutor's payment of the walk.  internal: there is an internal paid
\* payment, which credits the walker unless the walk was served for the network.
\* earning: the entry of walker_earnings, due from payable_at on.
WalkAt    == {"open", "review", "done", "cancelled"}
Earnings  == {"none", "accrued", "due", "void"}
Walk == [at : WalkAt, report : BOOLEAN, late : BOOLEAN, tutor : {"none", "paid", "refunded"},
         internal : BOOLEAN, net : BOOLEAN, earning : Earnings]
NoWalk == [at |-> "open", report |-> FALSE, late |-> FALSE, tutor |-> "none",
           internal |-> FALSE, net |-> FALSE, earning |-> "none"]

\* ref: provider_payment_id is set.  sent: transfers the gateway made; lost: of
\* these, those whose answer did not arrive.  back is a ghost: it counted again after a rejection.
WdAt == {"none", "pending", "paid", "rejected"}
Withdrawal == [st : WdAt, amount : Nat, linked : BOOLEAN, ref : BOOLEAN,
               sent : Nat, lost : Nat, back : BOOLEAN]
NoWd == [st |-> "none", amount |-> 0, linked |-> FALSE, ref |-> FALSE,
         sent |-> 0, lost |-> 0, back |-> FALSE]

VARIABLES
  walk,    \* the walks and what they credit
  wd,      \* the withdrawals: payments with provider pix
  mail,    \* TRANSFER_FAILED events not delivered yet
  task,    \* what each handler in flight holds
  peak     \* ghost: the most that each walk ever credited

vars == <<walk, wd, mail, task, peak>>

Task == [at : {"idle", "request", "approve", "sent"}, x : Requests \cup {"none"},
         amount : Nat, linked : BOOLEAN]
Idle == [at |-> "idle", x |-> "none", amount |-> 0, linked |-> FALSE]

Init == /\ walk = [w \in Walks |-> NoWalk]
        /\ wd   = [x \in Requests |-> NoWd]
        /\ mail = {}
        /\ task = [h \in Handlers |-> Idle]
        /\ peak = [w \in Walks |-> 0]

Hold(h, t) == task' = [task EXCEPT ![h] = t]
Free(h)    == Hold(h, Idle)

----------------------------------------------------------------------------
(* Balances *)

\* A payment in a paid status that carries the walker's amount.
HasSplit(r) == r.tutor = "paid" \/ r.internal
FromSplit(r) == IF r.tutor = "paid" \/ (r.internal /\ ~r.net) THEN Share ELSE 0
FromLedger(r) == IF r.earning = "due" THEN Share ELSE 0

\* _available_balance: a completed walk without such a payment counts in full.
Credit(r) == FromLedger(r) + (IF r.at # "done" THEN 0
                              ELSE IF HasSplit(r) THEN FromSplit(r) ELSE Price)

\* _balance_by_tenant: it does not.
CreditOfTenant(r) == FromLedger(r) + (IF r.at = "done" THEN FromSplit(r) ELSE 0)

\* _WITHDRAWAL_DEDUCT_STATUSES
Deducts(x) == wd[x].st \in {"pending", "paid"}

Taken(X)  == MapThenSumSet(LAMBDA x : wd[x].amount, X)
Earned    == MapThenSumSet(LAMBDA w : Credit(walk[w]), Walks)
EarnedOfTenant == MapThenSumSet(LAMBDA w : CreditOfTenant(walk[w]), Walks)

\* What a request may take: linked to the tenant, or not.
MayTake(a, linked) ==
  IF linked
  THEN a + Taken({x \in Requests : Deducts(x) /\ wd[x].linked}) <= EarnedOfTenant
  ELSE a + Taken({x \in Requests : Deducts(x)}) <= Earned

----------------------------------------------------------------------------
(* The walks.  WalkMatching and WalkPayments have the detail. *)

Becomes(w, r) == /\ walk' = [walk EXCEPT ![w] = r]
                 /\ UNCHANGED <<wd, mail, task>>

PaidByTutor(w) ==
  /\ walk[w].tutor = "none" /\ walk[w].at \in {"open", "review"}
  /\ Becomes(w, [walk[w] EXCEPT !.tutor = "paid"])

Report(w) == /\ walk[w].at = "open"
             /\ Becomes(w, [walk[w] EXCEPT !.at = "review", !.report = TRUE])

\* Late, it leaves a compensation to review.
Cancel(w, late) == /\ walk[w].at \in {"open", "review"}
                   /\ Becomes(w, [walk[w] EXCEPT !.at = "cancelled", !.late = late])

Accrued(r) == IF r.earning = "none" THEN "accrued" ELSE r.earning

\* approve_walk_completion with _ensure_internal_walk_payment: nothing is
\* credited anew when the tutor's payment is there.
Completed(r, net) ==
  IF r.tutor = "paid" \/ r.internal THEN [r EXCEPT !.at = "done", !.report = FALSE]
  ELSE [r EXCEPT !.at = "done", !.report = FALSE, !.internal = TRUE, !.net = net,
                 !.earning = IF net THEN Accrued(r) ELSE @]

ApproveReport(w, net) == walk[w].report /\ Becomes(w, Completed(walk[w], net))

\* approve_walk_completion of a compensation
ApproveCompensation(w) ==
  /\ walk[w].late
  /\ Becomes(w, [walk[w] EXCEPT !.late = FALSE, !.earning = Accrued(walk[w])])

\* void_walker_earning
Voided(r) == [r EXCEPT !.earning = IF @ = "none" THEN @ ELSE "void"]

Refunded(w) == /\ walk[w].tutor = "paid"
               /\ Becomes(w, [Voided(walk[w]) EXCEPT !.tutor = "refunded"])

\* A chargeback voids without taking the payment back, or the staff void.
Void(w) == walk[w].earning # "none" /\ Becomes(w, Voided(walk[w]))

FallsDue(w) == /\ walk[w].earning = "accrued"
               /\ Becomes(w, [walk[w] EXCEPT !.earning = "due"])

----------------------------------------------------------------------------
(* Withdrawals *)

\* Mutant of WalkerFree: requests do not wait for each other.
WalkerAlwaysFree == TRUE

\* The lock on the walker's row is free.
WalkerFree == \A h \in Handlers : task[h].at # "request"

\* Mutant of RowFree: approvals do not wait for each other.
RowAlwaysFree(x) == x \in Requests

\* The lock on the withdrawal's row is free.
RowFree(x) == \A h \in Handlers : task[h].at \in {"approve", "sent"} => task[h].x # x

\* request_withdrawal: the balance is read under the lock.
BeginRequest(h, x, a, linked) ==
  /\ task[h].at = "idle" /\ WalkerFree
  /\ wd[x].st = "none" /\ \A g \in Handlers : task[g].x # x
  /\ a > 0 /\ MayTake(a, linked)
  /\ Hold(h, [at |-> "request", x |-> x, amount |-> a, linked |-> linked])
  /\ UNCHANGED <<walk, wd, mail>>

CommitRequest(h) ==
  /\ task[h].at = "request"
  /\ wd' = [wd EXCEPT ![task[h].x] = [NoWd EXCEPT !.st = "pending",
                        !.amount = task[h].amount, !.linked = task[h].linked]]
  /\ Free(h)
  /\ UNCHANGED <<walk, mail>>

\* approve_withdrawal: the row is locked; a paid one is left as it is.
BeginApprove(h, x) ==
  /\ task[h].at = "idle" /\ RowFree(x)
  /\ wd[x].st \in {"pending", "rejected"}
  /\ Hold(h, [Idle EXCEPT !.at = "approve", !.x = x])
  /\ UNCHANGED <<walk, wd, mail>>

\* transfer_to_walker: off, or done before.
NoTransfer(x) == ~Auto \/ wd[x].ref

Transfer(h) ==
  /\ task[h].at = "approve" /\ ~NoTransfer(task[h].x)
  /\ wd' = [wd EXCEPT ![task[h].x].sent = @ + 1]
  /\ Hold(h, [task[h] EXCEPT !.at = "sent"])
  /\ UNCHANGED <<walk, mail>>

\* The gateway refuses, and nothing is committed.
TransferFails(h) ==
  /\ task[h].at = "approve" /\ ~NoTransfer(task[h].x)
  /\ Free(h)
  /\ UNCHANGED <<walk, wd, mail>>

\* The answer is lost, or the process dies before the commit.
AnswerLost(h) ==
  /\ task[h].at = "sent" /\ wd[task[h].x].lost < MaxLost
  /\ wd' = [wd EXCEPT ![task[h].x].lost = @ + 1]
  /\ Free(h)
  /\ UNCHANGED <<walk, mail>>

Pays(r, sent) == [r EXCEPT !.st = "paid", !.ref = @ \/ sent,
                           !.back = @ \/ r.st = "rejected"]

CommitApprove(h) ==
  /\ \/ task[h].at = "sent"
     \/ task[h].at = "approve" /\ NoTransfer(task[h].x)
  /\ wd' = [wd EXCEPT ![task[h].x] = Pays(@, task[h].at = "sent")]
  /\ Free(h)
  /\ UNCHANGED <<walk, mail>>

\* reject_withdrawal looks at no status; its UPDATE waits for the lock.
Reject(x) ==
  /\ wd[x].st # "none" /\ RowFree(x)
  /\ wd' = [wd EXCEPT ![x].st = "rejected"]
  /\ UNCHANGED <<walk, mail, task>>

\* The gateway could not deliver a transfer it had accepted, and says so.
Bounce(x) ==
  /\ wd[x].ref /\ x \notin mail
  /\ mail' = mail \cup {x}
  /\ UNCHANGED <<walk, wd, task>>

\* TRANSFER_FAILED: back to pending, whatever it was.
TransferFailed(x) ==
  /\ x \in mail /\ RowFree(x)
  /\ wd'   = [wd EXCEPT ![x].st = "pending", ![x].back = @ \/ wd[x].st = "rejected"]
  /\ mail' = mail \ {x}
  /\ UNCHANGED <<walk, task>>

----------------------------------------------------------------------------
OfWalk(w) == \/ PaidByTutor(w) \/ Report(w) \/ ApproveCompensation(w)
             \/ Refunded(w) \/ Void(w) \/ FallsDue(w)
             \/ \E b \in BOOLEAN : Cancel(w, b) \/ ApproveReport(w, b)
OfHandler(h) == \/ \E x \in Requests :
                     \/ BeginApprove(h, x)
                     \/ \E a \in 1 .. Price, b \in BOOLEAN : BeginRequest(h, x, a, b)
                \/ CommitRequest(h) \/ Transfer(h) \/ TransferFails(h)
                \/ AnswerLost(h) \/ CommitApprove(h)

Larger(m, n) == IF m > n THEN m ELSE n

Next == /\ \/ \E w \in Walks : OfWalk(w)
           \/ \E h \in Handlers : OfHandler(h)
           \/ \E x \in Requests : Reject(x) \/ Bounce(x) \/ TransferFailed(x)
        /\ peak' = [w \in Walks |-> Larger(peak[w], Credit(walk'[w]))]

Spec == Init /\ [][Next]_vars

----------------------------------------------------------------------------
(* Properties *)

TypeOK == /\ walk \in [Walks -> Walk]
          /\ wd   \in [Requests -> Withdrawal]
          /\ mail \subseteq Requests
          /\ task \in [Handlers -> Task]
          /\ peak \in [Walks -> Nat]

\* A withdrawal is transferred once, however often it is approved, rejected and
\* returned - and once more for every transfer whose answer was lost
\* (transfer_to_walker: "idempotente").
TransferredOnce ==
  \A x \in Requests :
    LET held == \E h \in Handlers : task[h].at = "sent" /\ task[h].x = x
    IN wd[x].sent <= wd[x].lost + (IF wd[x].ref \/ held THEN 1 ELSE 0)

\* Nobody withdraws more than was credited (the lock of request_withdrawal, the
\* statuses that deduct): what is asked for and paid exceeds the walks' credits
\* only by credits taken back later, by withdrawals that count again after a
\* rejection, or when linked and unlinked withdrawals are mixed.
NeverOverdrawn ==
  LET counts == {x \in Requests : wd[x].st \in {"pending", "paid"}}
      linked == {x \in counts : wd[x].linked}
  IN linked = {} \/ linked = counts
       => Taken({x \in counts : ~wd[x].back}) <= MapThenSumSet(LAMBDA w : peak[w], Walks)
=============================================================================
