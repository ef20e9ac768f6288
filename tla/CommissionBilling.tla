-------------------------- MODULE CommissionBilling --------------------------
(***************************************************************************)
(* The commission a tenant owes for the walks its own walkers serve: one   *)
(* entry per approved walk, one charge per month at the gateway, and the   *)
(* reversal of a walk that was refunded - void before it is charged, a     *)
(* credit in the next month after.                                         *)
(*                                                                         *)
(* Code: app/services/commission_billing_service.py, the accrual in        *)
(* app/routes/admin.py, the commission branch of the webhook and the       *)
(* monthly route in app/routes/payments.py.                                *)
(*                                                                         *)
(* A billing run reads its entries, calls the gateway and commits what it  *)
(* read as billed: three steps.  One tenant; every entry is worth one.     *)
(***************************************************************************)
EXTENDS Naturals, Sequences, FiniteSets

CONSTANTS
  Walks,       \* walks the tenant's own walkers may serve
  Runs,        \* billing runs in flight at once
  MaxPeriod,   \* bound of the model: months
  MaxCharges   \* bound of the model: charges at the gateway

\* What is assumed of the parameters.
BillingBounds  == MaxPeriod \in Nat \ {0} /\ MaxCharges \in Nat
WalksAreFinite == IsFiniteSet(Walks)

Months  == 1 .. MaxPeriod
Charges == 1 .. MaxCharges

\* The rows of commission_entries: one of the walk, one of its credit
\* (walk_id comm-void-adj-...), the latter a month later.
Kinds   == {"walk", "credit"}
Rows    == Walks \X Kinds
Status  == {"none", "accrued", "billed", "paid", "void"}
Entry   == [st : Status, month : Months \cup {MaxPeriod + 1}, charge : Charges \cup {0}]
NoEntry == [st |-> "none", month |-> 1, charge |-> 0]
Charge  == [rows : SUBSET Rows, total : Nat, known : BOOLEAN, paid : BOOLEAN]

VARIABLES
  entry,       \* the rows of commission_entries
  charge,      \* the gateway's charges, in the order they were made
  run,         \* what each billing run in flight holds
  reversed,    \* ghost: walks whose commission was reversed
  overtaken,   \* ghost: rows that were void when a run committed them as billed
  raced        \* ghost: months that two runs billed at the same time

vars == <<entry, charge, run, reversed, overtaken, raced>>

Run  == [at : {"idle", "read", "charged"}, month : Months, rows : SUBSET Rows,
         charge : Charges \cup {0}]
Idle == [at |-> "idle", month |-> 1, rows |-> {}, charge |-> 0]

Init == /\ entry     = [r \in Rows |-> NoEntry]
        /\ charge    = <<>>
        /\ run       = [h \in Runs |-> Idle]
        /\ reversed  = {}
        /\ overtaken = {}
        /\ raced     = {}

----------------------------------------------------------------------------
(* Entries *)

\* accrue_commission_for_walk: once per walk, in the month it was scheduled for,
\* however late the approval comes.
Accrue(w, m) ==
  /\ entry[<<w, "walk">>].st = "none"
  /\ entry' = [entry EXCEPT ![<<w, "walk">>] = [NoEntry EXCEPT !.st = "accrued", !.month = m]]
  /\ UNCHANGED <<charge, run, reversed, overtaken, raced>>

\* Mutant of Credited: a billed entry is left as it is.
CreditedNot(w) == [NoEntry EXCEPT !.month = entry[<<w, "walk">>].month]

\* Mutant of Credited: two months later.
CreditedLater(w) == [NoEntry EXCEPT !.st = "accrued", !.month = entry[<<w, "walk">>].month + 2]

Credited(w) == [NoEntry EXCEPT !.st = "accrued", !.month = entry[<<w, "walk">>].month + 1]

\* reverse_commission_for_walk, from a refund event or the staff.
Reverse(w) ==
  LET e == entry[<<w, "walk">>] IN
  /\ \/ /\ e.st = "accrued"
        /\ entry' = [entry EXCEPT ![<<w, "walk">>].st = "void"]
     \/ /\ e.st \in {"billed", "paid"} /\ entry[<<w, "credit">>].st = "none"
        /\ entry' = [entry EXCEPT ![<<w, "credit">>] = Credited(w)]
  /\ reversed' = reversed \cup {w}
  /\ UNCHANGED <<charge, run, overtaken, raced>>

----------------------------------------------------------------------------
(* bill_tenant_commission *)

\* A charge of the month is known and not paid yet.
Already(m) == \E r \in Rows : entry[r].month = m /\ entry[r].st = "billed"

\* Mutant of Billable: what was billed is taken again.
BillableAgain(m) == {r \in Rows : entry[r].month = m /\ entry[r].st \in {"accrued", "billed", "paid"}}

Billable(m) == {r \in Rows : entry[r].month = m /\ entry[r].st = "accrued"}

Plain(R)   == {r \in R : r[2] = "walk"}
Credits(R) == R \ Plain(R)
Positive(R) == Cardinality(Plain(R)) > Cardinality(Credits(R))

\* Nothing locks the month: two runs may read the same rows.
BeginBill(h, m) ==
  /\ run[h].at = "idle" /\ ~Already(m) /\ Positive(Billable(m))
  /\ run' = [run EXCEPT ![h] = [at |-> "read", month |-> m, rows |-> Billable(m), charge |-> 0]]
  /\ raced' = raced \cup {n \in {m} : \E g \in Runs : run[g].at # "idle" /\ run[g].month = n}
  /\ UNCHANGED <<entry, charge, reversed, overtaken>>

\* charge_fn: the total is of the rows read.
NewCharge(R, known) == [rows |-> R, total |-> Cardinality(Plain(R)) - Cardinality(Credits(R)),
                        known |-> known, paid |-> FALSE]

MakeCharge(h) ==
  /\ run[h].at = "read" /\ Len(charge) < MaxCharges
  /\ charge' = Append(charge, NewCharge(run[h].rows, TRUE))
  /\ run' = [run EXCEPT ![h].at = "charged", ![h].charge = Len(charge')]
  /\ UNCHANGED <<entry, reversed, overtaken, raced>>

\* The gateway refuses; rolled back.
ChargeFails(h) ==
  /\ run[h].at = "read"
  /\ run' = [run EXCEPT ![h] = Idle]
  /\ UNCHANGED <<entry, charge, reversed, overtaken, raced>>

\* The charge is made and nothing is written: its answer is lost, or the process
\* dies, or the commit fails.
ChargeLost(h) ==
  /\ run[h].at = "charged"
  /\ charge' = [charge EXCEPT ![run[h].charge].known = FALSE]
  /\ run' = [run EXCEPT ![h] = Idle]
  /\ UNCHANGED <<entry, reversed, overtaken, raced>>

\* Every row read is billed, whatever it is by now.
CommitBill(h) ==
  /\ run[h].at = "charged"
  /\ entry' = [r \in Rows |-> IF r \in run[h].rows
                 THEN [entry[r] EXCEPT !.st = "billed", !.charge = run[h].charge]
                 ELSE entry[r]]
  /\ overtaken' = overtaken \cup {r \in run[h].rows : entry[r].st = "void"}
  /\ run' = [run EXCEPT ![h] = Idle]
  /\ UNCHANGED <<charge, reversed, raced>>

----------------------------------------------------------------------------
\* The tenant pays; mark_commission_paid when the event comes.
Pay(c) ==
  /\ c \in DOMAIN charge /\ ~charge[c].paid
  /\ charge' = [charge EXCEPT ![c].paid = TRUE]
  /\ UNCHANGED <<entry, run, reversed, overtaken, raced>>

\* Mutant of Marks: the month is paid, not the charge.
MarksMonth(c) == {r \in Rows : entry[r].st = "billed" /\
                    \E q \in charge[c].rows : entry[q].month = entry[r].month}

Marks(c) == {r \in Rows : entry[r].charge = c /\ entry[r].st = "billed"}

MarkPaid(c) ==
  /\ c \in DOMAIN charge /\ charge[c].paid /\ Marks(c) # {}
  /\ entry' = [r \in Rows |-> IF r \in Marks(c) THEN [entry[r] EXCEPT !.st = "paid"]
                                                ELSE entry[r]]
  /\ UNCHANGED <<charge, run, reversed, overtaken, raced>>

Next == \/ \E w \in Walks : Reverse(w) \/ \E m \in Months : Accrue(w, m)
        \/ \E h \in Runs : \/ \E m \in Months : BeginBill(h, m)
                           \/ MakeCharge(h) \/ ChargeFails(h) \/ ChargeLost(h) \/ CommitBill(h)
        \/ \E c \in Charges : Pay(c) \/ MarkPaid(c)

Spec == Init /\ [][Next]_vars

----------------------------------------------------------------------------
(* Properties *)

TypeOK == /\ entry \in [Rows -> Entry]
          /\ charge \in Seq(Charge) /\ Len(charge) <= MaxCharges
          /\ run \in [Runs -> Run]
          /\ reversed \subseteq Walks /\ overtaken \subseteq Rows /\ raced \subseteq Months

\* A charge the books know asks for what its entries say: the rows billed under it
\* are those it was made for, so no row is in two of them ("evitando cobranca dupla
\* no proximo run").  The exceptions are charges whose answer was lost, which the
\* code documents, and months that two runs bill at once, which nothing prevents.
ChargesMatchEntries ==
  \A c \in DOMAIN charge :
    \/ ~charge[c].known
    \/ \E h \in Runs : run[h].charge = c
    \/ \E r \in charge[c].rows : entry[r].month \in raced
    \/ charge[c].rows = {r \in Rows : entry[r].charge = c}

\* The books say paid only of what was in a paid charge.
PaidWasCharged ==
  \A r \in Rows : entry[r].st = "paid" =>
    entry[r].charge # 0 /\ charge[entry[r].charge].paid /\ r \in charge[entry[r].charge].rows

\* A reversed walk is not charged, or it is credited - unless the reversal came
\* between the read and the commit of the run that charged it.
ReversedIsSettled ==
  \A w \in reversed :
    \/ entry[<<w, "walk">>].st = "void"
    \/ entry[<<w, "credit">>].st # "none"
    \/ <<w, "walk">> \in overtaken

\* The books and the gateway's charges tell the same story: each walk is billed once,
\* paid when its charge was, and credited when it was reversed.
BooksMatchCharges == ChargesMatchEntries /\ PaidWasCharged /\ ReversedIsSettled
=============================================================================
