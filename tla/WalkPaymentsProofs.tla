------------------------ MODULE WalkPaymentsProofs ------------------------
(***************************************************************************)
(* Proofs about WalkPayments, for any number of charges, of handlers and   *)
(* of deliveries in flight, with or without event ids, cards and crashes.  *)
(*                                                                         *)
(* BooksMatchGateway is not inductive by itself: an event in the mail must *)
(* tell the truth about its charge (MailIsTrue), so must a delivery and    *)
(* the row it loaded (HooksAreTrue), however old; and a charge without a   *)
(* row must not exist at the gateway (part of Sound), for a new charge not *)
(* to bring down what an old row or event says.                            *)
(***************************************************************************)
EXTENDS WalkPayments, TLAPS

\* What a row may say of its charge.
Sound(r, g) == /\ r.status = "none"      => g = "none"
               /\ r.status = "confirmed" => g \in MoneyIn
               /\ r.status = "refunded"  => g = "refunded"
               /\ r.refund = "done"      => g \in {"partly", "refunded"}

\* What a row that was loaded at any time may say of its charge.
Claim(st, g) == /\ st = "confirmed" => g \in MoneyIn
                /\ st = "refunded"  => g = "refunded"

\* What an event may say of its charge.
Truthful(k, g) == /\ k \in {"confirmed", "received"} => g \in MoneyIn
                  /\ k = "partial"  => g \in {"partly", "refunded"}
                  /\ k = "refunded" => g = "refunded"

RowsAreSound == \A c \in Charges : Sound(row[c], gate[c])
MailIsTrue   == \A e \in mail : Truthful(e.kind, gate[e.charge])

Paid == \E c \in Charges : gate[c] \in MoneyIn

\* What a handler in flight holds: rows that exist, and a search only of a paid
\* walk.
TaskSound(t) ==
  /\ t.rows \cap Unused = {} /\ t.refund # "done"
  /\ t.at = "write" =>
       \/ t.walk \in {"awaiting_payment", "ride_cancelled", "deleted"}
       \/ t.walk = "released" /\ Paid
TasksAreSound == \A h \in Handlers : TaskSound(task[h])

\* What a delivery in flight holds: the walk it read, when it confirms a payment.
Believes(t) ==
  /\ t.charge \in Charges
  /\ Truthful(t.kind, gate[t.charge]) /\ Claim(t.status, gate[t.charge])
  /\ t.walk # "none" => Resolve(t.status, t.kind) = "confirmed"
  /\ t.at = "confirm" => Resolve(t.status, t.kind) = "confirmed"
  /\ t.at = "settle" /\ Resolve(t.status, t.kind) = "confirmed" => t.walk # "none"
HooksAreTrue == \A w \in Hooks : hook[w].at # "idle" => Believes(hook[w])

Inv == /\ TypeOK /\ TasksAreSound /\ HooksAreTrue
       /\ RowsAreSound /\ MailIsTrue /\ ReleasedIsPaid

----------------------------------------------------------------------------
(* What a step may do to the walk *)

WalkType == [status : WalkStatus, covered : BOOLEAN, hand : BOOLEAN]

LEMMA SetWalkType ==
  ASSUME walk \in WalkType, NEW st \in WalkStatus
  PROVE  /\ SetWalk(st) => walk' \in WalkType /\ walk'.status = st
         /\ SetByHand(st) => /\ walk' \in WalkType /\ walk'.status = st
                             /\ st # "awaiting_payment" => walk'.hand
<1>1. ASSUME NEW hand \in BOOLEAN, Moved(st, hand)
      PROVE  walk' \in WalkType /\ walk'.status = st /\ walk'.hand = hand
  <2>1. PICK cov \in BOOLEAN : walk' = [status |-> st, hand |-> hand, covered |-> cov]
    BY <1>1, Zenon DEF Moved
  <2> QED
    BY <2>1 DEF WalkType
<1>2. PICK away \in BOOLEAN : away = (st # "awaiting_payment")
  BY Zenon
<1>3. SetWalk(st) => walk' \in WalkType /\ walk'.status = st
  BY <1>1 DEF SetWalk
<1>4. SetByHand(st) => walk' \in WalkType /\ walk'.status = st /\ walk'.hand = away
  BY <1>1, <1>2 DEF SetByHand
<1> QED
  BY <1>2, <1>3, <1>4

----------------------------------------------------------------------------
(* The gateway moves on *)

\* How the gateway may change a charge: money that came in stays visible.
Grows(g, h) == /\ h \in Gate
               /\ g \in MoneyIn => h \in MoneyIn
               /\ g \in {"partly", "refunded"} => h \in {"partly", "refunded"}
               /\ g = "refunded" => h = "refunded"
GateGrows == \A c \in Charges : Grows(gate[c], gate'[c])

\* And no charge comes into being.
Onward(g, h) == Grows(g, h) /\ (g = "none" <=> h = "none")

LEMMA QuietGate == ASSUME TypeOK, UNCHANGED gate PROVE GateGrows
BY DEF TypeOK, GateGrows, Grows

LEMMA StillPaid == ASSUME GateGrows, Paid PROVE Paid'
BY DEF GateGrows, Grows, Paid

\* What was true of a charge stays true.
LEMMA StillTrue ==
  ASSUME NEW g, NEW h, Grows(g, h)
  PROVE  /\ \A k : Truthful(k, g) => Truthful(k, h)
         /\ \A st : Claim(st, g) => Claim(st, h)
BY DEF Grows, Truthful, Claim

\* The deliveries in flight still tell the truth.
LEMMA HooksKeep ==
  ASSUME HooksAreTrue, GateGrows, UNCHANGED hook
  PROVE  HooksAreTrue'
<1> SUFFICES ASSUME NEW w \in Hooks, hook[w].at # "idle" PROVE Believes(hook[w])'
  BY DEF HooksAreTrue
<1>1. Believes(hook[w]) /\ hook[w].charge \in Charges
  BY DEF HooksAreTrue, Believes
<1>2. Grows(gate[hook[w].charge], gate'[hook[w].charge])
  BY <1>1 DEF GateGrows
<1> QED
  BY <1>1, <1>2, StillTrue DEF Believes

\* No step makes a row disappear.
RowsStay == \A c \in Charges : row[c].status # "none" => row'[c].status # "none"

LEMMA TaskStaysSound ==
  ASSUME NEW t, TaskSound(t), RowsStay, GateGrows
  PROVE  TaskSound(t)'
<1>1. Unused' \subseteq Unused
  BY DEF RowsStay, Unused, RowsWith
<1> QED
  BY <1>1, StillPaid DEF TaskSound

\* What a handler keeps across its wait, and what it forgets when it ends.
LEMMA HoldSound ==
  ASSUME Inv, RowsStay, GateGrows, NEW h, NEW t \in Task, TaskSound(t), Hold(h, t)
  PROVE  TasksAreSound' /\ task' \in [Handlers -> Task]
<1>1. task \in [Handlers -> Task]
  BY DEF Inv, TypeOK
<1>2. task' \in [Handlers -> Task]
      /\ \A g \in Handlers : task'[g] = IF g = h THEN t ELSE task[g]
  BY <1>1 DEF Hold
<1> SUFFICES ASSUME NEW g \in Handlers PROVE TaskSound(task[g])'
  BY <1>2 DEF TasksAreSound
<1>3. TaskSound(task'[g])
  BY <1>2 DEF Inv, TasksAreSound
<1>4. PICK u : u = task'[g]
  OBVIOUS
<1>5. TaskSound(u)'
  BY <1>3, <1>4, TaskStaysSound
<1> QED
  BY <1>4, <1>5 DEF TaskSound

\* An idle handler.
LEMMA IdleType == Idle \in Task /\ Idle.rows = {} /\ Idle.refund = "none" /\ Idle.at = "idle"
BY DEF Idle, Task, Steps, Refund

LEMMA FreeSound ==
  ASSUME Inv, RowsStay, GateGrows, NEW h, Free(h)
  PROVE  TasksAreSound' /\ task' \in [Handlers -> Task]
<1>1. TaskSound(Idle)
  BY IdleType DEF TaskSound
<1> QED
  BY <1>1, IdleType, HoldSound DEF Free

LEMMA KeepSound ==
  ASSUME Inv, RowsStay, GateGrows, UNCHANGED task
  PROVE  TasksAreSound' /\ task' \in [Handlers -> Task]
<1>1. task \in [Handlers -> Task]
  BY DEF Inv, TypeOK
<1> SUFFICES ASSUME NEW g \in Handlers PROVE TaskSound(task[g])'
  BY <1>1 DEF TasksAreSound
<1>2. TaskSound(task[g])
  BY DEF Inv, TasksAreSound
<1>3. PICK u : u = task[g]
  OBVIOUS
<1>4. TaskSound(u)'
  BY <1>2, <1>3, TaskStaysSound
<1> QED
  BY <1>3, <1>4 DEF TaskSound

\* A step that only moves the gateway onward, and mails what is true of it,
\* keeps the invariant.
LEMMA OnwardKeeps ==
  ASSUME Inv, UNCHANGED <<walk, row, hook>>,
         TasksAreSound' /\ task' \in [Handlers -> Task],
         gate' \in [Charges -> Gate], mail' \subseteq Events,
         \A c \in Charges : Onward(gate[c], gate'[c]),
         \A e \in mail' : e \in mail \/ Truthful(e.kind, gate'[e.charge])
  PROVE  Inv'
<1>1. TypeOK'
  BY DEF Inv, TypeOK
<1>2. GateGrows
  BY DEF GateGrows, Onward
<1>3. RowsAreSound'
  <2> SUFFICES ASSUME NEW c \in Charges PROVE Sound(row[c], gate'[c])
    BY DEF RowsAreSound
  <2> QED
    BY DEF Inv, RowsAreSound, Sound, Onward, Grows
<1>4. MailIsTrue'
  <2> SUFFICES ASSUME NEW e \in mail' PROVE Truthful(e.kind, gate'[e.charge])
    BY DEF MailIsTrue
  <2>1. e.charge \in Charges
    BY DEF Events
  <2> QED
    BY <2>1 DEF Inv, MailIsTrue, Truthful, Onward, Grows
<1>5. ReleasedIsPaid'
  BY <1>2 DEF Inv, ReleasedIsPaid, GateGrows, Grows
<1>6. HooksAreTrue'
  BY <1>2, HooksKeep DEF Inv
<1> QED
  BY <1>1, <1>3, <1>4, <1>5, <1>6 DEF Inv

\* A step that leaves the money and the deliveries alone.
LEMMA QuietKeeps ==
  ASSUME Inv, UNCHANGED <<gate, mail, hook>>,
         TasksAreSound' /\ task' \in [Handlers -> Task],
         walk' \in WalkType,
         row' \in [Charges -> Row], RowsAreSound', ReleasedIsPaid'
  PROVE  Inv'
<1>1. HooksAreTrue'
  BY QuietGate, HooksKeep DEF Inv
<1> QED
  BY <1>1 DEF Inv, TypeOK, MailIsTrue, WalkType

LEMMA EventType ==
  ASSUME NEW c \in Charges, NEW k \in Kinds
  PROVE  /\ Event(c, k) \in Events
         /\ Event(c, k).charge = c
         /\ Event(c, k).kind = k
BY DEF Event, Events

\* Deleting stale charges touches open ones only.
LEMMA DeleteKeeps ==
  ASSUME Inv, NEW stale \in SUBSET Charges, DeleteCharges(stale), UNCHANGED <<walk, row, hook>>,
         TasksAreSound' /\ task' \in [Handlers -> Task]
  PROVE  Inv'
<1>1. PICK gone \in SUBSET {c \in stale : gate[c] = "open"} :
        /\ gate' = [c \in Charges |-> IF c \in gone THEN "deleted" ELSE gate[c]]
        /\ mail' = mail \cup {Event(c, "failed") : c \in gone}
  BY DEF DeleteCharges
<1>2. gate \in [Charges -> Gate] /\ mail \subseteq Events
  BY DEF Inv, TypeOK
<1>3. gate' \in [Charges -> Gate] /\ \A c \in Charges : Onward(gate[c], gate'[c])
  BY <1>1, <1>2 DEF Gate, Onward, Grows, MoneyIn
<1>4. \A e \in mail' : e \in mail \/ Truthful(e.kind, gate'[e.charge])
  BY <1>1 DEF Event, Truthful
<1>5. mail' \subseteq Events
  BY <1>1, <1>2, EventType DEF Kinds
<1> QED
  BY <1>3, <1>4, <1>5, OnwardKeeps

LEMMA DeleteGrows ==
  ASSUME TypeOK, NEW stale \in SUBSET Charges, DeleteCharges(stale) PROVE GateGrows
<1>1. PICK gone \in SUBSET {c \in stale : gate[c] = "open"} :
        gate' = [c \in Charges |-> IF c \in gone THEN "deleted" ELSE gate[c]]
  BY DEF DeleteCharges
<1> QED
  BY <1>1 DEF TypeOK, GateGrows, Grows, Gate, MoneyIn

LEMMA RefundGrows ==
  ASSUME TypeOK, NEW c \in Charges, NEW all \in BOOLEAN, NEW ok \in BOOLEAN,
         AskRefund(c, all, ok)
  PROVE  GateGrows
<1>1. CASE UNCHANGED gate
  BY <1>1, QuietGate
<1>2. CASE ~UNCHANGED gate
  <2> DEFINE g == AfterRefund(gate[c], all)
  <2>1. gate' = [gate EXCEPT ![c] = g] /\ gate[c] \in {"paid", "partly"}
    BY <1>2 DEF AskRefund
  <2>2. g \in {"partly", "refunded"} /\ (gate[c] = "partly" => g = "refunded")
    BY DEF AfterRefund
  <2> HIDE DEF g
  <2> QED
    BY <2>1, <2>2 DEF TypeOK, GateGrows, Grows, Gate, MoneyIn
<1> QED
  BY <1>1, <1>2

\* A refund asked at the gateway, whatever the caller is told.
LEMMA RefundKeeps ==
  ASSUME Inv, NEW c \in Charges, NEW all \in BOOLEAN, NEW ok \in BOOLEAN,
         AskRefund(c, all, ok), UNCHANGED <<walk, row, hook>>,
         TasksAreSound' /\ task' \in [Handlers -> Task]
  PROVE  Inv'
<1>1. gate \in [Charges -> Gate] /\ mail \subseteq Events
  BY DEF Inv, TypeOK
<1>2. CASE UNCHANGED <<gate, mail>>
  BY <1>1, <1>2, OnwardKeeps DEF Onward, Grows
<1>3. CASE ~UNCHANGED <<gate, mail>>
  <2> DEFINE g == AfterRefund(gate[c], all)
             e == Event(c, IF g = "refunded" THEN "refunded" ELSE "partial")
  <2>1. /\ gate[c] \in {"paid", "partly"}
        /\ gate' = [gate EXCEPT ![c] = g]
        /\ mail' = mail \cup {e}
    BY <1>3 DEF AskRefund
  <2>2. g \in {"partly", "refunded"} /\ (gate[c] = "partly" => g = "refunded")
    BY DEF AfterRefund
  <2>3. e \in Events /\ e.charge = c /\ Truthful(e.kind, g)
    BY <2>2, EventType DEF Kinds, Truthful
  <2> HIDE DEF g, e
  <2>4. gate' \in [Charges -> Gate] /\ gate'[c] = g
    BY <1>1, <2>1, <2>2 DEF Gate
  <2>5. \A d \in Charges : Onward(gate[d], gate'[d])
    BY <1>1, <2>1, <2>2, <2>4 DEF Onward, Grows, Gate, MoneyIn
  <2> QED
    BY <1>1, <2>1, <2>3, <2>4, <2>5, OnwardKeeps
<1> QED
  BY <1>2, <1>3

LEMMA GatewayKeeps == ASSUME Inv, Gateway PROVE Inv'
<1>1. PICK c \in Charges : Pay(c) \/ Lapse(c)
  BY DEF Gateway
<1>2. /\ gate \in [Charges -> Gate] /\ mail \subseteq Events
      /\ task \in [Handlers -> Task]
  BY DEF Inv, TypeOK
<1>3. CASE Pay(c)
  <2>1. gate' = [gate EXCEPT ![c] = "paid"] /\ gate[c] = "open"
    BY <1>3 DEF Pay
  <2>2. gate' \in [Charges -> Gate] /\ gate'[c] = "paid"
        /\ \A d \in Charges : Onward(gate[d], gate'[d])
    BY <1>2, <2>1 DEF Gate, Onward, Grows, MoneyIn
  <2>3. mail' \subseteq mail \cup {Event(c, "confirmed"), Event(c, "received")}
    BY <1>3 DEF Pay
  <2>4. mail' \subseteq Events
    BY <1>2, <2>3, EventType DEF Kinds
  <2>5. \A e \in mail' : e \in mail \/ Truthful(e.kind, gate'[e.charge])
    BY <2>2, <2>3, EventType DEF Kinds, Truthful, MoneyIn
  <2> QED
    BY <1>3, <2>2, <2>4, <2>5, OnwardKeeps, KeepSound DEF Pay, RowsStay, GateGrows, Onward
<1>4. CASE Lapse(c)
  <2>1. gate[c] = "open" /\ (gate' = gate \/ gate' = [gate EXCEPT ![c] = "deleted"])
    BY <1>4 DEF Lapse
  <2>2. gate' \in [Charges -> Gate] /\ \A d \in Charges : Onward(gate[d], gate'[d])
    BY <1>2, <2>1 DEF Gate, Onward, Grows, MoneyIn
  <2>3. mail' = mail \cup {Event(c, "failed")}
    BY <1>4 DEF Lapse
  <2>4. mail' \subseteq Events
        /\ \A e \in mail' : e \in mail \/ Truthful(e.kind, gate'[e.charge])
    BY <1>2, <2>3, EventType DEF Kinds, Truthful
  <2> QED
    BY <1>4, <2>2, <2>4, OnwardKeeps, KeepSound DEF Lapse, RowsStay, GateGrows, Onward
<1> QED
  BY <1>1, <1>3, <1>4

----------------------------------------------------------------------------
(* create_payment *)

\* A regenerated row claims nothing about money.
LEMMA RegeneratedSound ==
  ASSUME Inv, NEW stale, stale \cap Unused = {}, UNCHANGED gate, row' = Regenerated(stale)
  PROVE  row' \in [Charges -> Row] /\ RowsAreSound' /\ RowsStay
<1>1. row \in [Charges -> Row]
  BY DEF Inv, TypeOK
<1>2. ASSUME NEW c \in Charges
      PROVE  /\ row'[c] \in Row /\ Sound(row'[c], gate[c])
             /\ row[c].status # "none" => row'[c].status # "none"
  <2> DEFINE r == Stored(row[c], "regenerated", "pending")
  <2>1. row[c] \in Row /\ Sound(row[c], gate[c])
    BY <1>1 DEF Inv, RowsAreSound
  <2>2. c \in stale => row[c].status # "none"
    BY DEF Unused, RowsWith
  <2>3. row'[c] = IF c \in stale THEN r ELSE row[c]
    BY DEF Regenerated
  <2>4. r \in Row /\ r.status = "regenerated" /\ r.refund = row[c].refund
    BY <2>1 DEF Stored, Written, Row, RowStatus
  <2>5. Sound(r, gate[c])
    BY <2>1, <2>4 DEF Sound
  <2> QED
    BY <2>1, <2>2, <2>3, <2>4, <2>5
<1> QED
  BY <1>2 DEF Regenerated, RowsAreSound, RowsStay

\* Rows of one status, other than none, exist.
LEMMA PendingExist == RowsWith("pending") \in SUBSET Charges
                      /\ RowsWith("pending") \cap Unused = {}
BY DEF Unused, RowsWith

LEMMA CreateKeeps ==
  ASSUME Inv, NEW h, BeginCreate(h) \/ Regenerate(h) \/ Charge(h),
         h \in Handlers
  PROVE  Inv'
<1>1. /\ gate \in [Charges -> Gate] /\ mail \subseteq Events
      /\ row \in [Charges -> Row] /\ task[h] \in Task
      /\ walk \in WalkType /\ TypeOK
  BY DEF Inv, TypeOK, WalkType
<1>2. CASE BeginCreate(h)
  <2> DEFINE stale == RowsWith("pending")
             t == [Idle EXCEPT !.rows = stale,
                     !.at = IF stale = {} THEN "charge" ELSE "regenerate"]
  <2>1. Hold(h, t) /\ DeleteCharges(stale) /\ UNCHANGED <<walk, row, hook>>
    BY <1>2 DEF BeginCreate
  <2>2. t \in Task /\ t.rows = stale /\ t.refund = "none" /\ t.at # "write"
    BY PendingExist DEF Idle, Task, Steps, Refund
  <2> HIDE DEF t
  <2>3. TaskSound(t) /\ GateGrows
    BY <1>1, <2>1, <2>2, PendingExist, DeleteGrows DEF TaskSound
  <2>4. TasksAreSound' /\ task' \in [Handlers -> Task]
    BY <2>1, <2>2, <2>3, HoldSound DEF RowsStay
  <2> QED
    BY <2>1, <2>4, PendingExist, DeleteKeeps
<1>3. CASE Regenerate(h)
  <2> DEFINE t == [Idle EXCEPT !.at = "charge"]
  <2>1. /\ row' = Regenerated(task[h].rows) /\ Hold(h, t)
        /\ UNCHANGED <<walk, gate, mail, hook>>
    BY <1>3 DEF Regenerate
  <2>2. task[h].rows \cap Unused = {}
    BY DEF Inv, TasksAreSound, TaskSound
  <2>3. row' \in [Charges -> Row] /\ RowsAreSound' /\ RowsStay
    BY <2>1, <2>2, RegeneratedSound
  <2>4. t \in Task /\ t.rows = {} /\ t.refund = "none" /\ t.at # "write"
    BY DEF Idle, Task, Steps, Refund
  <2> HIDE DEF t
  <2>5. TasksAreSound' /\ task' \in [Handlers -> Task]
    BY <1>1, <2>1, <2>3, <2>4, HoldSound, QuietGate DEF TaskSound
  <2>6. ReleasedIsPaid'
    BY <2>1 DEF Inv, ReleasedIsPaid
  <2> QED
    BY <1>1, <2>1, <2>3, <2>5, <2>6, QuietKeeps
<1>4. CASE Charge(h) /\ UNCHANGED <<row, gate, mail>>
  <2>1. TasksAreSound' /\ task' \in [Handlers -> Task]
    BY <1>1, <1>4, FreeSound, QuietGate DEF Charge, RowsStay
  <2> QED
    BY <1>1, <1>4, <2>1, QuietKeeps
       DEF Charge, Inv, RowsAreSound, ReleasedIsPaid
<1>5. CASE Charge(h) /\ ~UNCHANGED <<row, gate, mail>>
  <2>1. PICK c \in Unused : /\ gate' = [gate EXCEPT ![c] = "open"]
                            /\ row'  = [row EXCEPT ![c].status = "pending"]
                            /\ mail' = mail \cup {Event(c, "created")}
    BY <1>5 DEF Charge
  <2>2. c \in Charges /\ row[c].status = "none" /\ Free(h) /\ UNCHANGED <<walk, hook>>
    BY <1>5 DEF Unused, RowsWith, Charge
  <2>3. Sound(row[c], gate[c]) /\ row[c] \in Row
    BY <1>1, <2>2 DEF Inv, RowsAreSound
  <2>4. gate[c] = "none" /\ row[c].refund # "done"
    BY <2>2, <2>3 DEF Sound
  <2>5. /\ row' \in [Charges -> Row] /\ row'[c].status = "pending"
        /\ row'[c].refund = row[c].refund
        /\ \A d \in Charges \ {c} : row'[d] = row[d]
    BY <1>1, <2>1, <2>2, <2>3 DEF Row, RowStatus
  <2>6. /\ gate' \in [Charges -> Gate] /\ gate'[c] = "open"
        /\ \A d \in Charges \ {c} : gate'[d] = gate[d]
    BY <1>1, <2>1, <2>2 DEF Gate
  <2>7. GateGrows
    BY <1>1, <2>4, <2>6 DEF GateGrows, Grows, Gate, MoneyIn
  <2>71. TasksAreSound' /\ task' \in [Handlers -> Task]
    BY <2>2, <2>5, <2>7, FreeSound DEF RowsStay
  <2>72. HooksAreTrue'
    BY <2>2, <2>7, HooksKeep DEF Inv
  <2>8. mail' \subseteq Events
    BY <1>1, <2>1, <2>2, EventType DEF Kinds
  <2>9. RowsAreSound'
    <3> SUFFICES ASSUME NEW d \in Charges PROVE Sound(row'[d], gate'[d])
      BY DEF RowsAreSound
    <3> QED
      BY <2>4, <2>5, <2>6 DEF Inv, RowsAreSound, Sound
  <2>10. MailIsTrue'
    <3> SUFFICES ASSUME NEW e \in mail' PROVE Truthful(e.kind, gate'[e.charge])
      BY DEF MailIsTrue
    <3>1. CASE e \in mail
      <4>1. Truthful(e.kind, gate[e.charge]) /\ e.charge \in Charges
        BY <1>1, <3>1 DEF Inv, MailIsTrue, Events
      <4> QED
        BY <2>4, <2>6, <4>1 DEF Truthful, MoneyIn
    <3>2. CASE e = Event(c, "created")
      BY <3>2 DEF Event, Truthful
    <3> QED
      BY <2>1, <3>1, <3>2
  <2>11. ReleasedIsPaid'
    BY <2>2, <2>4, <2>6 DEF Inv, ReleasedIsPaid, MoneyIn
  <2> QED
    BY <1>1, <2>2, <2>5, <2>6, <2>71, <2>72, <2>8, <2>9, <2>10, <2>11
       DEF Inv, TypeOK
<1> QED
  BY <1>2, <1>3, <1>4, <1>5

----------------------------------------------------------------------------
(* The webhook *)

\* What a truthful event makes of a row, however old, is true of the charge, and
\* never the row's absence.
LEMMA ResolveSound ==
  ASSUME NEW st \in RowStatus, NEW k \in Kinds, NEW g \in Gate,
         Truthful(k, g), Claim(st, g)
  PROVE  Resolve(st, k) \in RowStatus \ {"none"} /\ Claim(Resolve(st, k), g)
BY DEF Resolve, Kinds, RowStatus, StatusOf, Sticky, Truthful, Claim, MoneyIn

LEMMA NoHookType == NoHook \in Hook /\ NoHook.at = "idle"
BY DEF NoHook, Hook, Kinds, RowStatus, Refund

\* A delivery begins, goes on or ends.
LEMMA HoldHookSound ==
  ASSUME Inv, UNCHANGED gate, NEW w \in Hooks, NEW t \in Hook, HoldHook(w, t),
         t.at # "idle" => Believes(t)
  PROVE  HooksAreTrue' /\ hook' \in [Hooks -> Hook]
<1>1. hook \in [Hooks -> Hook]
  BY DEF Inv, TypeOK
<1>2. hook' \in [Hooks -> Hook]
      /\ \A v \in Hooks : hook'[v] = IF v = w THEN t ELSE hook[v]
  BY <1>1 DEF HoldHook
<1>3. \A v \in Hooks : hook'[v].at # "idle" => Believes(hook'[v])
  BY <1>2 DEF Inv, HooksAreTrue
<1> QED
  BY <1>2, <1>3 DEF HooksAreTrue, Believes

LEMMA FreeHookSound ==
  ASSUME Inv, UNCHANGED gate, NEW w \in Hooks, FreeHook(w)
  PROVE  HooksAreTrue' /\ hook' \in [Hooks -> Hook]
BY NoHookType, HoldHookSound DEF FreeHook

\* Steps of a delivery that write nothing.
LEMMA QuietHook ==
  ASSUME Inv, UNCHANGED <<walk, gate, task>>, HooksAreTrue' /\ hook' \in [Hooks -> Hook],
         mail' \subseteq Events, \A e \in mail' : e \in mail \/ Truthful(e.kind, gate[e.charge]),
         row' \in [Charges -> Row], RowsAreSound', RowsStay, UNCHANGED walk
  PROVE  Inv'
<1>1. TypeOK /\ GateGrows
  BY QuietGate DEF Inv
<1>2. TasksAreSound' /\ task' \in [Handlers -> Task]
  BY <1>1, KeepSound
<1> QED
  BY <1>1, <1>2 DEF Inv, TypeOK, MailIsTrue, ReleasedIsPaid

\* What a delivery knows of its row and its charge.
LEMMA HookFacts ==
  ASSUME Inv, NEW w \in Hooks, hook[w].at # "idle"
  PROVE  LET t == hook[w]
         IN /\ t \in Hook /\ Believes(t) /\ t.charge \in Charges
            /\ t.kind \in Kinds /\ t.status \in RowStatus /\ t.refund \in Refund
            /\ gate[t.charge] \in Gate /\ row[t.charge] \in Row
            /\ Sound(row[t.charge], gate[t.charge])
            /\ Truthful(t.kind, gate[t.charge]) /\ Claim(t.status, gate[t.charge])
            /\ Resolve(t.status, t.kind) \in RowStatus \ {"none"}
            /\ Claim(Resolve(t.status, t.kind), gate[t.charge])
<1> DEFINE t == hook[w]
<1>1. t \in Hook /\ Believes(t) /\ t.charge \in Charges
  BY DEF Inv, TypeOK, HooksAreTrue, Believes
<1>2. t.kind \in Kinds /\ t.status \in RowStatus /\ t.refund \in Refund
  BY <1>1 DEF Hook
<1>3. /\ gate[t.charge] \in Gate /\ row[t.charge] \in Row
      /\ Sound(row[t.charge], gate[t.charge])
  BY <1>1 DEF Inv, TypeOK, RowsAreSound
<1>4. Truthful(t.kind, gate[t.charge]) /\ Claim(t.status, gate[t.charge])
  BY <1>1 DEF Believes
<1> HIDE DEF t
<1> QED
  BY <1>1, <1>2, <1>3, <1>4, ResolveSound DEF t

\* What a delivery commits is a row, and true of its charge.
LEMMA SettledSound ==
  ASSUME Inv, NEW w \in Hooks, hook[w].at # "idle"
  PROVE  /\ Settled(hook[w]) \in Row
         /\ Sound(Settled(hook[w]), gate[hook[w].charge])
         /\ Settled(hook[w]).status =
              Written(Resolve(hook[w].status, hook[w].kind), hook[w].status,
                      row[hook[w].charge].status)
         /\ row[hook[w].charge].status # "none" => Settled(hook[w]).status # "none"
<1> DEFINE t   == hook[w]
           old == row[t.charge]
           g   == gate[t.charge]
           new == Resolve(t.status, t.kind)
           ref == Written(RefundStatus(t.refund, t.kind), t.refund, old.refund)
           st  == Written(new, t.status, old.status)
           r   == Stored(old, new, t.status)
<1>1. /\ t.kind \in Kinds /\ t.refund \in Refund /\ old \in Row /\ Sound(old, g)
      /\ Truthful(t.kind, g) /\ new \in RowStatus \ {"none"} /\ Claim(new, g)
  BY HookFacts
<1>2. Settled(t) = [r EXCEPT !.refund = ref]
  BY DEF Settled, Stored
<1> HIDE DEF t, g, new
<1>3. ref \in Refund /\ (ref = "done" => g \in {"partly", "refunded"})
  BY <1>1 DEF Written, RefundStatus, RefundKinds, Refund, Row, Sound, Truthful
<1>4. /\ st \in RowStatus /\ (st = "none" => old.status = "none") /\ Claim(st, g)
      /\ st = "none" => g = "none"
  BY <1>1 DEF Written, Row, Sound, Claim
<1>5. r \in Row /\ r.status = st
  BY <1>1, <1>4 DEF Stored, Row
<1> HIDE DEF ref, st, r
<1>6. Settled(t) \in Row /\ Settled(t).status = st /\ Settled(t).refund = ref
  BY <1>2, <1>3, <1>5 DEF Row
<1>7. Sound(Settled(t), g)
  BY <1>3, <1>4, <1>6 DEF Sound, Claim
<1> QED
  BY <1>4, <1>6, <1>7 DEF t, g, st, new

LEMMA BeginWebhookKeeps ==
  ASSUME Inv, NEW w \in Hooks, NEW e \in Events, BeginWebhook(w, e) PROVE Inv'
<1> DEFINE c == e.charge
           r == row[c]
           t == [NoHook EXCEPT !.charge = c, !.kind = e.kind, !.status = r.status,
                   !.refund = IF e.kind \in RefundKinds THEN r.refund ELSE "none",
                   !.at = IF Resolve(r.status, e.kind) = "confirmed"
                          THEN "confirm" ELSE "settle"]
<1>1. /\ e \in mail /\ c \in Charges /\ e.kind \in Kinds /\ r \in Row
      /\ mail \subseteq Events /\ mail' \subseteq mail
      /\ HoldHook(w, t) /\ UNCHANGED <<walk, row, gate, task>>
  BY DEF BeginWebhook, Taken, Events, Inv, TypeOK
<1>2. Truthful(e.kind, gate[c]) /\ Claim(r.status, gate[c])
  BY <1>1 DEF Inv, MailIsTrue, RowsAreSound, Sound, Claim
<1>3. /\ t \in Hook /\ t.walk = "none" /\ t.charge = c /\ t.kind = e.kind
      /\ t.status = r.status
      /\ t.at = IF Resolve(r.status, e.kind) = "confirmed" THEN "confirm" ELSE "settle"
  BY <1>1 DEF NoHook, Hook, Row, Refund
<1> HIDE DEF t
<1>4. Believes(t)
  BY <1>1, <1>2, <1>3 DEF Believes
<1>5. HooksAreTrue' /\ hook' \in [Hooks -> Hook]
  BY <1>1, <1>3, <1>4, HoldHookSound
<1>6. row' \in [Charges -> Row] /\ RowsAreSound' /\ RowsStay
  BY <1>1 DEF Inv, TypeOK, RowsAreSound, RowsStay
<1> QED
  BY <1>1, <1>5, <1>6, QuietHook

LEMMA ReadWalkKeeps == ASSUME Inv, NEW w \in Hooks, ReadWalk(w) PROVE Inv'
<1> DEFINE t == [hook[w] EXCEPT !.at = "settle", !.walk = walk.status]
<1>1. hook[w].at = "confirm" /\ HoldHook(w, t) /\ UNCHANGED <<walk, row, gate, mail, task>>
  BY DEF ReadWalk
<1>2. hook[w] \in Hook /\ Believes(hook[w]) /\ walk.status \in WalkStatus
  BY <1>1, HookFacts DEF Inv, TypeOK
<1>3. /\ t \in Hook /\ t.at = "settle" /\ t.walk = walk.status
      /\ t.charge = hook[w].charge /\ t.kind = hook[w].kind /\ t.status = hook[w].status
  BY <1>2 DEF Hook
<1> HIDE DEF t
<1>4. Believes(t)
  BY <1>1, <1>2, <1>3 DEF Believes, WalkStatus
<1>5. HooksAreTrue' /\ hook' \in [Hooks -> Hook]
  BY <1>1, <1>3, <1>4, HoldHookSound
<1>6. row' \in [Charges -> Row] /\ RowsAreSound' /\ RowsStay /\ mail \subseteq Events
  BY <1>1 DEF Inv, TypeOK, RowsAreSound, RowsStay
<1> QED
  BY <1>1, <1>5, <1>6, QuietHook

\* The event goes back to the mail, or is lost with a trace in the ghost only.
LEMMA HookEndsKeeps ==
  ASSUME Inv, NEW w \in Hooks, WebhookFails(w) \/ WebhookDies(w) PROVE Inv'
<1> DEFINE t == hook[w]
           c == t.charge
           e == Event(c, t.kind)
<1>1. t.at # "idle" /\ FreeHook(w) /\ UNCHANGED <<walk, gate, task>>
  BY DEF WebhookFails, WebhookDies
<1>2. c \in Charges /\ t.kind \in Kinds /\ Truthful(t.kind, gate[c])
  BY <1>1, HookFacts
<1>3. e \in Events /\ Truthful(e.kind, gate[e.charge])
  BY <1>2, EventType
<1>4. HooksAreTrue' /\ hook' \in [Hooks -> Hook]
  BY <1>1, FreeHookSound
<1>5. mail \subseteq Events /\ row \in [Charges -> Row]
  BY DEF Inv, TypeOK
<1>6. CASE mail' = mail \cup {e} /\ UNCHANGED row
  <2>1. row' \in [Charges -> Row] /\ RowsAreSound' /\ RowsStay
    BY <1>1, <1>6 DEF Inv, TypeOK, RowsAreSound, RowsStay
  <2> QED
    BY <1>1, <1>3, <1>4, <1>5, <1>6, <2>1, QuietHook
<1>7. CASE UNCHANGED mail /\ \E l \in BOOLEAN : row' = [row EXCEPT ![c].lost = l]
  <2>1. PICK l \in BOOLEAN : row' = [row EXCEPT ![c].lost = l]
    BY <1>7
  <2>2. \A d \in Charges : row'[d] \in Row /\ row'[d].status = row[d].status
                                       /\ row'[d].refund = row[d].refund
    BY <1>5, <2>1 DEF Row
  <2>3. row' \in [Charges -> Row] /\ RowsStay
    BY <1>5, <2>1, <2>2 DEF RowsStay
  <2>4. RowsAreSound'
    BY <1>1, <2>2 DEF Inv, RowsAreSound, Sound
  <2> QED
    BY <1>1, <1>4, <1>5, <1>7, <2>3, <2>4, QuietHook
<1>8. row[c].lost \in BOOLEAN
  BY <1>2, <1>5 DEF Row
<1> QED
  BY <1>6, <1>7, <1>8 DEF WebhookFails, WebhookDies

LEMMA CommitWebhookKeeps ==
  ASSUME Inv, NEW w \in Hooks, CommitWebhook(w) PROVE Inv'
<1> DEFINE t == hook[w]
           c == t.charge
           s == Settled(t)
<1>1. /\ t.at = "settle" /\ row' = [row EXCEPT ![c] = s]
      /\ IF MovesWalk(t) THEN \E st \in WalkOnConfirmed(t.walk) : SetWalk(st)
                          ELSE UNCHANGED walk
      /\ FreeHook(w) /\ UNCHANGED <<gate, mail, task>>
  BY DEF CommitWebhook
<1>2. /\ t \in Hook /\ c \in Charges /\ Believes(t)
      /\ Claim(Resolve(t.status, t.kind), gate[c])
  BY <1>1, HookFacts
<1>3. s \in Row /\ Sound(s, gate[c]) /\ (row[c].status # "none" => s.status # "none")
  BY <1>1, SettledSound
<1>4. TypeOK /\ row \in [Charges -> Row] /\ walk \in WalkType
  BY DEF Inv, TypeOK, WalkType
<1> HIDE DEF s
<1>5. /\ row' \in [Charges -> Row] /\ row'[c] = s
      /\ \A d \in Charges \ {c} : row'[d] = row[d]
  BY <1>1, <1>2, <1>3, <1>4
<1>6. RowsStay
  BY <1>3, <1>5 DEF RowsStay
<1>7. RowsAreSound'
  <2> SUFFICES ASSUME NEW d \in Charges PROVE Sound(row'[d], gate[d])
    BY <1>1 DEF RowsAreSound
  <2> QED
    BY <1>3, <1>5 DEF Inv, RowsAreSound
<1>8. HooksAreTrue' /\ hook' \in [Hooks -> Hook]
  BY <1>1, FreeHookSound
<1>9. TasksAreSound' /\ task' \in [Handlers -> Task]
  BY <1>1, <1>4, <1>6, QuietGate, KeepSound
<1>10. walk' \in WalkType /\ (UNCHANGED walk \/ Paid)
  <2>1. CASE MovesWalk(t)
    <3>1. t.walk \in WalkStatus \cup {"none"}
      BY <1>2 DEF Hook
    <3>2. t.walk # "none" /\ WalkOnConfirmed(t.walk) \subseteq WalkStatus
      BY <2>1, <3>1 DEF MovesWalk, WalkOnConfirmed, WalkStatus
    <3>3. gate[c] \in MoneyIn
      BY <1>2, <3>2 DEF Believes, Claim
    <3>4. Paid
      BY <1>2, <3>3 DEF Paid
    <3>5. PICK st \in WalkOnConfirmed(t.walk) : SetWalk(st)
      BY <1>1, <2>1
    <3>6. walk' \in WalkType
      BY <1>4, <3>2, <3>5, SetWalkType
    <3> QED
      BY <3>4, <3>6
  <2>2. CASE ~MovesWalk(t)
    BY <1>1, <1>4, <2>2
  <2> QED
    BY <2>1, <2>2
<1>11. ReleasedIsPaid'
  BY <1>1, <1>10 DEF Inv, ReleasedIsPaid, Paid
<1> QED
  BY <1>1, <1>5, <1>7, <1>8, <1>9, <1>10, <1>11
     DEF Inv, TypeOK, MailIsTrue, WalkType

----------------------------------------------------------------------------
(* Cancellation, decision and expiry *)

\* Steps that write neither a payment nor the gateway.
LEMMA WalkKeeps ==
  ASSUME Inv, UNCHANGED <<row, gate, mail, hook>>,
         TasksAreSound' /\ task' \in [Handlers -> Task],
         walk' \in WalkType, ReleasedIsPaid'
  PROVE  Inv'
<1>1. row' \in [Charges -> Row] /\ RowsAreSound'
  BY DEF Inv, TypeOK, RowsAreSound
<1> QED
  BY <1>1, QuietKeeps

LEMMA InvFacts ==
  ASSUME Inv
  PROVE  /\ TypeOK /\ walk \in WalkType /\ walk.status \in WalkStatus
         /\ row \in [Charges -> Row] /\ gate \in [Charges -> Gate]
BY DEF Inv, TypeOK, WalkType

LEMMA ConfirmedIsPaid ==
  ASSUME Inv, NEW c \in RowsWith("confirmed")
  PROVE  c \in Charges /\ gate[c] \in MoneyIn
BY DEF Inv, RowsAreSound, Sound, RowsWith

\* A handler takes up what it will write to the walk: a search only when paid.
LEMMA HoldWalkKeeps ==
  ASSUME Inv, NEW h, NEW st \in WalkStatus,
         Hold(h, [Idle EXCEPT !.at = "write", !.walk = st]),
         UNCHANGED <<walk, row, gate, mail, hook>>,
         \/ st \in {"awaiting_payment", "ride_cancelled", "deleted"}
         \/ st = "released" /\ Paid
  PROVE  Inv'
<1> DEFINE t == [Idle EXCEPT !.at = "write", !.walk = st]
<1>1. t \in Task /\ t.rows = {} /\ t.refund = "none" /\ t.at = "write" /\ t.walk = st
  BY DEF Idle, Task, Steps, Refund
<1> HIDE DEF t
<1>2. TaskSound(t)
  BY <1>1 DEF TaskSound
<1>3. GateGrows /\ RowsStay
  BY QuietGate, InvFacts DEF RowsStay
<1>4. TasksAreSound' /\ task' \in [Handlers -> Task]
  BY <1>1, <1>2, <1>3, HoldSound DEF t
<1> QED
  BY <1>4, WalkKeeps, InvFacts DEF Inv, ReleasedIsPaid

\* A handler in flight ends without a trace.
LEMMA FreeKeeps ==
  ASSUME Inv, NEW h, Free(h), UNCHANGED <<row, gate, mail, hook>>,
         walk' \in WalkType, ReleasedIsPaid'
  PROVE  Inv'
<1>1. GateGrows /\ RowsStay
  BY QuietGate, InvFacts DEF RowsStay
<1>2. TasksAreSound' /\ task' \in [Handlers -> Task]
  BY <1>1, FreeSound
<1> QED
  BY <1>2, WalkKeeps

\* The commit of a cancellation writes refund_status pending or failed.
LEMMA CommitCancelKeeps ==
  ASSUME Inv, NEW h \in Handlers, CommitCancel(h) PROVE Inv'
<1> DEFINE t == task[h]
<1>1. /\ row' = [c \in Charges |-> IF c \in t.rows
                   THEN [row[c] EXCEPT !.refund = Written(t.refund, "none", @)]
                   ELSE row[c]]
      /\ IF t.walk = "none" THEN UNCHANGED walk ELSE SetWalk("ride_cancelled")
      /\ Free(h) /\ UNCHANGED <<gate, mail, hook>>
  BY DEF CommitCancel
<1>2. row \in [Charges -> Row] /\ t.refund \in Refund \ {"done"}
  BY DEF Inv, TypeOK, TasksAreSound, TaskSound, Task
<1> HIDE DEF t
<1>3. ASSUME NEW c \in Charges
      PROVE  /\ row'[c] \in Row /\ Sound(row'[c], gate[c])
             /\ row'[c].status = row[c].status
  <2>1. row[c] \in Row /\ Sound(row[c], gate[c])
    BY <1>2 DEF Inv, RowsAreSound
  <2>2. Written(t.refund, "none", row[c].refund) \in {row[c].refund, "pending", "failed"}
    BY <1>2 DEF Written, Refund
  <2> QED
    BY <1>1, <2>1, <2>2 DEF Row, Refund, Sound
<1>4. row' \in [Charges -> Row] /\ RowsAreSound' /\ RowsStay
  BY <1>1, <1>3 DEF RowsAreSound, RowsStay
<1>5. TasksAreSound' /\ task' \in [Handlers -> Task]
  BY <1>1, <1>4, FreeSound, QuietGate, InvFacts
<1>6. walk' \in WalkType /\ ReleasedIsPaid'
  BY <1>1, SetWalkType, InvFacts DEF Inv, WalkStatus, ReleasedIsPaid, Search
<1> QED
  BY <1>1, <1>4, <1>5, <1>6, QuietKeeps

LEMMA BeginCancelKeeps ==
  ASSUME Inv, NEW h \in Handlers, BeginCancel(h) PROVE Inv'
<1>1. PICK c \in Charges, ok \in BOOLEAN :
        /\ IsConfirmedPayment(c)
        /\ \/ \E all \in BOOLEAN : AskRefund(c, all, ok)
           \/ ok /\ UNCHANGED <<gate, mail>>
        /\ LET new == IF ok THEN "pending" ELSE "failed"
           IN Hold(h, [at     |-> "cancel", rows |-> {c},
                       refund |-> IF new = row[c].refund THEN "none" ELSE new,
                       walk   |-> IF walk.status = "ride_cancelled"
                                  THEN "none" ELSE "ride_cancelled"])
  BY DEF BeginCancel
<1> DEFINE new == IF ok THEN "pending" ELSE "failed"
           t == [at     |-> "cancel", rows |-> {c},
                 refund |-> IF new = row[c].refund THEN "none" ELSE new,
                 walk   |-> IF walk.status = "ride_cancelled"
                            THEN "none" ELSE "ride_cancelled"]
<1>2. /\ row[c].status = "confirmed" /\ UNCHANGED <<walk, row, hook>> /\ Hold(h, t)
  BY <1>1 DEF BeginCancel, IsConfirmedPayment, RowsWith
<1>3. t \in Task /\ t.rows = {c} /\ t.refund \in {"none", "pending", "failed"} /\ t.at = "cancel"
  BY DEF Task, Steps, Refund, WalkStatus
<1> HIDE DEF t
<1>4. TaskSound(t) /\ RowsStay /\ TypeOK
  BY <1>2, <1>3, InvFacts DEF TaskSound, RowsStay, Unused, RowsWith
<1>5. CASE UNCHANGED <<gate, mail>>
  <2>1. TasksAreSound' /\ task' \in [Handlers -> Task]
    BY <1>2, <1>3, <1>4, <1>5, HoldSound, QuietGate
  <2> QED
    BY <1>2, <1>5, <2>1, WalkKeeps, InvFacts DEF Inv, ReleasedIsPaid
<1>6. CASE \E all \in BOOLEAN : AskRefund(c, all, ok)
  <2>1. GateGrows
    BY <1>4, <1>6, RefundGrows
  <2>2. TasksAreSound' /\ task' \in [Handlers -> Task]
    BY <1>2, <1>3, <1>4, <2>1, HoldSound
  <2> QED
    BY <1>2, <1>6, <2>2, RefundKeeps
<1> QED
  BY <1>1, <1>5, <1>6

LEMMA BeginRefundKeeps ==
  ASSUME Inv, NEW h \in Handlers, BeginRefund(h) PROVE Inv'
<1> DEFINE t == [Idle EXCEPT !.at = "write", !.walk = "ride_cancelled"]
<1>1. PICK c \in Charges, ok \in BOOLEAN :
        /\ AskRefund(c, TRUE, ok)
        /\ IF ok THEN Hold(h, t) ELSE UNCHANGED task
  BY DEF BeginRefund
<1>2. UNCHANGED <<walk, row, hook>> /\ GateGrows /\ RowsStay
  BY <1>1, RefundGrows, InvFacts DEF BeginRefund, RowsStay
<1>3. t \in Task /\ t.rows = {} /\ t.refund = "none" /\ t.walk = "ride_cancelled"
  BY DEF Idle, Task, Steps, Refund, WalkStatus
<1> HIDE DEF t
<1>4. TaskSound(t)
  BY <1>3 DEF TaskSound
<1>5. TasksAreSound' /\ task' \in [Handlers -> Task]
  BY <1>1, <1>2, <1>3, <1>4, HoldSound, KeepSound
<1> QED
  BY <1>1, <1>2, <1>5, RefundKeeps

LEMMA CommitWalkKeeps ==
  ASSUME Inv, NEW h \in Handlers, CommitWalk(h) PROVE Inv'
<1> DEFINE st == task[h].walk
<1>1. /\ Free(h) /\ UNCHANGED <<row, gate, mail, hook>>
      /\ IF st = "ride_cancelled" THEN SetByHand("ride_cancelled") ELSE SetWalk(st)
  BY DEF CommitWalk
<1>2. \/ st \in {"awaiting_payment", "ride_cancelled", "deleted"}
      \/ st = "released" /\ Paid
  BY DEF CommitWalk, Inv, TasksAreSound, TaskSound
<1> HIDE DEF st
<1>3. walk' \in WalkType /\ walk'.status = st
  BY <1>1, <1>2, SetWalkType, InvFacts DEF WalkStatus
<1>4. ReleasedIsPaid'
  BY <1>1, <1>2, <1>3 DEF ReleasedIsPaid, Search, Paid
<1> QED
  BY <1>1, <1>3, <1>4, FreeKeeps

LEMMA CancelKeeps ==
  ASSUME Inv, NEW h \in Handlers,
         CancelUnpaid(h) \/ DecideAgain(h) \/ BeginDelete(h)
  PROVE  Inv'
<1>1. CASE CancelUnpaid(h)
  BY <1>1, HoldWalkKeeps DEF CancelUnpaid, WalkStatus
<1>2. CASE BeginDelete(h)
  BY <1>2, HoldWalkKeeps DEF BeginDelete, WalkStatus
<1>3. CASE DecideAgain(h)
  <2>1. CASE RowsWith("confirmed") = {}
    BY <1>3, <2>1, HoldWalkKeeps DEF DecideAgain, WalkStatus
  <2>2. CASE RowsWith("confirmed") # {}
    <3>1. Paid
      BY <2>2, ConfirmedIsPaid DEF Paid
    <3> QED
      BY <1>3, <2>2, <3>1, HoldWalkKeeps DEF DecideAgain, WalkStatus
  <2> QED
    BY <2>1, <2>2
<1> QED
  BY <1>1, <1>2, <1>3

LEMMA ExpireKeeps ==
  ASSUME Inv, NEW h \in Handlers,
         BeginExpire(h) \/ ExpireCharges(h) \/ CommitExpire(h)
  PROVE  Inv'
<1>1. CASE BeginExpire(h)
  <2> DEFINE t == [Idle EXCEPT !.at = "expire"]
  <2>1. Hold(h, t) /\ UNCHANGED <<walk, row, gate, mail, hook>>
    BY <1>1 DEF BeginExpire
  <2>2. t \in Task /\ t.rows = {} /\ t.refund = "none" /\ t.at = "expire"
    BY DEF Idle, Task, Steps, Refund
  <2> HIDE DEF t
  <2>3. TaskSound(t) /\ GateGrows /\ RowsStay
    BY <2>1, <2>2, QuietGate, InvFacts DEF TaskSound, RowsStay
  <2>4. TasksAreSound' /\ task' \in [Handlers -> Task]
    BY <2>1, <2>2, <2>3, HoldSound
  <2> QED
    BY <2>1, <2>4, WalkKeeps, InvFacts DEF Inv, ReleasedIsPaid
<1>2. CASE ExpireCharges(h)
  <2> DEFINE t == [Idle EXCEPT !.at = "expire_commit", !.rows = RowsWith("pending")]
  <2>1. /\ DeleteCharges(RowsWith("pending")) /\ Hold(h, t)
        /\ UNCHANGED <<walk, row, hook>>
    BY <1>2 DEF ExpireCharges
  <2>2. t \in Task /\ t.rows = RowsWith("pending") /\ t.refund = "none"
        /\ t.at = "expire_commit"
    BY PendingExist DEF Idle, Task, Steps, Refund
  <2> HIDE DEF t
  <2>3. TaskSound(t) /\ GateGrows /\ RowsStay
    BY <2>1, <2>2, PendingExist, DeleteGrows, InvFacts DEF TaskSound, RowsStay
  <2>4. TasksAreSound' /\ task' \in [Handlers -> Task]
    BY <2>1, <2>2, <2>3, HoldSound
  <2> QED
    BY <2>1, <2>4, PendingExist, DeleteKeeps
<1>3. CASE CommitExpire(h)
  <2>1. /\ SetWalk("ride_cancelled") /\ row' = Regenerated(task[h].rows)
        /\ Free(h) /\ UNCHANGED <<gate, mail, hook>>
    BY <1>3 DEF CommitExpire
  <2>2. task[h].rows \cap Unused = {}
    BY DEF Inv, TasksAreSound, TaskSound
  <2>3. row' \in [Charges -> Row] /\ RowsAreSound' /\ RowsStay
    BY <2>1, <2>2, RegeneratedSound
  <2>4. TasksAreSound' /\ task' \in [Handlers -> Task]
    BY <2>1, <2>3, FreeSound, QuietGate, InvFacts
  <2>5. walk' \in WalkType /\ ReleasedIsPaid'
    BY <2>1, SetWalkType, InvFacts DEF WalkStatus, ReleasedIsPaid, Search
  <2> QED
    BY <2>1, <2>3, <2>4, <2>5, QuietKeeps
<1> QED
  BY <1>1, <1>2, <1>3

LEMMA OthersKeep ==
  ASSUME Inv,
         \/ PlanConfirmed \/ SearchFails \/ SearchByHand
         \/ \E st \in WalkStatus : RawStatus(st)
  PROVE  Inv'
<1>1. UNCHANGED <<row, gate, mail, task, hook>>
  BY DEF PlanConfirmed, SearchFails, SearchByHand, RawStatus
<1>2. GateGrows /\ RowsStay
  BY <1>1, QuietGate, InvFacts DEF RowsStay
<1>3. TasksAreSound' /\ task' \in [Handlers -> Task]
  BY <1>1, <1>2, KeepSound
<1>4. CASE PlanConfirmed
  BY <1>1, <1>3, <1>4, WalkKeeps DEF PlanConfirmed, WalkType, WalkStatus, ReleasedIsPaid
<1>5. CASE SearchFails
  <2>1. walk' = [walk EXCEPT !.status = "decision"] /\ walk.status \in Search
    BY <1>5 DEF SearchFails, Search
  <2>2. /\ walk' \in WalkType /\ walk'.covered = walk.covered /\ walk'.hand = walk.hand
    BY <2>1, InvFacts DEF WalkType, WalkStatus
  <2>3. ReleasedIsPaid'
    BY <1>1, <2>1, <2>2 DEF Inv, ReleasedIsPaid
  <2> QED
    BY <1>1, <1>3, <2>2, <2>3, WalkKeeps
<1>6. CASE SearchByHand \/ \E st \in WalkStatus : RawStatus(st)
  <2>1. PICK st \in WalkStatus : SetByHand(st)
    BY <1>6 DEF SearchByHand, RawStatus, Search, WalkStatus
  <2>2. walk' \in WalkType /\ walk'.status = st /\ (st # "awaiting_payment" => walk'.hand)
    BY <2>1, SetWalkType, InvFacts
  <2>3. ReleasedIsPaid'
    BY <2>2 DEF ReleasedIsPaid, Search
  <2> QED
    BY <1>1, <1>3, <2>2, <2>3, WalkKeeps
<1> QED
  BY <1>4, <1>5, <1>6

----------------------------------------------------------------------------
(* The theorems *)

LEMMA InitInv == Init => Inv
<1> SUFFICES ASSUME Init PROVE Inv
  OBVIOUS
<1>1. TypeOK
  BY IdleType, NoHookType DEF Init, TypeOK, WalkStatus, NoRow, Row, RowStatus, Refund, Gate
<1>2. TasksAreSound
  BY IdleType DEF Init, TasksAreSound, TaskSound
<1>3. RowsAreSound /\ MailIsTrue /\ ReleasedIsPaid
  BY DEF Init, RowsAreSound, Sound, NoRow, MailIsTrue, ReleasedIsPaid, Search
<1>4. HooksAreTrue
  BY NoHookType DEF Init, HooksAreTrue
<1> QED
  BY <1>1, <1>2, <1>3, <1>4 DEF Inv

LEMMA NextInv == Inv /\ [Next]_vars => Inv'
<1> SUFFICES ASSUME Inv, [Next]_vars PROVE Inv'
  OBVIOUS
<1>1. ASSUME NEW h \in Handlers, Handle(h) PROVE Inv'
  <2>1. CASE CommitFails(h) \/ HandlerDies(h)
    <3>1. Free(h) /\ UNCHANGED <<walk, row, gate, mail, hook>>
      BY <2>1 DEF CommitFails, HandlerDies
    <3> QED
      BY <3>1, FreeKeeps, InvFacts DEF Inv, ReleasedIsPaid
  <2> QED
    BY <1>1, <2>1, CreateKeeps, CancelKeeps, BeginCancelKeeps, CommitCancelKeeps,
       BeginRefundKeeps, CommitWalkKeeps, ExpireKeeps DEF Handle
<1>2. CASE Gateway
  BY <1>2, GatewayKeeps
<1>3. ASSUME NEW w \in Hooks, Deliver(w) PROVE Inv'
  BY <1>3, BeginWebhookKeeps, ReadWalkKeeps, CommitWebhookKeeps, HookEndsKeeps DEF Deliver
<1>4. CASE PlanConfirmed \/ SearchFails \/ SearchByHand \/ \E st \in WalkStatus : RawStatus(st)
  BY <1>4, OthersKeep
<1>5. CASE UNCHANGED vars
  BY <1>5 DEF vars, Inv, TypeOK, TasksAreSound, TaskSound, HooksAreTrue, Believes, Paid,
              RowsAreSound, MailIsTrue, ReleasedIsPaid, Unused, RowsWith
<1> QED
  BY <1>1, <1>2, <1>3, <1>4, <1>5 DEF Next

LEMMA InvHolds == Spec => []Inv
BY InitInv, NextInv, PTL DEF Spec

\* The rows, the charges, the mail and what handlers and deliveries hold stay
\* well formed.
THEOREM TypeCorrect == Spec => []TypeOK
<1>1. Inv => TypeOK
  BY DEF Inv
<1> QED
  BY <1>1, InvHolds, PTL

\* The books never claim money that did not move, whatever the order and the
\* repetition of events, the handlers and deliveries in flight and the crashes.
THEOREM BooksAreTrue == Spec => []BooksMatchGateway
<1>1. Inv => BooksMatchGateway
  BY DEF Inv, RowsAreSound, Sound, BooksMatchGateway
<1> QED
  BY <1>1, InvHolds, PTL

\* No walk enters the search unpaid, but by a route that asks for no payment.
THEOREM SearchIsPaid == Spec => []ReleasedIsPaid
<1>1. Inv => ReleasedIsPaid
  BY DEF Inv
<1> QED
  BY <1>1, InvHolds, PTL

----------------------------------------------------------------------------
(* The steps that write a row *)

\* What every step does to the status of a row: nothing, unless it creates the
\* row, regenerates it, or is the commit of a delivery.
LEMMA StatusSteps ==
  ASSUME Inv, [Next]_vars, NEW c \in Charges
  PROVE  \/ row'[c].status = row[c].status
         \/ row[c].status = "none" /\ row'[c].status = "pending"
         \/ \E h \in Handlers : /\ task[h].at \in {"regenerate", "expire_commit"}
                                /\ task'[h].at # task[h].at /\ c \in task[h].rows
                                /\ row'[c].status = "regenerated"
         \/ \E w \in Hooks :
              /\ CommitWebhook(w) /\ hook[w].charge = c
              /\ hook[w].at = "settle" /\ hook'[w].at = "idle"
              /\ row'[c].status = Written(Resolve(hook[w].status, hook[w].kind),
                                          hook[w].status, row[c].status)
<1>1. row \in [Charges -> Row] /\ task \in [Handlers -> Task] /\ hook \in [Hooks -> Hook]
  BY DEF Inv, TypeOK
<1>2. CASE UNCHANGED row
  BY <1>2
<1>3. ASSUME NEW w \in Hooks, CommitWebhook(w), row'[c].status # row[c].status
      PROVE  /\ hook[w].charge = c /\ hook[w].at = "settle" /\ hook'[w].at = "idle"
             /\ row'[c].status = Written(Resolve(hook[w].status, hook[w].kind),
                                         hook[w].status, row[c].status)
  <2>1. /\ hook[w].at = "settle" /\ FreeHook(w)
        /\ row' = [row EXCEPT ![hook[w].charge] = Settled(hook[w])]
    BY <1>3 DEF CommitWebhook
  <2>2. hook[w].charge = c /\ row'[c] = Settled(hook[w])
    BY <1>1, <1>3, <2>1
  <2>3. hook'[w].at = "idle"
    BY <1>1, <2>1, NoHookType DEF FreeHook, HoldHook
  <2> QED
    BY <2>1, <2>2, <2>3, SettledSound
<1>4. ASSUME NEW h \in Handlers, Regenerate(h) \/ CommitExpire(h), row'[c].status # row[c].status
      PROVE  /\ task[h].at \in {"regenerate", "expire_commit"}
             /\ task'[h].at # task[h].at /\ c \in task[h].rows
             /\ row'[c].status = "regenerated"
  <2>1. /\ task[h].at \in {"regenerate", "expire_commit"} /\ row' = Regenerated(task[h].rows)
        /\ Hold(h, [Idle EXCEPT !.at = "charge"]) \/ Hold(h, Idle)
    BY <1>4 DEF Regenerate, CommitExpire, Free
  <2>2. task'[h].at \in {"charge", "idle"}
    BY <1>1, <2>1 DEF Hold, Idle
  <2> QED
    BY <1>1, <1>4, <2>1, <2>2 DEF Regenerated, Stored, Written, Row
<1>5. ASSUME NEW h \in Handlers, CommitCancel(h)
      PROVE  row'[c].status = row[c].status
  BY <1>1, <1>5 DEF CommitCancel, Row
<1>6. ASSUME NEW h \in Handlers, Charge(h)
      PROVE  \/ row'[c].status = row[c].status
             \/ row[c].status = "none" /\ row'[c].status = "pending"
  BY <1>1, <1>6 DEF Charge, Unused, RowsWith, Row
<1>7. ASSUME NEW w \in Hooks, WebhookDies(w)
      PROVE  row'[c].status = row[c].status
  BY <1>1, <1>7 DEF WebhookDies, Row
<1>8. ASSUME NEW h \in Handlers, Handle(h), ~UNCHANGED row
      PROVE  Regenerate(h) \/ CommitExpire(h) \/ CommitCancel(h) \/ Charge(h)
  BY <1>8 DEF Handle, BeginCreate, CancelUnpaid, BeginCancel, BeginRefund, DecideAgain,
              BeginDelete, CommitWalk, BeginExpire, ExpireCharges, CommitFails, HandlerDies
<1>9. ASSUME NEW w \in Hooks, Deliver(w), ~UNCHANGED row
      PROVE  CommitWebhook(w) \/ WebhookDies(w)
  BY <1>9 DEF Deliver, BeginWebhook, ReadWalk, WebhookFails
<1>10. ~UNCHANGED row => \/ \E h \in Handlers : Handle(h)
                         \/ \E w \in Hooks : Deliver(w)
  BY DEF Next, vars, Gateway, Pay, Lapse, PlanConfirmed, SearchFails, SearchByHand, RawStatus
<1> QED
  BY <1>2, <1>3, <1>4, <1>5, <1>6, <1>7, <1>8, <1>9, <1>10

\* An event takes a confirmed or refunded payment back only when its delivery
\* had read the row before it was so, and nobody else does but a regeneration.
THEOREM StatusNeverRegresses == Spec => NoRegression
<1>1. Inv /\ [Next]_vars =>
        [\A c \in Charges :
           row[c].status \in Sticky /\ row'[c].status \notin {row[c].status, "refunded"} =>
             Overtaken(c)]_vars
  <2> SUFFICES ASSUME Inv, [Next]_vars, NEW c \in Charges,
                      row[c].status \in Sticky, row'[c].status \notin {row[c].status, "refunded"}
               PROVE  Overtaken(c)
    OBVIOUS
  <2>1. CASE \E h \in Handlers : /\ task[h].at \in {"regenerate", "expire_commit"}
                                 /\ task'[h].at # task[h].at /\ c \in task[h].rows
    BY <2>1 DEF Overtaken
  <2>2. ASSUME NEW w \in Hooks, hook[w].charge = c,
               hook[w].at = "settle", hook'[w].at = "idle",
               row'[c].status = Written(Resolve(hook[w].status, hook[w].kind),
                                        hook[w].status, row[c].status)
        PROVE  Overtaken(c)
    <3>1. hook[w].status # row[c].status
      BY <2>2 DEF Written, Resolve, Sticky
    <3> QED
      BY <2>2, <3>1 DEF Overtaken
  <2> QED
    BY <2>1, <2>2, StatusSteps DEF Sticky
<1> QED
  BY <1>1, InvHolds, PTL DEF Spec, NoRegression

\* The delivery that records a payment does not leave its walk waiting for payment
\* or cancelled, unless the walk became so after the delivery read it.
THEOREM PaymentReachesWalk == Spec => MoneyMovesTheWalk
<1>1. Inv /\ [Next]_vars =>
        [\A c \in Charges :
           row[c].status # "confirmed" /\ row'[c].status = "confirmed" =>
             \/ walk'.status \notin {"awaiting_payment", "ride_cancelled"}
             \/ WalkOvertaken(c)]_vars
  <2> SUFFICES ASSUME Inv, [Next]_vars, NEW c \in Charges,
                      row[c].status # "confirmed", row'[c].status = "confirmed"
               PROVE  \/ walk'.status \notin {"awaiting_payment", "ride_cancelled"}
                      \/ WalkOvertaken(c)
    OBVIOUS
  <2>1. PICK w \in Hooks :
          /\ CommitWebhook(w) /\ hook[w].charge = c
          /\ hook[w].at = "settle" /\ hook'[w].at = "idle"
          /\ "confirmed" = Written(Resolve(hook[w].status, hook[w].kind),
                                   hook[w].status, row[c].status)
    BY StatusSteps
  <2> DEFINE t == hook[w]
  <2>2. Resolve(t.status, t.kind) = "confirmed"
    BY <2>1 DEF Written
  <2>3. t.walk \in WalkStatus /\ walk \in WalkType
    BY <2>1, <2>2, HookFacts, InvFacts DEF Believes, Hook
  <2>4. CASE MovesWalk(t)
    <3>1. PICK st \in WalkOnConfirmed(t.walk) : SetWalk(st)
      BY <2>1, <2>4 DEF CommitWebhook
    <3>2. st \in {"released", "decision"}
      BY <2>3, <2>4 DEF MovesWalk, WalkOnConfirmed, WalkStatus
    <3> QED
      BY <2>3, <3>1, <3>2, SetWalkType DEF WalkStatus
  <2>5. CASE ~MovesWalk(t)
    <3>1. UNCHANGED walk
      BY <2>1, <2>5 DEF CommitWebhook
    <3>2. t.walk \notin {"awaiting_payment", "ride_cancelled"}
      <4>1. ASSUME t.walk = "ride_cancelled" PROVE FALSE
        <5>1. WalkOnConfirmed(t.walk) = {"decision"}
          BY <4>1 DEF WalkOnConfirmed
        <5> QED
          BY <2>5, <4>1, <5>1 DEF MovesWalk
      <4>2. ASSUME t.walk = "awaiting_payment" PROVE FALSE
        <5>1. WalkOnConfirmed(t.walk) = {"released", "decision"}
          BY <4>2 DEF WalkOnConfirmed
        <5> QED
          BY <2>5, <4>2, <5>1 DEF MovesWalk
      <4> QED
        BY <4>1, <4>2
    <3> QED
      BY <2>1, <3>1, <3>2 DEF WalkOvertaken
  <2> QED
    BY <2>4, <2>5
<1> QED
  BY <1>1, InvHolds, PTL DEF Spec, MoneyMovesTheWalk

----------------------------------------------------------------------------
(* BooksSettle.  It speaks of the moment when nothing is under way, so its   *)
(* invariant says what is owed to the books until then: money that moved is  *)
(* recorded, or an event that will record it is in the mail or being         *)
(* delivered.  That the delivery will record it needs Remembered: a row that *)
(* was recorded when a delivery read it still is, or the ghost says how not. *)

PaidKinds == {"confirmed", "received", "partial"}
Told(c, K) == \/ \E e \in mail : e.charge = c /\ e.kind \in K
              \/ \E w \in Hooks : /\ hook[w].at # "idle" /\ hook[w].charge = c
                                  /\ hook[w].kind \in K

Owed(c) ==
  ~row[c].lost =>
    /\ gate[c] \in {"paid", "partly"} => row[c].status = "confirmed" \/ Told(c, PaidKinds)
    /\ gate[c] = "refunded" => row[c].status = "refunded" \/ Told(c, {"refunded"})

\* A recorded payment stays recorded, or is given back.
Keeps(old, new) == /\ old = "confirmed" => new \in Sticky
                   /\ old = "refunded"  => new = "refunded"

Remembered(w) == LET r == row[hook[w].charge]
                 IN hook[w].at # "idle" /\ ~r.lost => Keeps(hook[w].status, r.status)

Books == (\A c \in Charges : Owed(c)) /\ \A w \in Hooks : Remembered(w)

\* What is written over a recorded payment leaves it recorded, or a trace.
LEMMA StoredKeeps ==
  ASSUME NEW r \in Row, NEW st \in RowStatus, NEW loaded \in RowStatus,
         loaded \in Sticky => st \in {loaded, "refunded"},
         ~Stored(r, st, loaded).lost
  PROVE  ~r.lost /\ Keeps(r.status, Stored(r, st, loaded).status)
<1>1. /\ Stored(r, st, loaded).status = Written(st, loaded, r.status)
      /\ ~r.lost
      /\ ~(/\ r.status \in Sticky /\ r.status # loaded
           /\ st \notin {loaded, "refunded", r.status})
  BY DEF Stored, Row
<1> QED
  BY <1>1 DEF Written, Keeps, Sticky

\* What a commit of a delivery does to the ghost and to the status.
LEMMA SettledStored ==
  ASSUME NEW t
  PROVE  LET r == Stored(row[t.charge], Resolve(t.status, t.kind), t.status)
         IN row[t.charge] \in Row => /\ Settled(t).lost = r.lost
                                     /\ Settled(t).status = r.status
BY DEF Settled, Stored, Row

LEMMA ResolveKeeps ==
  ASSUME NEW st, NEW k PROVE st \in Sticky => Resolve(st, k) \in {st, "refunded"}
BY DEF Resolve

LEMMA SettledKeeps ==
  ASSUME Inv, NEW w \in Hooks, hook[w].at # "idle", ~Settled(hook[w]).lost
  PROVE  /\ ~row[hook[w].charge].lost
         /\ Keeps(row[hook[w].charge].status, Settled(hook[w]).status)
<1> DEFINE t == hook[w]
           r == row[t.charge]
           st == Resolve(t.status, t.kind)
<1>1. r \in Row /\ st \in RowStatus /\ t.status \in RowStatus
  BY HookFacts
<1>2. t.status \in Sticky => st \in {t.status, "refunded"}
  BY ResolveKeeps
<1>3. Settled(t).lost = Stored(r, st, t.status).lost
      /\ Settled(t).status = Stored(r, st, t.status).status
  BY <1>1, SettledStored
<1> HIDE DEF t, r, st
<1>4. ~Stored(r, st, t.status).lost
  BY <1>3 DEF t
<1>5. ~r.lost /\ Keeps(r.status, Stored(r, st, t.status).status)
  BY <1>1, <1>2, <1>4, StoredKeeps
<1> QED
  BY <1>3, <1>5 DEF t, r

\* No step forgets a recorded payment without a trace.
LEMMA NothingForgotten ==
  ASSUME Inv, [Next]_vars, NEW c \in Charges, ~row'[c].lost
  PROVE  ~row[c].lost /\ Keeps(row[c].status, row'[c].status)
<1>1. row \in [Charges -> Row] /\ row[c] \in Row
  BY DEF Inv, TypeOK
<1>2. CASE row'[c] = row[c]
  BY <1>2 DEF Keeps, Sticky
<1>3. ASSUME NEW w \in Hooks, CommitWebhook(w), row'[c] # row[c]
      PROVE  ~row[c].lost /\ Keeps(row[c].status, row'[c].status)
  <2>1. row' = [row EXCEPT ![hook[w].charge] = Settled(hook[w])] /\ hook[w].at = "settle"
    BY <1>3 DEF CommitWebhook
  <2>2. hook[w].charge = c /\ row'[c] = Settled(hook[w])
    BY <1>1, <1>3, <2>1
  <2> QED
    BY <2>1, <2>2, SettledKeeps
<1>4. ASSUME NEW stale, row' = Regenerated(stale)
      PROVE  ~row[c].lost /\ Keeps(row[c].status, row'[c].status)
  <2>1. CASE c \in stale
    <3>1. row'[c] = Stored(row[c], "regenerated", "pending")
      BY <1>4, <2>1 DEF Regenerated
    <3>2. "regenerated" \in RowStatus /\ "pending" \in RowStatus \ Sticky
      BY DEF RowStatus, Sticky
    <3> QED
      BY <1>1, <3>1, <3>2, StoredKeeps
  <2>2. CASE c \notin stale
    BY <1>2, <1>4, <2>2 DEF Regenerated
  <2> QED
    BY <2>1, <2>2
<1>5. ASSUME NEW h \in Handlers, CommitCancel(h)
      PROVE  ~row[c].lost /\ Keeps(row[c].status, row'[c].status)
  BY <1>1, <1>5 DEF CommitCancel, Row, Keeps, Sticky
<1>6. ASSUME NEW h \in Handlers, Charge(h)
      PROVE  ~row[c].lost /\ Keeps(row[c].status, row'[c].status)
  BY <1>1, <1>6 DEF Charge, Unused, RowsWith, Row, Keeps, Sticky
<1>7. ASSUME NEW w \in Hooks, WebhookDies(w)
      PROVE  ~row[c].lost /\ Keeps(row[c].status, row'[c].status)
  <2>1. CASE UNCHANGED row
    BY <1>2, <2>1
  <2>2. CASE row' = [row EXCEPT ![hook[w].charge].lost = @ \/ Settled(hook[w]) # row[hook[w].charge]]
    <3>1. row'[c].status = row[c].status
      BY <1>1, <2>2 DEF Row
    <3>2. c = hook[w].charge => row'[c].lost = (row[c].lost \/ Settled(hook[w]) # row[c])
      BY <1>1, <2>2 DEF Row
    <3>3. c # hook[w].charge => row'[c] = row[c]
      BY <1>1, <2>2
    <3>4. ~row[c].lost
      BY <3>2, <3>3
    <3> QED
      BY <3>1, <3>4 DEF Keeps, Sticky
  <2> QED
    BY <1>7, <2>1, <2>2 DEF WebhookDies
<1>8. ASSUME NEW h \in Handlers, Handle(h), ~UNCHANGED row
      PROVE  (\E stale : row' = Regenerated(stale)) \/ CommitCancel(h) \/ Charge(h)
  BY <1>8 DEF Handle, BeginCreate, CancelUnpaid, BeginCancel, BeginRefund, DecideAgain,
              BeginDelete, CommitWalk, BeginExpire, ExpireCharges, CommitFails, HandlerDies,
              Regenerate, CommitExpire
<1>9. ASSUME NEW w \in Hooks, Deliver(w), ~UNCHANGED row
      PROVE  CommitWebhook(w) \/ WebhookDies(w)
  BY <1>9 DEF Deliver, BeginWebhook, ReadWalk, WebhookFails
<1>10. ~UNCHANGED row => \/ \E h \in Handlers : Handle(h)
                         \/ \E w \in Hooks : Deliver(w)
  BY DEF Next, vars, Gateway, Pay, Lapse, PlanConfirmed, SearchFails, SearchByHand, RawStatus
<1> QED
  BY <1>2, <1>3, <1>4, <1>5, <1>6, <1>7, <1>8, <1>9, <1>10

\* Steps that leave what the row says and the deliveries, and only add to the mail.
LEMMA OwedMail ==
  ASSUME NEW c \in Charges, Owed(c), mail \subseteq mail', UNCHANGED hook,
         row'[c].status = row[c].status, row'[c].lost = row[c].lost,
         gate'[c] \in {"paid", "partly"} =>
           gate[c] \in {"paid", "partly"} \/ Told(c, PaidKinds)',
         gate'[c] = "refunded" => gate[c] = "refunded" \/ Told(c, {"refunded"})'
  PROVE  Owed(c)'
<1>1. \A K : Told(c, K) => Told(c, K)'
  BY DEF Told
<1> QED
  BY <1>1 DEF Owed

LEMMA OwedDelete ==
  ASSUME TypeOK, NEW stale, DeleteCharges(stale), UNCHANGED <<row, hook>>,
         NEW c \in Charges, Owed(c)
  PROVE  Owed(c)'
<1>1. PICK gone \in SUBSET {d \in stale : gate[d] = "open"} :
        /\ gate' = [d \in Charges |-> IF d \in gone THEN "deleted" ELSE gate[d]]
        /\ mail' = mail \cup {Event(d, "failed") : d \in gone}
  BY DEF DeleteCharges
<1>2. gate'[c] \in {gate[c], "deleted"}
  BY <1>1
<1> QED
  BY <1>1, <1>2, OwedMail

LEMMA OwedRefund ==
  ASSUME TypeOK, NEW d \in Charges, NEW all \in BOOLEAN, NEW ok \in BOOLEAN,
         AskRefund(d, all, ok), UNCHANGED <<row, hook>>, NEW c \in Charges, Owed(c)
  PROVE  Owed(c)'
<1>1. CASE UNCHANGED <<gate, mail>>
  BY <1>1, OwedMail
<1>2. CASE ~UNCHANGED <<gate, mail>>
  <2> DEFINE g == AfterRefund(gate[d], all)
             e == Event(d, IF g = "refunded" THEN "refunded" ELSE "partial")
  <2>1. /\ gate[d] \in {"paid", "partly"}
        /\ gate' = [gate EXCEPT ![d] = g] /\ mail' = mail \cup {e}
    BY <1>2 DEF AskRefund
  <2>2. g \in {"partly", "refunded"}
    BY DEF AfterRefund
  <2>3. gate'[c] = IF c = d THEN g ELSE gate[c]
    BY <2>1 DEF TypeOK
  <2>4. /\ e.charge = d /\ e \in mail'
        /\ e.kind = IF g = "refunded" THEN "refunded" ELSE "partial"
    BY <2>1 DEF Event
  <2> HIDE DEF g, e
  <2>5. c = d => IF g = "refunded" THEN Told(c, {"refunded"})' ELSE Told(c, PaidKinds)'
    BY <2>2, <2>4 DEF Told, PaidKinds
  <2> QED
    BY <2>1, <2>3, <2>5, OwedMail
<1> QED
  BY <1>1, <1>2

LEMMA OwedGateway ==
  ASSUME TypeOK, Gateway, NEW c \in Charges, Owed(c)
  PROVE  Owed(c)'
<1>1. PICK d \in Charges : Pay(d) \/ Lapse(d)
  BY DEF Gateway
<1>2. gate \in [Charges -> Gate]
  BY DEF TypeOK
<1>3. CASE Pay(d)
  <2>1. /\ gate' = [gate EXCEPT ![d] = "paid"] /\ mail \subseteq mail'
        /\ Event(d, "received") \in mail' /\ UNCHANGED <<row, hook>>
    BY <1>3 DEF Pay
  <2>2. c = d => Told(c, PaidKinds)'
    BY <2>1 DEF Told, PaidKinds, Event
  <2> QED
    BY <1>2, <2>1, <2>2, OwedMail
<1>4. CASE Lapse(d)
  <2>1. gate'[c] \in {gate[c], "deleted"} /\ mail \subseteq mail' /\ UNCHANGED <<row, hook>>
    BY <1>2, <1>4 DEF Lapse
  <2> QED
    BY <2>1, OwedMail
<1> QED
  BY <1>1, <1>3, <1>4

\* A regeneration over a recorded payment is a loss the ghost remembers.
LEMMA OwedRegenerated ==
  ASSUME TypeOK, NEW stale, row' = Regenerated(stale), UNCHANGED <<gate, mail, hook>>,
         NEW c \in Charges, Owed(c)
  PROVE  Owed(c)'
<1>1. row'[c] = IF c \in stale THEN Stored(row[c], "regenerated", "pending") ELSE row[c]
  BY DEF Regenerated
<1>2. row[c] \in Row /\ "regenerated" \in RowStatus /\ "pending" \in RowStatus \ Sticky
  BY DEF TypeOK, RowStatus, Sticky
<1>3. CASE c \in stale
  <2>1. ~row'[c].lost => ~row[c].lost /\ row[c].status \notin Sticky
    BY <1>1, <1>2, <1>3 DEF Stored, Row, Sticky
  <2> QED
    BY <2>1 DEF Owed, Told, Sticky
<1>4. CASE c \notin stale
  BY <1>1, <1>4 DEF Owed, Told
<1> QED
  BY <1>3, <1>4

\* A delivery about a charge settles what its event announced.
LEMMA SettledSettles ==
  ASSUME Inv, NEW w \in Hooks, hook[w].at # "idle", Remembered(w), ~Settled(hook[w]).lost
  PROVE  LET t == hook[w]
             g == gate[t.charge]
             s == Settled(t).status
         IN /\ /\ g \in {"paid", "partly"}
               /\ t.kind \in PaidKinds \/ row[t.charge].status = "confirmed"
               => s = "confirmed"
            /\ /\ g = "refunded"
               /\ t.kind = "refunded" \/ row[t.charge].status = "refunded"
               => s = "refunded"
<1> DEFINE t   == hook[w]
           g   == gate[t.charge]
           old == row[t.charge].status
           new == Resolve(t.status, t.kind)
           s   == Settled(t).status
<1>1. /\ t.kind \in Kinds /\ t.status \in RowStatus /\ Truthful(t.kind, g)
      /\ Claim(t.status, g) /\ Claim(old, g)
  BY HookFacts DEF Sound, Claim
<1>2. s = Written(new, t.status, old) /\ Claim(s, g)
  BY SettledSound DEF Sound, Claim
<1>3. Keeps(old, s) /\ Keeps(t.status, old)
  BY SettledKeeps DEF Remembered
<1>4. /\ t.kind = "refunded" => new = "refunded"
      /\ t.kind \in PaidKinds /\ t.status # "refunded" => new = "confirmed"
  BY <1>1 DEF Resolve, Kinds, RowStatus, StatusOf, Sticky, PaidKinds
<1> HIDE DEF t, g, old, new, s
<1>5. ASSUME g \in {"paid", "partly"}, t.kind \in PaidKinds \/ old = "confirmed"
      PROVE  s = "confirmed"
  <2>1. old # "refunded" /\ s # "refunded" /\ t.status # "refunded"
    BY <1>1, <1>2, <1>5 DEF Claim
  <2>2. CASE old = "confirmed"
    BY <1>3, <2>1, <2>2 DEF Keeps, Sticky
  <2>3. CASE t.kind \in PaidKinds /\ t.status # "confirmed"
    BY <1>2, <1>4, <2>1, <2>3 DEF Written
  <2>4. CASE t.status = "confirmed"
    BY <1>3, <2>1, <2>4 DEF Keeps, Sticky
  <2> QED
    BY <1>5, <2>2, <2>3, <2>4
<1>6. ASSUME g = "refunded", t.kind = "refunded" \/ old = "refunded"
      PROVE  s = "refunded"
  <2>1. CASE old = "refunded"
    BY <1>3, <2>1 DEF Keeps
  <2>2. CASE t.kind = "refunded" /\ t.status # "refunded"
    BY <1>2, <1>4, <2>2 DEF Written
  <2>3. CASE t.status = "refunded"
    BY <1>3, <2>3 DEF Keeps
  <2> QED
    BY <1>6, <2>1, <2>2, <2>3
<1> QED
  BY <1>5, <1>6 DEF t, g, old, s

\* A delivery about another charge, or one that takes up, goes on with or gives
\* back its event, tells what was told.
LEMMA OwedTold ==
  ASSUME NEW c \in Charges, Owed(c), UNCHANGED gate, row'[c] = row[c],
         \A K \in {PaidKinds, {"refunded"}} : Told(c, K) => Told(c, K)'
  PROVE  Owed(c)'
BY DEF Owed

LEMMA OwedHook ==
  ASSUME Inv, Books, NEW w \in Hooks, Deliver(w), NEW c \in Charges
  PROVE  Owed(c)'
<1> DEFINE t == hook[w]
<1>1. /\ Owed(c) /\ Remembered(w) /\ hook \in [Hooks -> Hook] /\ mail \subseteq Events
      /\ row \in [Charges -> Row] /\ row[c] \in Row
  BY DEF Books, Inv, TypeOK
<1>2. ASSUME NEW e \in Events, BeginWebhook(w, e) PROVE Owed(c)'
  <2>1. /\ e \in mail /\ mail \ {e} \subseteq mail' /\ hook[w].at = "idle"
        /\ UNCHANGED <<row, gate>> /\ \A v \in Hooks \ {w} : hook'[v] = hook[v]
    BY <1>1, <1>2 DEF BeginWebhook, Taken, HoldHook
  <2>2. /\ hook'[w].charge = e.charge /\ hook'[w].kind = e.kind /\ hook'[w].at # "idle"
    BY <1>1, <1>2 DEF BeginWebhook, HoldHook, NoHook
  <2>3. \A K : Told(c, K) => Told(c, K)'
    BY <2>1, <2>2 DEF Told
  <2> QED
    BY <1>1, <2>1, <2>3, OwedTold
<1>3. CASE ReadWalk(w)
  <2>1. /\ UNCHANGED <<row, gate, mail>> /\ \A v \in Hooks \ {w} : hook'[v] = hook[v]
        /\ hook[w].at = "confirm" /\ hook'[w].at = "settle"
        /\ hook'[w].charge = hook[w].charge /\ hook'[w].kind = hook[w].kind
    BY <1>1, <1>3 DEF ReadWalk, HoldHook, Hook
  <2>2. \A K : Told(c, K) => Told(c, K)'
    BY <2>1 DEF Told
  <2> QED
    BY <1>1, <2>1, <2>2, OwedTold
<1>4. CASE WebhookFails(w) \/ WebhookDies(w) \/ CommitWebhook(w)
  <2>1. /\ UNCHANGED gate /\ mail \subseteq mail' /\ t.at # "idle"
        /\ \A v \in Hooks \ {w} : hook'[v] = hook[v]
    BY <1>1, <1>4 DEF WebhookFails, WebhookDies, CommitWebhook, FreeHook, HoldHook
  <2>2. CASE row'[c] = row[c] /\ (t.charge = c => Event(c, t.kind) \in mail')
    <3>1. \A K : Told(c, K) => Told(c, K)'
      BY <2>1, <2>2, EventType DEF Told, Event
    <3> QED
      BY <1>1, <2>1, <2>2, <3>1, OwedTold
  <2>3. CASE t.charge = c /\ ~(row'[c] = row[c] /\ Event(c, t.kind) \in mail')
    <3>1. \/ row'[c] = Settled(t)
          \/ row' = [row EXCEPT ![c].lost = @ \/ Settled(t) # row[c]]
      BY <1>1, <1>4, <2>3 DEF WebhookFails, WebhookDies, CommitWebhook
    <3>2. ~row'[c].lost => row'[c].status = Settled(t).status /\ ~Settled(t).lost
      <4>1. CASE row'[c] = Settled(t)
        BY <4>1
      <4>2. CASE row' = [row EXCEPT ![c].lost = @ \/ Settled(t) # row[c]]
        <5>1. /\ row'[c].lost = (row[c].lost \/ Settled(t) # row[c])
              /\ row'[c].status = row[c].status
          BY <1>1, <4>2 DEF Row
        <5> QED
          BY <5>1
      <4> QED
        BY <3>1, <4>1, <4>2
    <3>3. ~row'[c].lost => ~row[c].lost
      BY <2>1, <2>3, <3>2, SettledKeeps
    <3>4. ASSUME ~row'[c].lost
          PROVE  /\ gate[c] \in {"paid", "partly"}
                    /\ (t.kind \in PaidKinds \/ row[c].status = "confirmed")
                    => row'[c].status = "confirmed"
                 /\ gate[c] = "refunded" /\ (t.kind = "refunded" \/ row[c].status = "refunded")
                    => row'[c].status = "refunded"
      BY <1>1, <2>1, <2>3, <3>2, <3>4, SettledSettles
    <3>5. \A K : Told(c, K) => t.kind \in K \/ Told(c, K)'
      BY <2>1, <2>3 DEF Told
    <3> QED
      BY <1>1, <2>1, <3>3, <3>4, <3>5 DEF Owed
  <2>4. CASE t.charge # c
    BY <1>1, <1>4, <2>2, <2>4 DEF WebhookFails, WebhookDies, CommitWebhook
  <2> QED
    BY <2>2, <2>3, <2>4
<1> QED
  BY <1>2, <1>3, <1>4 DEF Deliver

LEMMA OwedHandler ==
  ASSUME Inv, NEW h \in Handlers, Handle(h), NEW c \in Charges, Owed(c)
  PROVE  Owed(c)'
<1>1. TypeOK /\ row \in [Charges -> Row] /\ gate \in [Charges -> Gate] /\ row[c] \in Row
  BY DEF Inv, TypeOK
<1>2. CASE UNCHANGED <<row, gate, mail, hook>>
  BY <1>2 DEF Owed, Told
<1>3. CASE BeginCreate(h) \/ ExpireCharges(h)
  BY <1>1, <1>3, OwedDelete DEF BeginCreate, ExpireCharges
<1>4. CASE Regenerate(h) \/ CommitExpire(h)
  BY <1>1, <1>4, OwedRegenerated DEF Regenerate, CommitExpire
<1>5. CASE BeginCancel(h) \/ BeginRefund(h)
  BY <1>1, <1>2, <1>5, OwedRefund DEF BeginCancel, BeginRefund
<1>6. CASE CommitCancel(h)
  <2>1. row'[c].status = row[c].status /\ row'[c].lost = row[c].lost
        /\ UNCHANGED <<gate, mail, hook>>
    BY <1>1, <1>6 DEF CommitCancel, Row
  <2> QED
    BY <2>1, OwedMail
<1>7. CASE Charge(h) /\ ~UNCHANGED <<row, gate, mail>>
  <2>1. PICK d \in Unused : /\ gate' = [gate EXCEPT ![d] = "open"]
                            /\ row'  = [row EXCEPT ![d].status = "pending"]
                            /\ mail' = mail \cup {Event(d, "created")}
    BY <1>7 DEF Charge
  <2>2. CASE c = d
    <3>1. gate'[c] = "open"
      BY <1>1, <2>1, <2>2
    <3> QED
      BY <3>1 DEF Owed
  <2>3. CASE c # d
    <3>1. gate'[c] = gate[c] /\ row'[c] = row[c] /\ UNCHANGED hook
      BY <1>1, <1>7, <2>1, <2>3 DEF Charge
    <3> QED
      BY <2>1, <3>1, OwedMail
  <2> QED
    BY <2>2, <2>3
<1> QED
  BY <1>2, <1>3, <1>4, <1>5, <1>6, <1>7
     DEF Handle, CancelUnpaid, DecideAgain, BeginDelete, CommitWalk, Charge, BeginExpire,
         CommitFails, HandlerDies

LEMMA BooksStep == ASSUME Inv, [Next]_vars, Books PROVE Books'
<1>1. ASSUME NEW c \in Charges PROVE Owed(c)'
  <2>0. Owed(c)
    BY DEF Books
  <2>1. CASE UNCHANGED <<row, gate, mail, hook>>
    BY <2>0, <2>1 DEF Owed, Told
  <2>2. CASE Gateway
    BY <2>0, <2>2, OwedGateway DEF Inv
  <2>3. CASE \E w \in Hooks : Deliver(w)
    BY <2>3, OwedHook
  <2>4. CASE \E h \in Handlers : Handle(h)
    BY <2>0, <2>4, OwedHandler
  <2> QED
    BY <2>1, <2>2, <2>3, <2>4
       DEF Next, vars, PlanConfirmed, SearchFails, SearchByHand, RawStatus
<1>2. ASSUME NEW w \in Hooks PROVE Remembered(w)'
  <2>1. hook \in [Hooks -> Hook] /\ Remembered(w)
    BY DEF Inv, TypeOK, Books
  <2>2. CASE /\ hook[w].at # "idle" /\ hook'[w].charge = hook[w].charge
             /\ hook'[w].status = hook[w].status
    <3> DEFINE c == hook[w].charge
    <3>1. c \in Charges
      BY <2>2, HookFacts
    <3>2. ~row'[c].lost => ~row[c].lost /\ Keeps(row[c].status, row'[c].status)
      BY <3>1, NothingForgotten
    <3>3. ~row[c].lost => Keeps(hook[w].status, row[c].status)
      BY <2>1, <2>2 DEF Remembered
    <3>4. ~row'[c].lost => Keeps(hook[w].status, row'[c].status)
      BY <3>2, <3>3 DEF Keeps, Sticky
    <3> QED
      BY <2>2, <3>4 DEF Remembered
  <2>3. CASE hook'[w].at = "idle"
    BY <2>3 DEF Remembered
  <2>4. CASE \E e \in Events : BeginWebhook(w, e)
    <3>1. PICK e \in Events : BeginWebhook(w, e)
      BY <2>4
    <3>2. hook'[w].status = row[e.charge].status /\ hook'[w].charge = e.charge /\ UNCHANGED row
      BY <2>1, <3>1 DEF BeginWebhook, HoldHook, NoHook
    <3> QED
      BY <3>2 DEF Remembered, Keeps, Sticky
  <2>5. CASE hook'[w] = hook[w]
    BY <2>2, <2>3, <2>5
  <2>6. CASE ReadWalk(w)
    <3>1. /\ hook[w].at # "idle" /\ hook'[w].charge = hook[w].charge
          /\ hook'[w].status = hook[w].status
      BY <2>1, <2>6 DEF ReadWalk, HoldHook, Hook
    <3> QED
      BY <2>2, <3>1
  <2>7. ASSUME NEW v \in Hooks, Deliver(v)
        PROVE  \/ hook'[w] = hook[w] \/ hook'[w].at = "idle" \/ ReadWalk(w)
               \/ \E e \in Events : BeginWebhook(w, e)
    <3>1. CASE v # w
      BY <2>1, <2>7, <3>1 DEF Deliver, BeginWebhook, ReadWalk, CommitWebhook, WebhookFails,
                              WebhookDies, FreeHook, HoldHook
    <3>2. CASE v = w
      BY <2>1, <2>7, <3>2, NoHookType
         DEF Deliver, CommitWebhook, WebhookFails, WebhookDies, FreeHook, HoldHook
    <3> QED
      BY <3>1, <3>2
  <2>8. \/ UNCHANGED hook \/ \E v \in Hooks : Deliver(v)
    BY DEF Next, vars, Gateway, Pay, Lapse, PlanConfirmed, SearchFails, SearchByHand, RawStatus,
           Handle, BeginCreate, Regenerate, Charge, CancelUnpaid, BeginCancel, CommitCancel,
           BeginRefund, DecideAgain, BeginDelete, CommitWalk, BeginExpire, ExpireCharges,
           CommitExpire, CommitFails, HandlerDies
  <2> QED
    BY <2>3, <2>4, <2>5, <2>6, <2>7, <2>8
<1> QED
  BY <1>1, <1>2 DEF Books

\* Once every event is delivered the books say what the gateway says, unless a
\* recorded payment was written over by who had not read it or an event died
\* after its marker: for any number of charges, handlers and deliveries in flight,
\* and of repetitions of the events.
THEOREM BooksSettleInTheEnd == Spec => []BooksSettle
<1>1. Init => Books
  BY NoHookType DEF Init, Books, Owed, Remembered
<1>2. Inv /\ Books /\ [Next]_vars => Books'
  BY BooksStep
<1>3. Inv /\ Books => BooksSettle
  <2> SUFFICES ASSUME Inv, Books, mail = {}, \A w \in Hooks : hook[w].at = "idle",
                      NEW c \in Charges, ~row[c].lost
               PROVE  /\ row[c].status = "confirmed" <=> gate[c] \in {"paid", "partly"}
                      /\ row[c].status = "refunded"  <=> gate[c] = "refunded"
    BY DEF BooksSettle
  <2>1. Sound(row[c], gate[c]) /\ Owed(c) /\ ~Told(c, PaidKinds) /\ ~Told(c, {"refunded"})
    BY DEF Inv, RowsAreSound, Told, Books
  <2> QED
    BY <2>1 DEF Sound, Owed, MoneyIn
<1> QED
  BY <1>1, <1>2, <1>3, InvHolds, PTL DEF Spec
============================================================================
