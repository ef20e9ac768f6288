------------------------- MODULE PlanCreditsProofs -------------------------
(***************************************************************************)
(* Proofs about PlanCredits, for any credits per period, any walks and any *)
(* handlers in flight, and whatever the bounds on subscriptions, bills and *)
(* periods.                                                                *)
(***************************************************************************)
EXTENDS PlanCredits, FiniteSetTheorems, TLAPS

Settles == {"confirmed", "received"}

\* What a row may hold: credits come with the grant, and a subscription not
\* taken yet is blank.
RowsAreSound == \A s \in Subs : /\ sub[s].credits > 0 => sub[s].granted
                                /\ sub[s].status = "none" => sub[s] = NoSub
                                /\ sub[s].granted => HasPaid(s)

\* What a walk that took a credit says of the subscription it took it from.
WalksAreSound ==
  \A w \in Walks : walk[w].by # 0 =>
    /\ walk[w].at \in {"covered", "gone"}
    /\ sub[walk[w].by].granted
    /\ walk[w].paidIn <= sub[walk[w].by].period
    /\ walk[w].by \notin walk[w].older => walk[w].paidIn = sub[walk[w].by].period

\* An event tells the truth about its bill.
MailIsTrue == \A e \in mail : e.kind \in Settles => bill[e.sub][e.bill] \in MoneyIn

\* What a handler holds: rows that exist, paid ones when it handles a payment,
\* one row in the webhook; a grant it has seen is not taken back.
TasksAreSound ==
  \A h \in Handlers :
    /\ \A s \in task[h].rows : /\ sub[s].status # "none"
                               /\ task[h].kind \in Settles => HasPaid(s)
    /\ \A s \in Subs : task[h].read[s].granted => sub[s].granted
    /\ task[h].at = "hook" => \A s, r \in task[h].rows : s = r

\* What a cancellation that returns a credit holds: the walk, and the period whose
\* credit it spent.
ReturnsAreSound ==
  \A h \in Handlers : task[h].at = "return" =>
    \A w \in task[h].walks, s \in task[h].rows :
      walk[w].by = s /\ walk[w].paidIn = task[h].read[s].period

\* The payment of s is on its way to the grant.
Coming(s) == \/ \E e \in mail : e.sub = s /\ e.kind \in Settles
             \/ \E h \in Handlers : /\ task[h].at = "hook" /\ s \in task[h].rows
                                    /\ task[h].kind \in Settles

GrantIsComing == \A s \in Subs : HasPaid(s) => sub[s].granted \/ Coming(s)

Sound == RowsAreSound /\ WalksAreSound /\ MailIsTrue /\ TasksAreSound /\ ReturnsAreSound
Inv   == TypeOK /\ Sound /\ GrantIsComing /\ NoFreeWalk

----------------------------------------------------------------------------
(* The rows of tutor_subscriptions *)

LEMMA Blank == NoSub \in Sub /\ NewSub \in Sub /\ Load(NoSub) \in Loaded
BY DEF NoSub, NewSub, Sub, Status, Load, Loaded

LEMMA LoadType == ASSUME NEW r \in Sub PROVE Load(r) \in Loaded
BY DEF Sub, Load, Loaded

\* How a step may change a row: nothing of what was given is taken back, and
\* credits appear only with the first grant, with a new period, or on a stale
\* read.
Changes(r, n) ==
  /\ n \in Sub
  /\ n.status = "none" => n = r
  /\ r.granted => n.granted
  /\ n.credits > 0 => n.granted
  /\ n.period >= r.period
  /\ n.stray = r.stray
  /\ ~n.again => /\ ~r.again
                 /\ \/ n.period = r.period /\ n.credits <= r.credits
                    \/ n.period > r.period /\ n.credits <= Credits + n.stray
                    \/ ~r.granted /\ n.credits <= Credits + n.stray

LEMMA Same ==
  ASSUME NEW r \in Sub, r.credits > 0 => r.granted
  PROVE  Changes(r, r)
BY DEF Changes, Sub

LEMMA Restated ==
  ASSUME NEW r \in Sub, NEW n, Changes(r, n), NEW st \in Status \ {"none"}
  PROVE  Changes(r, [n EXCEPT !.status = st])
<1> DEFINE m == [n EXCEPT !.status = st]
<1>1. n \in Sub
  BY DEF Changes
<1>2. m \in Sub
  BY <1>1 DEF Sub
<1>3. /\ m.status = st /\ m.granted = n.granted /\ m.credits = n.credits
      /\ m.period = n.period /\ m.again = n.again /\ m.stray = n.stray
  BY <1>1 DEF Sub
<1>4. m.status # "none"
  BY <1>3
<1> HIDE DEF m
<1>5. Changes(r, m)
  BY <1>2, <1>3, <1>4 DEF Changes
<1> QED
  BY <1>5 DEF m

LEMMA RowType ==
  ASSUME NEW r \in Sub, NEW st \in Status, NEW g \in BOOLEAN, NEW c \in Nat,
         NEW p \in Nat, NEW o \in BOOLEAN, NEW a \in BOOLEAN
  PROVE  [r EXCEPT !.status = st, !.granted = g, !.credits = c,
                   !.period = p, !.over = o, !.again = a] \in Sub
BY DEF Sub

LEMMA PaidChanges ==
  ASSUME NEW r \in Loaded, NEW now \in Sub, now.status # "none",
         now.credits > 0 => now.granted, r.granted => now.granted,
         ~now.again => now.credits <= Credits + now.stray
  PROVE  Changes(now, Paid(r, now)) /\ Paid(r, now).granted
<1> DEFINE n == Paid(r, now)
<1> DEFINE grant == MayGrant(r)
<1> DEFINE renew == MayRenew(r, now)
<1>1. grant \in BOOLEAN /\ renew \in BOOLEAN /\ grant = ~r.granted
  BY DEF MayGrant, MayRenew
<1>2. /\ now.credits \in Nat /\ now.period \in Nat /\ Credits \in Nat
      /\ now.stray \in Nat
      /\ now.again \in BOOLEAN /\ now.granted \in BOOLEAN
      /\ r.granted \in BOOLEAN
  BY CreditsAssumption DEF Sub, Loaded
<1>3. n \in Sub
  <2> DEFINE st == IF r.status = "overdue" THEN "active" ELSE now.status
             g  == IF grant THEN TRUE ELSE now.granted
             c  == IF grant \/ renew THEN Written(Credits, r.credits, now.credits)
                   ELSE now.credits
             p  == IF renew THEN now.period + 1 ELSE now.period
             o  == IF renew THEN FALSE ELSE now.over
             a  == IF grant /\ now.granted THEN TRUE ELSE now.again
  <2>1. st \in Status /\ c \in Nat /\ p \in Nat
    BY <1>2 DEF Written, Sub, Status
  <2>3. g \in BOOLEAN /\ o \in BOOLEAN /\ a \in BOOLEAN
    <3>1. now.granted \in BOOLEAN /\ now.over \in BOOLEAN /\ now.again \in BOOLEAN
      BY DEF Sub
    <3> QED
      BY <3>1, Zenon
  <2>2. n = [now EXCEPT !.status = st, !.granted = g, !.credits = c,
                        !.period = p, !.over = o, !.again = a]
    BY DEF Paid
  <2> HIDE DEF st, g, c, p, o, a, n
  <2> QED
    BY <2>1, <2>2, <2>3, RowType
<1>4. /\ n.status # "none"
      /\ n.granted
      /\ n.period = IF renew THEN now.period + 1 ELSE now.period
      /\ ~n.again => ~now.again /\ (grant => ~now.granted)
      /\ n.stray = now.stray
  BY <1>1, <1>2 DEF Paid, Sub
<1>5. n.credits = IF grant \/ renew THEN Written(Credits, r.credits, now.credits)
                  ELSE now.credits
  BY DEF Paid, Sub
<1>6. n.credits \in {Credits, now.credits} /\ (~grant /\ ~renew => n.credits = now.credits)
  BY <1>5 DEF Written
<1> QED
  BY <1>1, <1>2, <1>3, <1>4, <1>6 DEF Changes

LEMMA ReversedChanges ==
  ASSUME NEW r \in Loaded, NEW now \in Sub, now.credits > 0 => now.granted,
         now.status # "none"
  PROVE  Changes(now, Reversed(r, now))
<1>1. CASE r.period \in now.reversed
  BY <1>1, Same DEF Reversed
<1>2. CASE r.period \notin now.reversed
  <2> DEFINE c == IF r.credits > 0 THEN 0 ELSE now.credits
  <2>1. c \in Nat /\ c <= now.credits /\ now.reversed \cup {r.period} \in SUBSET Nat
    BY DEF Sub, Loaded
  <2>2. Reversed(r, now)
          = [now EXCEPT !.reversed = now.reversed \cup {r.period}, !.credits = c]
    BY <1>2 DEF Reversed
  <2> DEFINE v == now.reversed \cup {r.period}
  <2> HIDE DEF c, v
  <2>3. [now EXCEPT !.reversed = v, !.credits = c] \in Sub
    BY <2>1 DEF Sub, v
  <2>4. /\ now.period \in Nat /\ now.credits \in Nat
        /\ LET n == [now EXCEPT !.reversed = v, !.credits = c]
           IN /\ n.status = now.status /\ n.granted = now.granted
              /\ n.again = now.again /\ n.period = now.period /\ n.credits = c
              /\ n.stray = now.stray
    BY DEF Sub
  <2> QED
    BY <2>1, <2>2, <2>3, <2>4 DEF Changes, v
<1> QED
  BY <1>1, <1>2

LEMMA BrokenChanges ==
  ASSUME NEW r \in Loaded, NEW now \in Sub, now.credits > 0 => now.granted,
         now.status # "none"
  PROVE  /\ Changes(now, Broken(r, now))
         /\ Changes(now, [Broken(r, now) EXCEPT !.status = "cancelled"])
<1>1. CASE r.credits > 0 /\ ~now.broken
  <2>1. Broken(r, now) = [now EXCEPT !.broken = TRUE, !.credits = 0]
    BY <1>1 DEF Broken
  <2> DEFINE n == [now EXCEPT !.broken = TRUE, !.credits = 0]
  <2>2. /\ now.credits \in Nat /\ now.period \in Nat /\ n \in Sub
        /\ n.status = now.status /\ n.granted = now.granted /\ n.credits = 0
        /\ n.period = now.period /\ n.again = now.again /\ n.stray = now.stray
    BY DEF Sub
  <2>3. Changes(now, n)
    <3> HIDE DEF n
    <3> QED
      BY <2>2 DEF Changes
  <2> QED
    BY <2>1, <2>3, Restated DEF Status
<1>2. CASE ~(r.credits > 0 /\ ~now.broken)
  <2>1. Broken(r, now) = now
    BY <1>2 DEF Broken
  <2> QED
    BY <2>1, Same, Restated DEF Status
<1> QED
  BY <1>1, <1>2

LEMMA AfterChanges ==
  ASSUME NEW r \in Loaded, NEW now \in Sub, now.status # "none",
         now.credits > 0 => now.granted, r.granted => now.granted,
         ~now.again => now.credits <= Credits + now.stray, NEW kind
  PROVE  /\ Changes(now, After(kind, r, now))
         /\ kind \in Settles => After(kind, r, now).granted
<1>1. CASE kind \in Settles
  BY <1>1, PaidChanges DEF After, Settles
<1>2. CASE kind = "refunded"
  BY <1>2, ReversedChanges DEF After, Settles
<1>3. CASE kind \notin Settles \cup {"refunded"}
  <2>1. After(kind, r, now) = InArrears(r, now)
    BY <1>3 DEF After, Settles
  <2> QED
    BY <1>3, <2>1, Same, Restated DEF InArrears, Status
<1> QED
  BY <1>1, <1>2, <1>3

----------------------------------------------------------------------------
(* What a step may do to the rest *)

\* How a step that changes rows may change a walk.
Ages(w) == /\ walk'[w].by = walk[w].by /\ walk'[w].at = walk[w].at
           /\ walk'[w].paidIn = walk[w].paidIn /\ walk'[w].back = walk[w].back
           /\ walk[w].older \subseteq walk'[w].older
           /\ walk[w].at # "none" =>
                \A s \in Subs : sub'[s].period > sub[s].period => s \in walk'[w].older

LEMMA DrawnIsFinite ==
  ASSUME NEW s
  PROVE  /\ IsFiniteSet(Drawn(s)) /\ Cardinality(Drawn(s)) \in Nat
         /\ IsFiniteSet(Drawn(s)') /\ Cardinality(Drawn(s)') \in Nat
<1>1. Drawn(s) \in SUBSET Walks /\ Drawn(s)' \in SUBSET Walks
  BY DEF Drawn
<1>2. IsFiniteSet(Drawn(s)) /\ IsFiniteSet(Drawn(s)')
  BY <1>1, WalksAssumption, FS_Subset
<1> QED
  BY <1>2, FS_CardinalityType

\* A period has no more than its credits, and those that strayed into it, to begin
\* with.
LEMMA CreditsBound ==
  ASSUME Inv, NEW s \in Subs, ~sub[s].again
  PROVE  sub[s].credits <= Credits + sub[s].stray
<1>1. sub[s].credits \in Nat /\ Credits \in Nat /\ sub[s].stray \in Nat
  BY CreditsAssumption DEF Inv, TypeOK, Sub
<1>2. sub[s].credits + Cardinality(Drawn(s)) <= Credits + sub[s].stray
  BY DEF Inv, NoFreeWalk
<1>3. Cardinality(Drawn(s)) \in Nat
  BY DrawnIsFinite
<1> QED
  BY <1>1, <1>2, <1>3

\* A step that changes rows as Changes allows keeps the bound on the credits.
LEMMA ChangesKeepBound ==
  ASSUME Inv, sub' \in [Subs -> Sub],
         \A s \in Subs : Changes(sub[s], sub'[s]),
         \A w \in Walks : Ages(w)
  PROVE  NoFreeWalk'
<1> SUFFICES ASSUME NEW s \in Subs, ~sub'[s].again
             PROVE  sub'[s].credits + Cardinality(Drawn(s)') <= Credits + sub'[s].stray
  BY DEF NoFreeWalk
<1>1. /\ sub[s].credits \in Nat /\ sub'[s].credits \in Nat /\ Credits \in Nat
      /\ sub[s].period \in Nat /\ sub'[s].period \in Nat
      /\ sub[s].stray \in Nat /\ sub'[s].stray \in Nat
      /\ \A w \in Walks : walk[w].paidIn \in Nat
  BY CreditsAssumption DEF Inv, TypeOK, Sub, Walk
<1>2. /\ ~sub[s].again
      /\ \/ sub'[s].period = sub[s].period /\ sub'[s].credits <= sub[s].credits
         \/ sub'[s].period > sub[s].period /\ sub'[s].credits <= Credits + sub'[s].stray
         \/ ~sub[s].granted /\ sub'[s].credits <= Credits + sub'[s].stray
      /\ sub'[s].stray = sub[s].stray
  BY DEF Changes
<1>3. s # 0
  BY DEF Subs
<1>4. CASE sub'[s].period = sub[s].period /\ sub'[s].credits <= sub[s].credits
  <2>1. Drawn(s)' = Drawn(s)
    BY <1>4 DEF Drawn, Ages
  <2>2. sub[s].credits + Cardinality(Drawn(s)) <= Credits + sub[s].stray
    BY <1>2 DEF Inv, NoFreeWalk
  <2> QED
    BY <1>1, <1>2, <1>4, <2>1, <2>2, DrawnIsFinite
<1>5. CASE /\ sub'[s].period > sub[s].period \/ ~sub[s].granted
           /\ sub'[s].credits <= Credits + sub'[s].stray
  <2>1. Drawn(s)' = {}
    BY <1>1, <1>3, <1>5 DEF Drawn, Ages, Inv, Sound, WalksAreSound
  <2> QED
    BY <1>1, <1>5, <2>1, FS_EmptySet
<1> QED
  BY <1>2, <1>4, <1>5

\* A cancellation in flight finds the walk as it read it, but for its flag.
LEMMA ReturnsStay ==
  ASSUME Inv, task' \in [Handlers -> Task],
         \A w \in Walks : walk[w].by # 0 =>
           walk'[w].by = walk[w].by /\ walk'[w].paidIn = walk[w].paidIn,
         \A h \in Handlers : task'[h] = task[h] \/ task'[h].at # "return"
  PROVE  ReturnsAreSound'
<1> SUFFICES ASSUME NEW h \in Handlers, task'[h].at = "return",
                    NEW w \in task'[h].walks, NEW s \in task'[h].rows
             PROVE  walk'[w].by = s /\ walk'[w].paidIn = task'[h].read[s].period
  BY DEF ReturnsAreSound
<1>1. task'[h] = task[h] /\ w \in Walks /\ s \in Subs
  BY DEF Task
<1>2. walk[w].by = s /\ walk[w].paidIn = task[h].read[s].period
  BY <1>1 DEF Inv, Sound, ReturnsAreSound
<1> QED
  BY <1>1, <1>2 DEF Subs

\* A step that changes rows as Changes allows, ages walks accordingly and frees
\* handlers, without losing the payment of an ungranted one, keeps the invariant.
LEMMA ChangesKeep ==
  ASSUME Inv, sub' \in [Subs -> Sub], walk' \in [Walks -> Walk],
         UNCHANGED <<bill, mail>>, task' \in [Handlers -> Task],
         \A s \in Subs : /\ Changes(sub[s], sub'[s])
                         /\ sub'[s].granted => sub[s].granted \/ HasPaid(s)
                         /\ Coming(s) => Coming(s)' \/ sub'[s].granted,
         \A w \in Walks : Ages(w),
         \A h \in Handlers : task'[h] = task[h] \/ task'[h] = Idle
  PROVE  Inv'
<1>1. TypeOK'
  BY DEF Inv, TypeOK
<1>2. RowsAreSound'
  BY DEF RowsAreSound, HasPaid, Inv, Sound, Changes
<1>3. WalksAreSound'
  <2> SUFFICES ASSUME NEW w \in Walks, walk'[w].by # 0
               PROVE  /\ walk'[w].at \in {"covered", "gone"}
                      /\ sub'[walk'[w].by].granted
                      /\ walk'[w].paidIn <= sub'[walk'[w].by].period
                      /\ walk'[w].by \notin walk'[w].older =>
                           walk'[w].paidIn = sub'[walk'[w].by].period
    BY DEF WalksAreSound
  <2> DEFINE s == walk[w].by
  <2>1. /\ walk'[w].by = s /\ walk'[w].at = walk[w].at
        /\ walk'[w].paidIn = walk[w].paidIn /\ walk[w].older \subseteq walk'[w].older
    BY DEF Ages
  <2>2. s \in Subs
    BY <2>1 DEF Inv, TypeOK, Walk, Subs
  <2>3. /\ walk[w].at \in {"covered", "gone"} /\ sub[s].granted /\ walk[w].paidIn <= sub[s].period
        /\ s \notin walk[w].older => walk[w].paidIn = sub[s].period
    BY <2>1 DEF Inv, Sound, WalksAreSound
  <2>4. /\ sub'[s].granted /\ sub'[s].period >= sub[s].period
        /\ sub'[s].period > sub[s].period => s \in walk'[w].older
    BY <2>2, <2>3 DEF Changes, Ages
  <2>5. sub[s].period \in Nat /\ sub'[s].period \in Nat /\ walk[w].paidIn \in Nat
    BY <2>2 DEF Inv, TypeOK, Sub, Walk
  <2> HIDE DEF s
  <2> QED
    BY <2>1, <2>3, <2>4, <2>5
<1>4. MailIsTrue'
  BY DEF MailIsTrue, Inv, Sound
<1>5. TasksAreSound'
  <2> SUFFICES ASSUME NEW h \in Handlers
               PROVE  /\ \A s \in task'[h].rows :
                           /\ sub'[s].status # "none"
                           /\ task'[h].kind \in Settles => HasPaid(s)
                      /\ \A s \in Subs : task'[h].read[s].granted => sub'[s].granted
                      /\ task'[h].at = "hook" => \A s, r \in task'[h].rows : s = r
    BY DEF TasksAreSound, HasPaid
  <2>1. CASE task'[h] = task[h]
    <3>1. task[h].rows \subseteq Subs
      BY DEF Inv, TypeOK, Task
    <3> QED
      BY <2>1, <3>1 DEF Inv, Sound, TasksAreSound, Changes
  <2>2. CASE task'[h] = Idle
    BY <2>2 DEF Idle, Load, NoSub
  <2> QED
    BY <2>1, <2>2
<1>6. GrantIsComing'
  BY DEF GrantIsComing, Inv, HasPaid, Changes
<1>7. NoFreeWalk'
  BY ChangesKeepBound
<1>8. ReturnsAreSound'
  BY ReturnsStay DEF Ages, Idle
<1> QED
  BY <1>1, <1>2, <1>3, <1>4, <1>5, <1>6, <1>7, <1>8 DEF Inv, Sound

\* The gateway's steps: money that came in stays visible.
LEMMA GatewayKeeps ==
  ASSUME Inv, UNCHANGED <<sub, walk, task>>,
         bill' \in [Subs -> [Bills -> BillState]],
         mail \subseteq mail', mail' \subseteq Events, MailIsTrue',
         \A s \in Subs : /\ HasPaid(s) => HasPaid(s)'
                         /\ HasPaid(s)' => HasPaid(s) \/ Coming(s)'
  PROVE  Inv'
<1>1. TypeOK'
  BY DEF Inv, TypeOK
<1>2. RowsAreSound' /\ WalksAreSound'
  BY DEF Inv, Sound, RowsAreSound, WalksAreSound
<1>3. TasksAreSound'
  <2> SUFFICES ASSUME NEW h \in Handlers
               PROVE  /\ \A s \in task[h].rows :
                           /\ sub[s].status # "none"
                           /\ task[h].kind \in Settles => HasPaid(s)'
                      /\ \A s \in Subs : task[h].read[s].granted => sub[s].granted
                      /\ task[h].at = "hook" => \A s, r \in task[h].rows : s = r
    BY DEF TasksAreSound
  <2>1. task[h].rows \subseteq Subs
    BY DEF Inv, TypeOK, Task
  <2> QED
    BY <2>1 DEF Inv, Sound, TasksAreSound
<1>4. GrantIsComing'
  BY DEF Inv, GrantIsComing, Coming
<1>5. NoFreeWalk'
  BY DEF Inv, NoFreeWalk, Drawn
<1>6. ReturnsAreSound'
  BY DEF Inv, Sound, ReturnsAreSound
<1> QED
  BY <1>1, <1>2, <1>3, <1>4, <1>5, <1>6 DEF Inv, Sound

\* A handler begins: it loads rows that exist.
LEMMA ReadsKeep ==
  ASSUME Inv, NEW h \in Handlers, task[h].at = "idle",
         NEW at \in Steps, NEW kind \in Kinds \cup {"none"}, NEW rows \in SUBSET Subs,
         NEW walks \in SUBSET Walks, ReadsFor(h, at, kind, rows, walks), UNCHANGED <<sub, walk, bill>>, mail' \subseteq mail,
         \A s \in rows : sub[s].status # "none" /\ (kind \in Settles => HasPaid(s)),
         at = "hook" => \A s, r \in rows : s = r,
         at = "return" => \A w \in walks, s \in rows :
                            walk[w].by = s /\ walk[w].paidIn = sub[s].period,
         \A s \in Subs : Coming(s) => Coming(s)'
  PROVE  Inv'
<1> DEFINE read == [s \in Subs |-> Load(IF s \in rows THEN sub[s] ELSE NoSub)]
<1> DEFINE t == [at |-> at, kind |-> kind, rows |-> rows, walks |-> walks,
                 read |-> read]
<1>1. read \in [Subs -> Loaded]
  <2>1. \A s \in Subs : (IF s \in rows THEN sub[s] ELSE NoSub) \in Sub
    BY Blank DEF Inv, TypeOK
  <2> QED
    BY <2>1, LoadType
<1>2. t \in Task
  BY <1>1 DEF Task
<1>3. task \in [Handlers -> Task] /\ task' = [task EXCEPT ![h] = t]
  BY DEF ReadsFor, Hold, Inv, TypeOK
<1>4. TypeOK'
  BY <1>2, <1>3 DEF Inv, TypeOK
<1>5. RowsAreSound' /\ WalksAreSound' /\ MailIsTrue'
  BY DEF Inv, Sound, RowsAreSound, WalksAreSound, MailIsTrue, HasPaid
<1>6. TasksAreSound'
  <2> SUFFICES ASSUME NEW g \in Handlers
               PROVE  /\ \A s \in task'[g].rows :
                           /\ sub[s].status # "none"
                           /\ task'[g].kind \in Settles => HasPaid(s)
                      /\ \A s \in Subs : task'[g].read[s].granted => sub[s].granted
                      /\ task'[g].at = "hook" => \A s, r \in task'[g].rows : s = r
    BY DEF TasksAreSound, HasPaid
  <2>1. CASE g # h
    BY <1>3, <2>1 DEF Inv, Sound, TasksAreSound
  <2>2. CASE g = h
    <3>1. task'[g] = t
      BY <1>3, <2>2
    <3>2. \A s \in Subs : read[s].granted => sub[s].granted
      BY DEF Load, NoSub
    <3> QED
      BY <3>1, <3>2
  <2> QED
    BY <2>1, <2>2
<1>7. GrantIsComing'
  BY DEF Inv, GrantIsComing, HasPaid
<1>8. NoFreeWalk'
  BY DEF Inv, NoFreeWalk, Drawn
<1>9. ReturnsAreSound'
  <2> SUFFICES ASSUME NEW g \in Handlers, task'[g].at = "return",
                      NEW w \in task'[g].walks, NEW s \in task'[g].rows
               PROVE  walk[w].by = s /\ walk[w].paidIn = task'[g].read[s].period
    BY DEF ReturnsAreSound
  <2>1. CASE g # h
    BY <1>3, <2>1 DEF Inv, Sound, ReturnsAreSound
  <2>2. CASE g = h
    <3>1. task'[g] = t
      BY <1>3, <2>2
    <3>2. at = "return" /\ w \in walks /\ s \in rows /\ task'[g].read[s] = Load(sub[s])
      BY <3>1
    <3> QED
      BY <3>2 DEF Load
  <2> QED
    BY <2>1, <2>2
<1> QED
  BY <1>4, <1>5, <1>6, <1>7, <1>8, <1>9 DEF Inv, Sound

\* A handler that frees itself and is not handling a payment loses none.
LEMMA FreeKeepsComing ==
  ASSUME TypeOK, NEW h \in Handlers, Free(h), UNCHANGED mail, NEW s,
         Coming(s), ~(task[h].at = "hook" /\ s \in task[h].rows /\ task[h].kind \in Settles)
  PROVE  Coming(s)'
BY DEF Coming, Free, Hold, TypeOK

LEMMA FreeType ==
  ASSUME TypeOK, NEW h \in Handlers, Free(h)
  PROVE  /\ task' \in [Handlers -> Task]
         /\ \A g \in Handlers : task'[g] = task[g] \/ task'[g] = Idle
<1>1. Idle \in Task
  BY Blank DEF Idle, Task, Steps
<1> QED
  BY <1>1 DEF Free, Hold, TypeOK

----------------------------------------------------------------------------
(* The steps *)

LEMMA GatewayStep == ASSUME Inv, Gateway PROVE Inv'
<1> PICK s \in Subs, b \in Bills : Pay(s, b) \/ Overdue(s, b) \/ Refund(s, b)
  BY DEF Gateway
<1>1. /\ bill \in [Subs -> [Bills -> BillState]] /\ mail \subseteq Events
      /\ \A k \in Kinds : Event(s, b, k) \in Events
      /\ \A k \in Kinds : LET e == Event(s, b, k) IN
                          e.sub = s /\ e.bill = b /\ e.kind = k
  BY DEF Inv, TypeOK, Event, Events
<1>2. bill[s] \in [Bills -> BillState]
  BY <1>1
<1>3. CASE Pay(s, b)
  <2>1. /\ bill' = [bill EXCEPT ![s][b] = "paid"]
        /\ mail' = mail \cup {Event(s, b, "confirmed"), Event(s, b, "received")}
        /\ UNCHANGED <<sub, walk, task>>
    BY <1>3 DEF Pay
  <2>2. bill' \in [Subs -> [Bills -> BillState]] /\ mail \subseteq mail' /\ mail' \subseteq Events
    BY <1>1, <2>1 DEF BillState, Kinds
  <2>3. \A r \in Subs, c \in Bills :
          bill'[r][c] = IF r = s /\ c = b THEN "paid" ELSE bill[r][c]
    BY <1>1, <1>2, <2>1
  <2>4. MailIsTrue'
    BY <1>1, <2>1, <2>3 DEF MailIsTrue, Inv, Sound, MoneyIn, Kinds, Events
  <2>5. ASSUME NEW r \in Subs
        PROVE  /\ HasPaid(r) => HasPaid(r)'
               /\ HasPaid(r)' => HasPaid(r) \/ Coming(r)'
    <3>1. CASE r = s
      <4>1. Coming(s)'
        BY <1>1, <2>1 DEF Coming, Settles, Kinds
      <4>2. HasPaid(s)'
        BY <2>3 DEF HasPaid, MoneyIn
      <4> QED
        BY <3>1, <4>1, <4>2
    <3>2. CASE r # s
      BY <2>3, <3>2 DEF HasPaid
    <3> QED
      BY <3>1, <3>2
  <2> QED
    BY <2>1, <2>2, <2>4, <2>5, GatewayKeeps
<1>4. CASE Overdue(s, b) \/ Refund(s, b)
  <2>1. /\ bill' = [bill EXCEPT ![s][b] = "late"] \/ bill' = [bill EXCEPT ![s][b] = "refunded"]
        /\ \E k \in {"overdue", "refunded"} : mail' = mail \cup {Event(s, b, k)}
        /\ UNCHANGED <<sub, walk, task>>
    BY <1>4 DEF Overdue, Refund
  <2>2. bill' \in [Subs -> [Bills -> BillState]] /\ mail \subseteq mail' /\ mail' \subseteq Events
    BY <1>1, <2>1 DEF BillState, Kinds
  <2>3. \A r \in Subs, c \in Bills : bill[r][c] \in MoneyIn <=> bill'[r][c] \in MoneyIn
    BY <1>1, <1>2, <1>4 DEF Overdue, Refund, MoneyIn
  <2>4. MailIsTrue'
    BY <1>1, <2>1, <2>3 DEF MailIsTrue, Inv, Sound, Kinds, Events, Settles
  <2>5. \A r \in Subs : HasPaid(r)' <=> HasPaid(r)
    BY <2>3 DEF HasPaid
  <2> QED
    BY <2>1, <2>2, <2>4, <2>5, GatewayKeeps
<1> QED
  BY <1>3, <1>4

\* What every row change starts from.
LEMMA Rows ==
  ASSUME Inv, NEW s \in Subs
  PROVE  /\ sub[s] \in Sub
         /\ sub[s].credits > 0 => sub[s].granted
         /\ sub[s].granted => HasPaid(s)
         /\ ~sub[s].again => sub[s].credits <= Credits + sub[s].stray
BY CreditsBound DEF Inv, TypeOK, Sound, RowsAreSound

LEMMA StillAges == ASSUME UNCHANGED walk, \A s \in Subs : sub'[s].period = sub[s].period,
                          \A s \in Subs : sub[s].period \in Nat
                   PROVE  \A w \in Walks : Ages(w)
BY DEF Ages

LEMMA ElapseStep == ASSUME Inv, NEW s \in Subs, Elapse(s) PROVE Inv'
<1>1. /\ sub' = [sub EXCEPT ![s].over = TRUE] /\ sub[s].status # "none"
      /\ UNCHANGED <<walk, bill, mail, task>>
  BY DEF Elapse
<1>2. ASSUME NEW r \in Subs
      PROVE  /\ sub'[r] \in Sub /\ Changes(sub[r], sub'[r])
             /\ sub'[r].granted = sub[r].granted /\ sub'[r].period = sub[r].period
  <2>1. CASE r = s
    <3> DEFINE n == [sub[s] EXCEPT !.over = TRUE]
    <3>1. /\ n \in Sub /\ n.status = sub[s].status /\ n.granted = sub[s].granted
          /\ n.credits = sub[s].credits /\ n.period = sub[s].period
          /\ n.again = sub[s].again /\ n.stray = sub[s].stray
          /\ sub[s].credits \in Nat /\ sub[s].period \in Nat
      BY Rows DEF Sub
    <3>2. sub'[r] = n
      BY <1>1, <2>1 DEF Inv, TypeOK
    <3> HIDE DEF n
    <3>3. sub[s].credits > 0 => sub[s].granted
      BY Rows
    <3>4. Changes(sub[s], n)
      BY <1>1, <3>1, <3>3 DEF Changes
    <3> QED
      BY <2>1, <3>1, <3>2, <3>4
  <2>2. CASE r # s
    <3>1. sub'[r] = sub[r]
      BY <1>1, <2>2 DEF Inv, TypeOK
    <3> QED
      BY <3>1, Rows, Same
  <2> QED
    BY <2>1, <2>2
<1>3. sub' \in [Subs -> Sub]
  BY <1>1, <1>2 DEF Inv, TypeOK
<1>4. \A w \in Walks : Ages(w)
  BY <1>1, <1>2, StillAges DEF Inv, TypeOK, Sub
<1>5. \A r \in Subs : Coming(r) => Coming(r)'
  BY <1>1 DEF Coming
<1>6. walk' \in [Walks -> Walk] /\ task' \in [Handlers -> Task]
  BY <1>1 DEF Inv, TypeOK
<1> QED
  BY <1>1, <1>2, <1>3, <1>4, <1>5, <1>6, ChangesKeep

LEMMA BeginHookStep ==
  ASSUME Inv, NEW h \in Handlers, NEW e \in Events, BeginHook(h, e)
  PROVE  Inv'
<1>1. /\ task[h].at = "idle" /\ e \in mail /\ sub[e.sub].status # "none"
      /\ mail' = mail \ {e} /\ Reads(h, "hook", e.kind, {e.sub})
      /\ UNCHANGED <<sub, walk, bill>>
  BY DEF BeginHook
<1>2. e.sub \in Subs /\ e.bill \in Bills /\ e.kind \in Kinds
  BY DEF Events
<1>3. e.kind \in Settles => HasPaid(e.sub)
  BY <1>1, <1>2 DEF HasPaid, Inv, Sound, MailIsTrue
<1>4. ASSUME NEW s \in Subs, Coming(s) PROVE Coming(s)'
  <2>1. task \in [Handlers -> Task]
    BY DEF Inv, TypeOK
  <2>2. CASE \E d \in mail : d # e /\ d.sub = s /\ d.kind \in Settles
    BY <1>1, <2>2 DEF Coming
  <2>3. CASE e.sub = s /\ e.kind \in Settles
    BY <1>1, <2>1, <2>3 DEF Coming, Reads, ReadsFor, Hold
  <2>4. CASE \E g \in Handlers : /\ task[g].at = "hook" /\ s \in task[g].rows
                                 /\ task[g].kind \in Settles
    BY <1>1, <2>1, <2>4 DEF Coming, Reads, ReadsFor, Hold
  <2> QED
    BY <1>4, <2>2, <2>3, <2>4 DEF Coming
<1> QED
  BY <1>1, <1>2, <1>3, <1>4, ReadsKeep DEF Steps, Reads

LEMMA CommitHookStep == ASSUME Inv, NEW h \in Handlers, CommitHook(h) PROVE Inv'
<1>1. task[h].at = "hook" /\ Free(h) /\ UNCHANGED <<bill, mail>>
  BY DEF CommitHook
<1>2. task \in [Handlers -> Task] /\ task[h].rows \subseteq Subs
      /\ task[h].read \in [Subs -> Loaded] /\ sub \in [Subs -> Sub]
      /\ walk \in [Walks -> Walk] /\ TypeOK
  BY DEF Inv, TypeOK, Task
<1> DEFINE New(s) == After(task[h].kind, task[h].read[s], sub[s])
<1>3. PICK s \in task[h].rows :
        sub' = [sub EXCEPT ![s] = New(s)] /\ Age(s, New(s).period)
  BY DEF CommitHook
<1>4. s \in Subs /\ sub[s].status # "none"
      /\ (task[h].read[s].granted => sub[s].granted)
      /\ (task[h].kind \in Settles => HasPaid(s))
      /\ task[h].rows = {s}
  BY <1>1, <1>2 DEF Inv, Sound, TasksAreSound
<1>5. Changes(sub[s], New(s)) /\ (task[h].kind \in Settles => New(s).granted)
  BY <1>2, <1>4, Rows, AfterChanges
<1>6. ASSUME NEW r \in Subs
      PROVE  /\ sub'[r] \in Sub /\ Changes(sub[r], sub'[r])
             /\ r # s => sub'[r] = sub[r]
  <2>1. CASE r = s
    BY <1>2, <1>3, <1>5, <2>1 DEF Changes
  <2>2. CASE r # s
    BY <1>2, <1>3, <2>2, Rows, Same
  <2> QED
    BY <2>1, <2>2
<1>7. sub' \in [Subs -> Sub]
  BY <1>2, <1>3, <1>6
<1>8. ASSUME NEW r \in Subs
      PROVE  /\ sub'[r].granted => sub[r].granted \/ HasPaid(r)
             /\ Coming(r) => Coming(r)' \/ sub'[r].granted
  <2>1. sub'[s] = New(s)
    BY <1>2, <1>3, <1>4
  <2>2. sub'[r].granted => sub[r].granted \/ HasPaid(r)
    <3>1. CASE r = s /\ task[h].kind \in Settles
      BY <1>4, <3>1
    <3>2. CASE r = s /\ task[h].kind \notin Settles
      <4>1. New(s).granted = sub[s].granted
        BY <1>2, <1>4, <3>2 DEF After, Settles, Reversed, InArrears, Sub
      <4> QED
        BY <2>1, <3>2, <4>1
    <3>3. CASE r # s
      BY <1>6, <3>3
    <3> QED
      BY <3>1, <3>2, <3>3
  <2>3. Coming(r) => Coming(r)' \/ sub'[r].granted
    <3>1. CASE r = s /\ task[h].kind \in Settles
      BY <1>5, <2>1, <3>1
    <3>2. CASE r \notin task[h].rows \/ task[h].kind \notin Settles
      BY <1>1, <1>2, <3>2, FreeKeepsComing
    <3> QED
      BY <1>4, <3>1, <3>2
  <2> QED
    BY <2>2, <2>3
<1>9. \A w \in Walks : walk'[w] \in Walk /\ Ages(w)
  <2> SUFFICES ASSUME NEW w \in Walks PROVE walk'[w] \in Walk /\ Ages(w)
    OBVIOUS
  <2> DEFINE aged == [walk[w] EXCEPT !.older = walk[w].older \cup {s}]
  <2>1. \A r \in Subs : sub'[r].period > sub[r].period => r = s /\ New(s).period > sub[s].period
    BY <1>2, <1>3, <1>4, <1>6 DEF Sub
  <2>2. walk[w] \in Walk /\ aged \in Walk
    BY <1>2, <1>4 DEF Walk
  <2>3. CASE New(s).period > sub[s].period /\ walk[w].at # "none"
    <3>1. walk'[w] = aged
      BY <1>3, <2>3 DEF Age
    <3>2. /\ aged.by = walk[w].by /\ aged.at = walk[w].at /\ aged.back = walk[w].back
          /\ aged.paidIn = walk[w].paidIn /\ aged.older = walk[w].older \cup {s}
      BY <2>2 DEF Walk
    <3> HIDE DEF aged
    <3> QED
      BY <2>1, <2>2, <3>1, <3>2 DEF Ages
  <2>4. CASE ~(New(s).period > sub[s].period /\ walk[w].at # "none")
    <3>1. walk'[w] = walk[w]
      BY <1>3, <2>4 DEF Age
    <3> QED
      BY <2>1, <2>2, <2>4, <3>1 DEF Ages
  <2> QED
    BY <2>3, <2>4
<1>10. walk' \in [Walks -> Walk]
  BY <1>3, <1>9 DEF Age
<1> QED
  BY <1>1, <1>2, <1>6, <1>7, <1>8, <1>9, <1>10, FreeType, ChangesKeep

\* A handler that is not the webhook's begins.
LEMMA BeginStep ==
  ASSUME Inv, NEW h \in Handlers,
         \/ BeginSubscribe(h) \/ BeginCancel(h) \/ BeginDowngrade(h) \/ BeginSweep(h)
  PROVE  Inv'
<1>1. PICK at \in {"subscribe", "cancel", "downgrade", "sweep"}, rows \in SUBSET Subs :
        /\ Reads(h, at, "none", rows)
        /\ \A s \in rows : sub[s].status # "none"
  <2>1. CASE BeginSubscribe(h)
    BY <2>1 DEF BeginSubscribe, Active
  <2>2. CASE BeginCancel(h)
    BY <2>2 DEF BeginCancel, Active
  <2>3. CASE BeginDowngrade(h)
    BY <2>3 DEF BeginDowngrade
  <2>4. CASE BeginSweep(h)
    BY <2>4 DEF BeginSweep
  <2> QED
    BY <2>1, <2>2, <2>3, <2>4
<1>2. task[h].at = "idle" /\ UNCHANGED <<sub, walk, bill, mail>>
  BY DEF BeginSubscribe, BeginCancel, BeginDowngrade, BeginSweep
<1>3. \A s \in Subs : Coming(s) => Coming(s)'
  BY <1>1, <1>2 DEF Coming, Reads, ReadsFor, Hold, Inv, TypeOK
<1> QED
  BY <1>1, <1>2, <1>3, ReadsKeep DEF Steps, Settles, Reads

\* It ends: no row is granted by it, and no payment was its to handle.
LEMMA EndKeeps ==
  ASSUME Inv, NEW h \in Handlers, task[h].at # "hook", Free(h), UNCHANGED <<bill, mail>>,
         sub' \in [Subs -> Sub], walk' \in [Walks -> Walk],
         \A s \in Subs : Changes(sub[s], sub'[s]) /\ (sub'[s].granted => sub[s].granted),
         \A w \in Walks : Ages(w)
  PROVE  Inv'
<1>1. TypeOK
  BY DEF Inv
<1>2. \A s \in Subs : Coming(s) => Coming(s)'
  BY <1>1, FreeKeepsComing
<1> QED
  BY <1>1, <1>2, FreeType, ChangesKeep

LEMMA SubscribeStep ==
  ASSUME Inv, NEW h \in Handlers, CommitSubscribe(h) PROVE Inv'
<1>1. PICK s \in Subs :
        /\ sub[s].status = "none"
        /\ sub' = [t \in Subs |->
                     IF t = s THEN NewRow
                     ELSE IF t \in task[h].rows THEN [sub[t] EXCEPT !.status = "cancelled"]
                     ELSE sub[t]]
        /\ walk' = [w \in Walks |-> IF walk[w].at = "none" THEN walk[w]
                                    ELSE [walk[w] EXCEPT !.older = @ \cup {s}]]
  BY DEF CommitSubscribe
<1>2. task[h].at = "subscribe" /\ Free(h) /\ UNCHANGED <<bill, mail>>
  BY DEF CommitSubscribe
<1>3. ASSUME NEW t \in Subs
      PROVE  /\ Changes(sub[t], sub'[t])
             /\ sub'[t].granted => sub[t].granted
             /\ sub'[t].period = sub[t].period
  <2>1. CASE t = s
    <3>1. sub[t] = NoSub
      BY <1>1, <2>1 DEF Inv, Sound, RowsAreSound
    <3>2. sub'[t] = NewSub
      BY <1>1, <2>1 DEF NewRow
    <3>3. /\ NewSub.status = "active" /\ NewSub.granted = FALSE /\ NewSub.credits = 0
          /\ NewSub.period = 1 /\ NewSub.again = FALSE /\ NewSub.stray = 0
          /\ NoSub.granted = FALSE /\ NoSub.credits = 0
          /\ NoSub.period = 1 /\ NoSub.again = FALSE /\ NoSub.stray = 0
      BY DEF NewSub, NoSub
    <3> QED
      BY <3>1, <3>2, <3>3, Blank DEF Changes
  <2>2. CASE t # s /\ t \in task[h].rows
    <3>1. sub'[t] = [sub[t] EXCEPT !.status = "cancelled"]
      BY <1>1, <2>2
    <3>2. Changes(sub[t], sub'[t])
      BY <3>1, Rows, Same, Restated DEF Status
    <3> QED
      BY <3>1, <3>2, Rows DEF Sub
  <2>3. CASE t # s /\ t \notin task[h].rows
    BY <1>1, <2>3, Rows, Same
  <2> QED
    BY <2>1, <2>2, <2>3
<1>4. sub' \in [Subs -> Sub]
  BY <1>1, <1>3 DEF Changes
<1>5. ASSUME NEW w \in Walks PROVE walk'[w] \in Walk /\ Ages(w)
  <2> DEFINE aged == [walk[w] EXCEPT !.older = walk[w].older \cup {s}]
  <2>1. walk[w] \in Walk /\ aged \in Walk
    BY DEF Inv, TypeOK, Walk
  <2>2. /\ aged.by = walk[w].by /\ aged.at = walk[w].at /\ aged.back = walk[w].back
        /\ aged.paidIn = walk[w].paidIn /\ aged.older = walk[w].older \cup {s}
    BY <2>1 DEF Walk
  <2>3. walk'[w] = walk[w] \/ walk'[w] = aged
    BY <1>1
  <2>4. \A t \in Subs : ~(sub'[t].period > sub[t].period)
    BY <1>3 DEF Inv, TypeOK, Sub
  <2> HIDE DEF aged
  <2> QED
    BY <2>1, <2>2, <2>3, <2>4 DEF Ages
<1>6. walk' \in [Walks -> Walk]
  BY <1>1, <1>5
<1> QED
  BY <1>2, <1>3, <1>4, <1>5, <1>6, EndKeeps

\* The other ends: each row is left, ended, or loses its credits.
LEMMA EndStep ==
  ASSUME Inv, NEW h \in Handlers,
         \/ SubscribeFails(h) \/ CommitCancel(h) \/ CommitDowngrade(h) \/ CommitSweep(h)
  PROVE  Inv'
<1>1. task[h].at # "hook" /\ Free(h) /\ UNCHANGED <<walk, bill, mail>>
  BY DEF SubscribeFails, CommitCancel, CommitDowngrade, CommitSweep
<1>2. /\ sub \in [Subs -> Sub] /\ task[h].read \in [Subs -> Loaded]
      /\ task[h].rows \subseteq Subs
      /\ \A s \in task[h].rows : sub[s].status # "none"
  BY DEF Inv, TypeOK, Task, Sound, TasksAreSound
<1> DEFINE Ended(s) == [Broken(task[h].read[s], sub[s]) EXCEPT !.status = "cancelled"]
<1> DEFINE Down(s)  == [sub[s] EXCEPT !.status = "cancelled", !.down = TRUE]
<1> DEFINE Swept(s) == Broken(task[h].read[s], sub[s])
<1>3. ASSUME NEW s \in Subs
      PROVE  \/ sub'[s] = sub[s]
             \/ s \in task[h].rows /\ sub'[s] \in {Ended(s), Down(s), Swept(s)}
  BY <1>2 DEF SubscribeFails, CommitCancel, CommitDowngrade, CommitSweep
<1>4. DOMAIN sub' = Subs /\ sub' = [s \in Subs |-> sub'[s]]
  BY <1>2 DEF SubscribeFails, CommitCancel, CommitDowngrade, CommitSweep
<1>5. ASSUME NEW s \in task[h].rows
      PROVE  \A n \in {Ended(s), Down(s), Swept(s)} :
               Changes(sub[s], n) /\ n.granted = sub[s].granted /\ n.period = sub[s].period
  <2>1. /\ s \in Subs /\ sub[s] \in Sub /\ sub[s].status # "none"
        /\ sub[s].credits > 0 => sub[s].granted
        /\ task[h].read[s] \in Loaded
    BY <1>2, Rows
  <2>2. Changes(sub[s], Ended(s)) /\ Changes(sub[s], Swept(s))
    BY <2>1, BrokenChanges
  <2>3. /\ Swept(s).granted = sub[s].granted /\ Swept(s).period = sub[s].period
        /\ Ended(s).granted = sub[s].granted /\ Ended(s).period = sub[s].period
    BY <2>1 DEF Broken, Sub
  <2>4. /\ Down(s) \in Sub /\ Down(s).status = "cancelled"
        /\ Down(s).granted = sub[s].granted /\ Down(s).credits = sub[s].credits
        /\ Down(s).period = sub[s].period /\ Down(s).again = sub[s].again
        /\ Down(s).stray = sub[s].stray
        /\ sub[s].period \in Nat /\ sub[s].credits \in Nat
    BY <2>1 DEF Sub, Status
  <2>5. Changes(sub[s], Down(s))
    <3> HIDE DEF Down
    <3> QED
      BY <2>1, <2>4 DEF Changes
  <2> HIDE DEF Ended, Down, Swept
  <2> QED
    BY <2>2, <2>3, <2>4, <2>5
<1>6. ASSUME NEW s \in Subs
      PROVE  /\ Changes(sub[s], sub'[s])
             /\ sub'[s].granted => sub[s].granted
             /\ sub'[s].period = sub[s].period
  BY <1>3, <1>5, Rows, Same
<1>7. \A w \in Walks : Ages(w)
  BY <1>1, <1>2, <1>6, StillAges DEF Sub
<1>8. sub' \in [Subs -> Sub] /\ walk' \in [Walks -> Walk]
  BY <1>1, <1>4, <1>6 DEF Changes, Inv, TypeOK
<1> QED
  BY <1>1, <1>6, <1>7, <1>8, EndKeeps

----------------------------------------------------------------------------
(* The walks *)

\* A step of one walk that leaves the rows as sound as they were.
LEMMA WalkKeeps ==
  ASSUME Inv, UNCHANGED <<bill, mail>>, sub' \in [Subs -> Sub],
         walk' \in [Walks -> Walk], WalksAreSound', NoFreeWalk',
         task' \in [Handlers -> Task],
         \A h \in Handlers : task'[h] = task[h] \/ task'[h] = Idle,
         \A s \in Subs : Coming(s) => Coming(s)',
         \A w \in Walks : walk[w].by # 0 =>
           walk'[w].by = walk[w].by /\ walk'[w].paidIn = walk[w].paidIn,
         \A s \in Subs : /\ sub'[s].credits > 0 => sub[s].granted
                         /\ sub'[s].granted = sub[s].granted
                         /\ sub'[s].status = sub[s].status
                         /\ sub[s].status = "none" => sub'[s] = sub[s]
  PROVE  Inv'
<1>1. TypeOK'
  BY DEF Inv, TypeOK
<1>2. RowsAreSound'
  BY DEF RowsAreSound, HasPaid, Inv, Sound
<1>3. MailIsTrue'
  BY DEF MailIsTrue, Inv, Sound
<1>4. TasksAreSound'
  <2> SUFFICES ASSUME NEW h \in Handlers
               PROVE  /\ \A s \in task'[h].rows :
                           /\ sub'[s].status # "none"
                           /\ task'[h].kind \in Settles => HasPaid(s)
                      /\ \A s \in Subs : task'[h].read[s].granted => sub'[s].granted
                      /\ task'[h].at = "hook" => \A s, r \in task'[h].rows : s = r
    BY DEF TasksAreSound, HasPaid
  <2>1. CASE task'[h] = task[h]
    <3>1. task[h].rows \subseteq Subs
      BY DEF Inv, TypeOK, Task
    <3> QED
      BY <2>1, <3>1 DEF Inv, Sound, TasksAreSound
  <2>2. CASE task'[h] = Idle
    BY <2>2 DEF Idle, Load, NoSub
  <2> QED
    BY <2>1, <2>2
<1>5. GrantIsComing'
  BY DEF GrantIsComing, Inv, HasPaid
<1>6. ReturnsAreSound'
  BY ReturnsStay DEF Idle
<1> QED
  BY <1>1, <1>2, <1>3, <1>4, <1>5, <1>6 DEF Inv, Sound

\* The same of a step that no handler takes.
LEMMA NoTask ==
  ASSUME Inv, UNCHANGED <<mail, task>>
  PROVE  /\ task' \in [Handlers -> Task]
         /\ \A h \in Handlers : task'[h] = task[h] \/ task'[h] = Idle
         /\ \A s \in Subs : Coming(s) => Coming(s)'
BY DEF Inv, TypeOK, Coming

LEMMA BookStep == ASSUME Inv, NEW w \in Walks, Book(w) PROVE Inv'
<1>1. /\ walk[w].at = "none" /\ walk' = [walk EXCEPT ![w].at = "waiting"]
      /\ UNCHANGED <<sub, bill, mail, task>>
  BY DEF Book
<1>2. walk \in [Walks -> Walk] /\ sub \in [Subs -> Sub]
  BY DEF Inv, TypeOK
<1>3. walk[w].by = 0
  BY <1>1 DEF Inv, Sound, WalksAreSound
<1>4. walk' \in [Walks -> Walk]
  BY <1>1, <1>2 DEF Walk, WalkAt
<1>5. \A v \in Walks : /\ walk'[v].by = walk[v].by /\ walk'[v].paidIn = walk[v].paidIn
                       /\ walk'[v].back = walk[v].back /\ walk'[v].older = walk[v].older
                       /\ v # w => walk'[v].at = walk[v].at
  BY <1>1, <1>2 DEF Walk
<1>6. WalksAreSound'
  BY <1>1, <1>3, <1>5 DEF WalksAreSound, Inv, Sound
<1>7. NoFreeWalk'
  <2>1. \A s : Drawn(s)' = Drawn(s)
    BY <1>1, <1>5 DEF Drawn
  <2> QED
    BY <1>1, <2>1 DEF NoFreeWalk, Inv
<1> QED
  BY <1>1, <1>2, <1>4, <1>5, <1>6, <1>7, Rows, NoTask, WalkKeeps

LEMMA ConfirmStep == ASSUME Inv, NEW w \in Walks, ConfirmPlan(w) PROVE Inv'
<1>1. PICK s \in Subs :
        /\ Spendable(s)
        /\ sub'  = [sub EXCEPT ![s].credits = sub[s].credits - 1]
        /\ walk' = [walk EXCEPT ![w].at = "covered", ![w].by = s,
                                ![w].paidIn = sub[s].period]
  BY DEF ConfirmPlan
<1>2. walk[w].at = "waiting" /\ UNCHANGED <<bill, mail, task>> /\ walk[w].by = 0
  BY DEF ConfirmPlan, Inv, Sound, WalksAreSound
<1>3. walk \in [Walks -> Walk] /\ sub \in [Subs -> Sub]
  BY DEF Inv, TypeOK
<1>4. sub[s].credits > 0 /\ sub[s].credits \in Nat /\ sub[s].status # "none"
  BY <1>1, <1>3 DEF Spendable, Honoured, Sub
<1> DEFINE n == [sub[s] EXCEPT !.credits = sub[s].credits - 1]
<1>5. /\ n \in Sub /\ n.credits = sub[s].credits - 1 /\ n.granted = sub[s].granted
      /\ n.status = sub[s].status /\ n.period = sub[s].period /\ n.again = sub[s].again
      /\ n.stray = sub[s].stray
  BY <1>3, <1>4 DEF Sub
<1>6. sub'[s] = n /\ \A r \in Subs : r # s => sub'[r] = sub[r]
  BY <1>1, <1>3
<1> HIDE DEF n
<1>7. sub' \in [Subs -> Sub]
  BY <1>1, <1>3, <1>5, <1>6
<1>8. s \in 0 .. MaxSubs /\ s # 0 /\ sub[s].period \in Nat
  BY <1>3, BoundsAssumption DEF Subs, Sub
<1>9. /\ walk'[w].by = s /\ walk'[w].paidIn = sub[s].period /\ walk'[w].at = "covered"
      /\ walk'[w].back = walk[w].back /\ walk'[w].older = walk[w].older
      /\ \A v \in Walks : v # w => walk'[v] = walk[v]
  BY <1>1, <1>3 DEF Walk
<1>10. walk' \in [Walks -> Walk]
  <2> DEFINE c == [walk[w] EXCEPT !.at = "covered", !.by = s, !.paidIn = sub[s].period]
  <2>1. c \in Walk
    BY <1>3, <1>8 DEF Walk, WalkAt
  <2>2. walk' = [walk EXCEPT ![w] = c]
    BY <1>1, <1>3
  <2> HIDE DEF c
  <2> QED
    BY <1>3, <2>1, <2>2
<1>11. WalksAreSound'
  <2> SUFFICES ASSUME NEW v \in Walks, walk'[v].by # 0
               PROVE  /\ walk'[v].at \in {"covered", "gone"}
                      /\ sub'[walk'[v].by].granted
                      /\ walk'[v].paidIn <= sub'[walk'[v].by].period
                      /\ walk'[v].by \notin walk'[v].older =>
                           walk'[v].paidIn = sub'[walk'[v].by].period
    BY DEF WalksAreSound
  <2>1. CASE v = w
    BY <1>4, <1>5, <1>6, <1>8, <1>9, <2>1, Rows
  <2>2. CASE v # w
    <3>1. walk'[v] = walk[v] /\ walk[v].by \in Subs
      BY <1>3, <1>9, <2>2 DEF Walk, Subs
    <3> QED
      BY <1>5, <1>6, <3>1 DEF WalksAreSound, Inv, Sound
  <2> QED
    BY <2>1, <2>2
<1>12. NoFreeWalk'
  <2> SUFFICES ASSUME NEW r \in Subs, ~sub'[r].again
               PROVE  sub'[r].credits + Cardinality(Drawn(r)') <= Credits + sub'[r].stray
    BY DEF NoFreeWalk
  <2>1. sub[r].credits + Cardinality(Drawn(r)) <= Credits + sub[r].stray
    BY <1>5, <1>6 DEF Inv, NoFreeWalk
  <2>2. sub[r].credits \in Nat /\ Credits \in Nat /\ sub[r].stray \in Nat
    BY <1>3, CreditsAssumption DEF Sub
  <2>3. CASE r = s
    <3>1. Drawn(r)' \subseteq Drawn(r) \cup {w}
      BY <1>5, <1>6, <1>9, <2>3 DEF Drawn
    <3>2. Cardinality(Drawn(r)') <= Cardinality(Drawn(r) \cup {w})
      BY <3>1, DrawnIsFinite, FS_AddElement, FS_Subset
    <3>3. Cardinality(Drawn(r) \cup {w}) <= Cardinality(Drawn(r)) + 1
      <4>1. IsFiniteSet(Drawn(r)) /\ Cardinality(Drawn(r)) \in Nat
        BY DrawnIsFinite
      <4>2. Cardinality(Drawn(r) \cup {w})
              = IF w \in Drawn(r) THEN Cardinality(Drawn(r)) ELSE Cardinality(Drawn(r)) + 1
        BY <4>1, FS_AddElement
      <4> QED
        BY <4>1, <4>2
    <3>4. Cardinality(Drawn(r) \cup {w}) \in Nat
      BY DrawnIsFinite, FS_AddElement, FS_CardinalityType
    <3> QED
      BY <1>5, <1>6, <2>1, <2>2, <2>3, <3>2, <3>3, <3>4, DrawnIsFinite
  <2>4. CASE r # s
    <3>1. sub'[r] = sub[r] /\ Drawn(r)' \subseteq Drawn(r)
      BY <1>6, <1>9, <2>4 DEF Drawn
    <3>2. Cardinality(Drawn(r)') <= Cardinality(Drawn(r))
      BY <3>1, DrawnIsFinite, FS_Subset
    <3> QED
      BY <2>1, <2>2, <3>1, <3>2, DrawnIsFinite
  <2> QED
    BY <2>3, <2>4
<1> QED
  BY <1>2, <1>3, <1>4, <1>5, <1>6, <1>7, <1>9, <1>10, <1>11, <1>12, Rows, NoTask, WalkKeeps

LEMMA CancelStep == ASSUME Inv, NEW w \in Walks, CancelWalk(w) PROVE Inv'
<1>1. walk \in [Walks -> Walk] /\ sub \in [Subs -> Sub] /\ walk[w].at # "none"
      /\ walk' = [walk EXCEPT ![w].at = "gone"]
      /\ UNCHANGED <<sub, bill, mail, task>>
  BY DEF Inv, TypeOK, CancelWalk
<1>2. walk' \in [Walks -> Walk]
  BY <1>1 DEF Walk, WalkAt
<1>3. \A v \in Walks :
        /\ walk'[v].by = walk[v].by /\ walk'[v].paidIn = walk[v].paidIn
        /\ walk'[v].back = walk[v].back /\ walk'[v].older = walk[v].older
        /\ walk'[v].at \in {walk[v].at, "gone"}
  BY <1>1 DEF Walk
<1>4. WalksAreSound'
  BY <1>1, <1>3 DEF WalksAreSound, Inv, Sound
<1>5. \A s : Drawn(s)' = Drawn(s)
  BY <1>1, <1>3 DEF Drawn
<1>6. NoFreeWalk'
  BY <1>1, <1>5 DEF NoFreeWalk, Inv
<1> QED
  BY <1>1, <1>2, <1>3, <1>4, <1>6, Rows, NoTask, WalkKeeps

LEMMA BeginReturnStep ==
  ASSUME Inv, NEW h \in Handlers, NEW w \in Walks, BeginReturn(h, w) PROVE Inv'
<1> DEFINE s == walk[w].by
<1>1. /\ task[h].at = "idle" /\ Returns(w) /\ ReadsFor(h, "return", "none", {s}, {w})
      /\ UNCHANGED <<sub, walk, bill, mail>>
  BY DEF BeginReturn
<1>2. /\ s \in Subs /\ sub[s].status # "none" /\ s \notin walk[w].older
  BY <1>1 DEF Returns, Honoured, Inv, TypeOK, Walk, Subs
<1>3. walk[w].paidIn = sub[s].period
  BY <1>2 DEF Inv, Sound, WalksAreSound, Subs
<1>4. \A r \in Subs : Coming(r) => Coming(r)'
  BY <1>1 DEF Coming, ReadsFor, Hold, Inv, TypeOK
<1> HIDE DEF s
<1>5. \A v \in {w}, r \in {s} : walk[v].by = r /\ walk[v].paidIn = sub[r].period
  BY <1>3 DEF s
<1> QED
  BY <1>1, <1>2, <1>4, <1>5, ReadsKeep DEF Steps, Settles

\* The credit that comes back: in the period it was spent in it is one less drawn,
\* in a later one it strays.
LEMMA ReturnIsCounted ==
  ASSUME Inv, NEW w \in Walks, NEW s \in Subs, NEW r \in Loaded,
         walk[w].by = s, ~walk[w].back, walk[w].paidIn = r.period,
         sub' = [sub EXCEPT ![s] = Returned(r, sub[s])],
         walk' = [walk EXCEPT ![w].at = "gone", ![w].back = TRUE]
  PROVE  NoFreeWalk'
<1>1. walk \in [Walks -> Walk] /\ sub \in [Subs -> Sub]
  BY DEF Inv, TypeOK
<1> DEFINE n == Returned(r, sub[s])
<1>2. /\ n.credits = sub[s].credits + 1 /\ n.period = sub[s].period
      /\ n.again = sub[s].again
      /\ n.stray = IF sub[s].period = r.period THEN sub[s].stray ELSE sub[s].stray + 1
  BY <1>1 DEF Returned, Sub
<1>3. sub'[s] = n /\ \A t \in Subs : t # s => sub'[t] = sub[t]
  BY <1>1
<1> HIDE DEF n
<1>4. /\ walk'[w].by = s /\ walk'[w].back = TRUE
      /\ \A v \in Walks : v # w => walk'[v] = walk[v]
  BY <1>1 DEF Walk
<1> SUFFICES ASSUME NEW t \in Subs, ~sub'[t].again
             PROVE  sub'[t].credits + Cardinality(Drawn(t)') <= Credits + sub'[t].stray
  BY DEF NoFreeWalk
<1>5. sub[t].credits + Cardinality(Drawn(t)) <= Credits + sub[t].stray
  BY <1>2, <1>3 DEF Inv, NoFreeWalk
<1>6. sub[t].credits \in Nat /\ Credits \in Nat /\ sub[t].stray \in Nat
  BY <1>1, CreditsAssumption DEF Sub
<1>7. Drawn(t)' = Drawn(t) \ {w}
  <2>1. sub'[t].period = sub[t].period
    BY <1>2, <1>3
  <2>2. ~(walk'[w].back = FALSE) /\ walk'[w].back
    BY <1>4
  <2> QED
    BY <1>4, <2>1, <2>2 DEF Drawn
<1>8. Cardinality(Drawn(t)') = Cardinality(Drawn(t)) - (IF w \in Drawn(t) THEN 1 ELSE 0)
  <2>1. CASE w \in Drawn(t)
    BY <1>7, <2>1, DrawnIsFinite, FS_RemoveElement
  <2>2. CASE w \notin Drawn(t)
    <3>1. Drawn(t)' = Drawn(t)
      BY <1>7, <2>2
    <3> QED
      BY <2>2, <3>1, DrawnIsFinite
  <2> QED
    BY <2>1, <2>2
<1>9. CASE t = s /\ sub[s].period = r.period
  <2>1. w \in Drawn(t)
    BY <1>9 DEF Drawn
  <2> QED
    BY <1>2, <1>3, <1>5, <1>6, <1>8, <1>9, <2>1, DrawnIsFinite
<1>10. CASE t = s /\ sub[s].period # r.period
  BY <1>2, <1>3, <1>5, <1>6, <1>8, <1>10, DrawnIsFinite
<1>11. CASE t # s
  BY <1>3, <1>5, <1>6, <1>8, <1>11, DrawnIsFinite
<1> QED
  BY <1>9, <1>10, <1>11

LEMMA CommitReturnStep == ASSUME Inv, NEW h \in Handlers, CommitReturn(h) PROVE Inv'
<1>1. task[h].at = "return" /\ Free(h) /\ UNCHANGED <<bill, mail>>
  BY DEF CommitReturn
<1>2. PICK w \in task[h].walks, s \in task[h].rows :
        /\ sub'  = IF walk[w].back THEN sub
                   ELSE [sub EXCEPT ![s] = Returned(task[h].read[s], sub[s])]
        /\ walk' = [walk EXCEPT ![w].at = "gone", ![w].back = TRUE]
  BY DEF CommitReturn
<1>3. /\ walk \in [Walks -> Walk] /\ sub \in [Subs -> Sub] /\ TypeOK
      /\ w \in Walks /\ s \in Subs /\ task[h].read[s] \in Loaded
  <2>1. task[h] \in Task /\ TypeOK
    BY DEF Inv, TypeOK
  <2>2. task[h].rows \subseteq Subs /\ task[h].walks \subseteq Walks
        /\ task[h].read \in [Subs -> Loaded]
    BY <2>1 DEF Task
  <2> QED
    BY <2>1, <2>2 DEF TypeOK
<1>4. walk[w].by = s /\ walk[w].paidIn = task[h].read[s].period
  BY <1>1 DEF Inv, Sound, ReturnsAreSound
<1>5. sub[s].granted /\ sub[s].status # "none"
  BY <1>1, <1>3, <1>4 DEF Inv, Sound, WalksAreSound, TasksAreSound, Subs
<1> DEFINE n == Returned(task[h].read[s], sub[s])
<1>6. n \in Sub /\ n.granted = sub[s].granted /\ n.status = sub[s].status
      /\ n.period = sub[s].period
  <2> DEFINE c == sub[s].credits + 1
             k == IF sub[s].period = task[h].read[s].period THEN sub[s].stray
                  ELSE sub[s].stray + 1
  <2>1. c \in Nat /\ k \in Nat /\ sub[s] \in Sub
    BY <1>3 DEF Sub
  <2>2. n = [sub[s] EXCEPT !.credits = c, !.stray = k]
    BY DEF Returned
  <2> HIDE DEF c, k, n
  <2> QED
    BY <2>1, <2>2 DEF Sub
<1>7. \A t \in Subs : sub'[t] = sub[t] \/ (t = s /\ sub'[t] = n)
  <2>1. CASE walk[w].back
    BY <1>2, <2>1
  <2>2. CASE ~walk[w].back
    <3>1. sub' = [sub EXCEPT ![s] = n]
      BY <1>2, <2>2
    <3> QED
      BY <1>3, <3>1
  <2> QED
    BY <2>1, <2>2
<1>8. sub' \in [Subs -> Sub]
  BY <1>2, <1>3, <1>6
<1> HIDE DEF n
<1>9. walk' \in [Walks -> Walk]
  <2> DEFINE g == [walk[w] EXCEPT !.at = "gone", !.back = TRUE]
  <2>1. g \in Walk
    BY <1>3 DEF Walk, WalkAt
  <2>2. walk' = [walk EXCEPT ![w] = g]
    BY <1>2, <1>3
  <2> HIDE DEF g
  <2> QED
    BY <1>3, <2>1, <2>2
<1>10. \A v \in Walks :
         /\ walk'[v].by = walk[v].by /\ walk'[v].paidIn = walk[v].paidIn
         /\ walk'[v].older = walk[v].older
         /\ walk'[v].at \in {walk[v].at, "gone"}
  BY <1>2, <1>3 DEF Walk
<1>11. WalksAreSound'
  <2> SUFFICES ASSUME NEW v \in Walks, walk'[v].by # 0
               PROVE  /\ walk'[v].at \in {"covered", "gone"}
                      /\ sub'[walk'[v].by].granted
                      /\ walk'[v].paidIn <= sub'[walk'[v].by].period
                      /\ walk'[v].by \notin walk'[v].older =>
                           walk'[v].paidIn = sub'[walk'[v].by].period
    BY DEF WalksAreSound
  <2>1. /\ walk[v].by \in Subs
        /\ sub'[walk[v].by].granted = sub[walk[v].by].granted
        /\ sub'[walk[v].by].period = sub[walk[v].by].period
    BY <1>3, <1>6, <1>7, <1>10 DEF Walk, Subs
  <2> QED
    BY <1>10, <2>1 DEF WalksAreSound, Inv, Sound
<1>12. NoFreeWalk'
  <2>1. CASE walk[w].back
    <3>1. \A t : Drawn(t)' = Drawn(t)
      <4>1. \A v \in Walks : walk'[v].back = walk[v].back
        BY <1>2, <1>3, <2>1 DEF Walk
      <4> QED
        BY <1>2, <1>10, <2>1, <4>1 DEF Drawn
    <3> QED
      BY <1>2, <2>1, <3>1 DEF NoFreeWalk, Inv
  <2>2. CASE ~walk[w].back
    BY <1>2, <1>3, <1>4, <2>2, ReturnIsCounted
  <2> QED
    BY <2>1, <2>2
<1>13. \A t \in Subs : Coming(t) => Coming(t)'
  BY <1>1, <1>3, FreeKeepsComing
<1>14. \A t \in Subs : /\ sub'[t].credits > 0 => sub[t].granted
                       /\ sub'[t].granted = sub[t].granted
                       /\ sub'[t].status = sub[t].status
                       /\ sub[t].status = "none" => sub'[t] = sub[t]
  BY <1>5, <1>6, <1>7, Rows
<1> QED
  BY <1>1, <1>3, <1>8, <1>9, <1>10, <1>11, <1>12, <1>13, <1>14, FreeType, WalkKeeps

----------------------------------------------------------------------------
(* The theorems *)

LEMMA InitInv == Init => Inv
<1> SUFFICES ASSUME Init PROVE Inv
  OBVIOUS
<1>1. TypeOK
  BY Blank, BoundsAssumption DEF Init, TypeOK, NoWalk, Walk, WalkAt, BillState, Idle, Task, Steps
<1>2. \A s \in Subs : sub[s] = NoSub /\ ~HasPaid(s)
  BY DEF Init, HasPaid, MoneyIn
<1>3. RowsAreSound /\ GrantIsComing
  BY <1>2 DEF RowsAreSound, GrantIsComing, NoSub
<1>4. WalksAreSound /\ MailIsTrue /\ TasksAreSound /\ ReturnsAreSound
  BY DEF Init, ReturnsAreSound, WalksAreSound, MailIsTrue, TasksAreSound, NoWalk, Idle, Load, NoSub
<1>5. NoFreeWalk
  <2> SUFFICES ASSUME NEW s \in Subs
               PROVE  sub[s].credits + Cardinality(Drawn(s)) <= Credits + sub[s].stray
    BY DEF NoFreeWalk
  <2>1. Drawn(s) = {}
    BY DEF Drawn, Init, NoWalk, Subs
  <2>2. sub[s].credits = 0 /\ sub[s].stray = 0
    BY <1>2 DEF NoSub
  <2> QED
    BY <2>1, <2>2, FS_EmptySet, CreditsAssumption
<1> QED
  BY <1>1, <1>3, <1>4, <1>5 DEF Inv, Sound

LEMMA NextInv == Inv /\ [Next]_vars => Inv'
<1> SUFFICES ASSUME Inv, [Next]_vars PROVE Inv'
  OBVIOUS
<1>1. CASE Gateway
  BY <1>1, GatewayStep
<1>2. CASE \E s \in Subs : Elapse(s)
  BY <1>2, ElapseStep
<1>3. CASE \E w \in Walks : Book(w) \/ ConfirmPlan(w) \/ CancelWalk(w)
  BY <1>3, BookStep, ConfirmStep, CancelStep
<1>4. CASE \E h \in Handlers : Handle(h)
  BY <1>4, BeginHookStep, CommitHookStep, BeginStep, SubscribeStep, EndStep,
          BeginReturnStep, CommitReturnStep DEF Handle
<1>5. CASE UNCHANGED vars
  BY <1>5 DEF vars, Inv, Sound, TypeOK, RowsAreSound, WalksAreSound, MailIsTrue,
              TasksAreSound, ReturnsAreSound, GrantIsComing, NoFreeWalk, HasPaid, Coming, Drawn
<1> QED
  BY <1>1, <1>2, <1>3, <1>4, <1>5 DEF Next

LEMMA InvAlways == Spec => []Inv
BY InitInv, NextInv, PTL DEF Spec

\* Every reachable state is well typed.
THEOREM TypeCorrect == Spec => []TypeOK
<1>1. Inv => TypeOK
  BY DEF Inv
<1> QED
  BY <1>1, InvAlways, PTL

\* Credits follow money: what is spent, and what can be, comes from a
\* subscription of which a bill was paid.
THEOREM CreditsFollowMoney == Spec => []CoveredIsPaid
<1>1. Inv => CoveredIsPaid
  <2> SUFFICES ASSUME Inv PROVE CoveredIsPaid
    OBVIOUS
  <2>1. \A w \in Walks : walk[w].by # 0 => walk[w].by \in Subs
    BY DEF Inv, TypeOK, Walk, Subs
  <2> QED
    BY <2>1 DEF Inv, Sound, WalksAreSound, RowsAreSound, CoveredIsPaid
<1> QED
  BY <1>1, InvAlways, PTL

\* A period gives no more walks than it has credits, but for the returns that were
\* decided in an earlier one, unless a webhook granted on a stale read.
THEOREM PeriodsAreBounded == Spec => []NoFreeWalk
<1>1. Inv => NoFreeWalk
  BY DEF Inv
<1> QED
  BY <1>1, InvAlways, PTL

\* A paid subscription has had its credits once the mail is handled.
THEOREM PaymentGrants == Spec => []PaidIsGranted
<1>1. Inv => PaidIsGranted
  BY DEF Inv, GrantIsComing, Coming, PaidIsGranted
<1> QED
  BY <1>1, InvAlways, PTL
=============================================================================
