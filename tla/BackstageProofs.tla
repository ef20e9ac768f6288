-------------------------- MODULE BackstageProofs ---------------------------
(*****************************************************************************)
(* The invariants of Backstage, for any requests in flight, tenants, walkers *)
(* and limits: an inductive invariant of each component, and then one        *)
(* theorem for each property of Backstage.                                   *)
(*****************************************************************************)
EXTENDS Backstage, FiniteSetTheorems, SequenceTheorems, TLAPS

----------------------------------------------------------------------------
(* The configuration of a tenant *)

\* What was superseded earlier is no younger, and the replica is no further behind than it may.
AgesAreSound ==
  /\ \A v \in Config!Versions : v >= version => gone[v] = 0
  /\ \A u, v \in Config!Versions : u <= v => gone[v] <= gone[u]
  /\ gone[replica] <= Lag

\* What a request has read was superseded while it is under way, or within the lag.
ReadInTime(r) == r.st = "read" => gone[r.of] <= Lag + r.age

\* What was superseded goes with the entry before it is tolerated no more.
EndsInTime(e) == e.left > 0 => gone[e.of] + e.left <= Config!Tolerated

ConfigInv ==
  /\ Config!TypeOK /\ AgesAreSound
  /\ reading \in [Handlers -> {Config!Idle} \cup
       [st : {"read", "edited"}, at : Workers, of : Config!Versions, age : 0 .. Patience]]
  /\ \A h \in Handlers : ReadInTime(reading[h])
  /\ EndsInTime(redis)
  /\ \A w \in Workers : EndsInTime(fallback[w])

LEMMA ConfigNats ==
  /\ TTL \in Nat /\ Patience \in Nat /\ Lag \in Nat /\ MaxEdits \in Nat
  /\ Config!Tolerated = TTL + Patience + Lag /\ Config!Tolerated \in Nat
BY ConfigParameters DEF Config!ParametersAssumption, Config!Tolerated

LEMMA ConfigInit == ASSUME Config!Init PROVE ConfigInv
<1> USE ConfigNats DEF Config!Init, Config!None
<1>1. Config!TypeOK BY DEF Config!TypeOK, Config!Versions
<1>2. AgesAreSound BY DEF AgesAreSound, Config!Versions
<1>3. \A h \in Handlers : ReadInTime(reading[h]) BY DEF ReadInTime, Config!Idle
<1>4. EndsInTime(redis) /\ \A w \in Workers : EndsInTime(fallback[w]) BY DEF EndsInTime
<1> QED BY <1>1, <1>2, <1>3, <1>4 DEF ConfigInv

LEMMA ConfigBegins ==
  ASSUME ConfigInv, NEW h \in Handlers, Config!BeginRead(h)
  PROVE  ConfigInv'
<1> USE ConfigNats DEF ConfigInv, Config!BeginRead
<1>1. PICK w \in Workers :
        reading' = [reading EXCEPT ![h] = [st |-> "read", at |-> w, of |-> replica, age |-> 0]]
  OBVIOUS
<1>2. replica \in Config!Versions BY DEF Config!TypeOK, Config!Versions
<1>3. \A g \in Handlers : ReadInTime(reading[g])'
  BY <1>1, <1>2 DEF ReadInTime, AgesAreSound, Config!TypeOK
<1>4. Config!TypeOK' /\ AgesAreSound' /\ EndsInTime(redis)'
      /\ \A w1 \in Workers : EndsInTime(fallback[w1])'
  BY DEF Config!TypeOK, AgesAreSound, EndsInTime
<1> QED BY <1>1, <1>2, <1>3, <1>4

LEMMA ConfigStores ==
  ASSUME ConfigInv, NEW h \in Handlers, Config!Store(h)
  PROVE  ConfigInv'
<1> USE ConfigNats DEF ConfigInv, Config!Store
<1>1. reading[h].of \in Config!Versions /\ reading[h].at \in Workers
      /\ reading[h].age \in 0 .. Patience
  BY DEF Config!Idle
<1>2. PICK e \in [of : Config!Versions, left : 0 .. TTL] : e = Config!Entry(reading[h].of)
  BY <1>1 DEF Config!Entry
<1>3. EndsInTime(e)
  <2>1. e.of = reading[h].of /\ e.left = TTL BY <1>2 DEF Config!Entry
  <2>2. gone[e.of] <= Lag + reading[h].age BY <2>1 DEF ReadInTime
  <2>3. gone[e.of] \in Nat BY <1>1, <2>1 DEF Config!TypeOK
  <2> QED BY <1>1, <2>1, <2>2, <2>3 DEF EndsInTime
<1>4. EndsInTime(e)' BY <1>3 DEF EndsInTime
<1>5. redis' \in {redis, e} /\ \A w \in Workers : fallback'[w] \in {fallback[w], e}
  BY <1>1, <1>2 DEF Config!TypeOK
<1>6. EndsInTime(redis)' /\ \A w \in Workers : EndsInTime(fallback[w])'
  BY <1>4, <1>5 DEF EndsInTime
<1>7. Config!TypeOK' BY <1>1, <1>2 DEF Config!TypeOK
<1>8. \A g \in Handlers : ReadInTime(reading[g])' BY DEF ReadInTime, Config!Idle
<1> QED BY <1>6, <1>7, <1>8 DEF AgesAreSound

LEMMA ConfigEdits ==
  ASSUME ConfigInv, NEW h \in Handlers, Config!Edit(h)
  PROVE  ConfigInv'
<1> USE ConfigNats DEF ConfigInv, Config!Edit
<1>1. version' = version + 1 /\ version' \in Config!Versions
  BY DEF Config!TypeOK, Config!Versions
<1>2. PICK r \in {Config!Idle} \cup
            [st : {"edited"}, at : Workers, of : Config!Versions, age : 0 .. Patience] :
        reading' = [reading EXCEPT ![h] = r]
  <2>1. PICK w \in Workers, st \in {"edited", "idle"} :
          reading' = [reading EXCEPT ![h] =
            IF st = "idle" THEN Config!Idle
            ELSE [st |-> st, at |-> w, of |-> version', age |-> 0]]
    OBVIOUS
  <2>2. CASE st = "idle" BY <2>1, <2>2
  <2>3. CASE st # "idle"
    <3>1. [st |-> "edited", at |-> w, of |-> version', age |-> 0]
            \in [st : {"edited"}, at : Workers, of : Config!Versions, age : 0 .. Patience]
      BY <1>1
    <3> QED BY <2>1, <2>3, <3>1
  <2> QED BY <2>2, <2>3
<1>3. Config!TypeOK' /\ AgesAreSound'
  BY <1>1 DEF Config!TypeOK, AgesAreSound, Config!Versions
<1>4. \A g \in Handlers : ReadInTime(reading[g])' BY <1>2 DEF ReadInTime, Config!Idle
<1>5. EndsInTime(redis)' /\ \A w \in Workers : EndsInTime(fallback[w])' BY DEF EndsInTime
<1> QED BY <1>2, <1>3, <1>4, <1>5

LEMMA ConfigInvalidates ==
  ASSUME ConfigInv, NEW h \in Handlers, Config!Invalidate(h)
  PROVE  ConfigInv'
<1> USE ConfigNats DEF ConfigInv, Config!Invalidate
<1>1. reading[h].at \in Workers BY DEF Config!Idle
<1>2. redis' \in {redis, Config!None} /\ \A w \in Workers : fallback'[w] \in {fallback[w], Config!None}
  BY DEF Config!TypeOK
<1>3. EndsInTime(redis)' /\ \A w \in Workers : EndsInTime(fallback[w])'
  BY <1>2 DEF EndsInTime, Config!None
<1>4. Config!TypeOK' BY <1>1 DEF Config!TypeOK, Config!None, Config!Versions
<1>5. \A g \in Handlers : ReadInTime(reading[g])' BY DEF ReadInTime, Config!Idle
<1> QED BY <1>3, <1>4, <1>5 DEF AgesAreSound

LEMMA ConfigTicks == ASSUME ConfigInv, Config!Tick PROVE ConfigInv'
<1> USE ConfigNats
<1>1. /\ gone \in [Config!Versions -> 0 .. (Config!Tolerated + 1)]
      /\ gone' = [v \in Config!Versions |-> IF v < version /\ gone[v] <= Config!Tolerated
                                            THEN gone[v] + 1 ELSE gone[v]]
      /\ version \in Config!Versions /\ replica \in 0 .. version /\ replica \in Config!Versions
      /\ UNCHANGED <<version, replica, up>>
      /\ replica < version => gone[replica] < Lag
      /\ \A v \in Config!Versions : v \in Int
  BY DEF ConfigInv, Config!TypeOK, Config!Tick, Config!Versions
<1>2. \A v \in Config!Versions :
        /\ gone'[v] <= gone[v] + 1 /\ gone'[v] \in 0 .. (Config!Tolerated + 1)
        /\ gone[v] \in Nat /\ gone'[v] \in Nat
  BY <1>1
<1>3. AgesAreSound' BY <1>1 DEF ConfigInv, AgesAreSound
<1>4. ASSUME NEW e \in [of : Config!Versions, left : 0 .. TTL], EndsInTime(e)
      PROVE  /\ Config!Older(e) \in [of : Config!Versions, left : 0 .. TTL]
             /\ EndsInTime(Config!Older(e))'
  <2>1. CASE e.left > 1
    <3>1. PICK o \in [of : Config!Versions, left : 0 .. TTL] :
            o = Config!Older(e) /\ o.of = e.of /\ o.left = e.left - 1
      <4>1. Config!Older(e) = [e EXCEPT !.left = @ - 1] BY <2>1 DEF Config!Older
      <4>2. PICK v \in Config!Versions, n \in 0 .. TTL : e = [of |-> v, left |-> n]
        OBVIOUS
      <4>3. Config!Older(e) = [of |-> v, left |-> n - 1] BY <4>1, <4>2
      <4>4. [of |-> v, left |-> n - 1] \in [of : Config!Versions, left : 0 .. TTL]
        BY <2>1, <4>2
      <4> QED BY <4>2, <4>3, <4>4
    <3>2. gone'[o.of] + o.left <= Config!Tolerated
      <4>1. gone[e.of] + e.left <= Config!Tolerated BY <2>1, <1>4 DEF EndsInTime
      <4>2. gone'[e.of] <= gone[e.of] + 1 /\ gone'[e.of] \in Nat /\ gone[e.of] \in Nat
        BY <1>2
      <4> QED BY <3>1, <4>1, <4>2
    <3> QED BY <3>1, <3>2 DEF EndsInTime
  <2>2. CASE ~(e.left > 1)
    BY <2>2 DEF Config!Older, Config!None, EndsInTime, Config!Versions
  <2> QED BY <2>1, <2>2
<1>5. /\ redis' = Config!Older(redis)
      /\ fallback' = [w \in Workers |-> Config!Older(fallback[w])]
  BY DEF Config!Tick
<1>6. redis' \in [of : Config!Versions, left : 0 .. TTL] /\ EndsInTime(redis)'
  BY <1>4, <1>5 DEF ConfigInv, Config!TypeOK, EndsInTime
<1>7. /\ fallback' \in [Workers -> [of : Config!Versions, left : 0 .. TTL]]
      /\ \A w \in Workers : EndsInTime(fallback[w])'
  BY <1>4, <1>5 DEF ConfigInv, Config!TypeOK, EndsInTime
<1>8. ASSUME NEW h \in Handlers
      PROVE  /\ reading'[h] \in {Config!Idle} \cup
                  [st : {"read", "edited"}, at : Workers, of : Config!Versions, age : 0 .. Patience]
             /\ ReadInTime(reading[h])'
  <2>1. CASE reading[h] = Config!Idle
    BY <2>1 DEF Config!Tick, ReadInTime, Config!Idle
  <2>2. CASE reading[h] # Config!Idle
    <3>1. PICK r \in [st : {"read", "edited"}, at : Workers, of : Config!Versions,
                      age : 0 .. Patience] : r = reading[h]
      BY <2>2 DEF ConfigInv
    <3>2. r.age < Patience /\ reading'[h] = [r EXCEPT !.age = @ + 1]
      BY <2>2, <3>1 DEF Config!Tick
    <3>3. reading'[h] \in [st : {"read", "edited"}, at : Workers, of : Config!Versions,
                           age : 0 .. Patience]
      BY <3>1, <3>2
    <3>4. r.st = "read" => gone'[r.of] <= Lag + r.age + 1
      <4>1. r.st = "read" => gone[r.of] <= Lag + r.age BY <3>1 DEF ConfigInv, ReadInTime
      <4>2. gone'[r.of] <= gone[r.of] + 1 /\ gone'[r.of] \in Nat /\ gone[r.of] \in Nat
        BY <1>2
      <4> QED BY <4>1, <4>2
    <3> QED BY <3>1, <3>2, <3>3, <3>4 DEF ReadInTime
  <2> QED BY <2>1, <2>2
<1>9. Config!TypeOK' BY <1>1, <1>2, <1>6, <1>7 DEF ConfigInv, Config!TypeOK
<1>10. reading' = [h \in Handlers |-> reading'[h]] BY DEF Config!Tick
<1> QED BY <1>3, <1>6, <1>7, <1>8, <1>9, <1>10 DEF ConfigInv

LEMMA ConfigNext == ASSUME ConfigInv, [Config!Next]_OfConfig PROVE ConfigInv'
<1>1. CASE UNCHANGED OfConfig
  BY <1>1 DEF OfConfig, ConfigInv, Config!TypeOK, AgesAreSound, ReadInTime, EndsInTime
<1>2. ASSUME NEW h \in Handlers, Config!Drop(h) PROVE ConfigInv'
  BY <1>2 DEF Config!Drop, ConfigInv, Config!TypeOK, AgesAreSound, ReadInTime, EndsInTime, Config!Idle
<1>3. CASE Config!Replicate
  <2>1. replica \in Config!Versions /\ replica' = replica + 1 /\ replica' \in Config!Versions
        /\ replica' \in 0 .. version
    BY <1>3, ConfigNats DEF Config!Replicate, ConfigInv, Config!TypeOK, Config!Versions
  <2>2. gone'[replica'] <= gone[replica]
    BY <1>3, <2>1, ConfigNats DEF ConfigInv, AgesAreSound, Config!Replicate, Config!Versions
  <2>3. AgesAreSound'
    BY <1>3, <2>1, <2>2, ConfigNats
       DEF ConfigInv, AgesAreSound, Config!Replicate, Config!TypeOK, Config!Versions
  <2> QED
    BY <1>3, <2>1, <2>3 DEF Config!Replicate, ConfigInv, Config!TypeOK, ReadInTime, EndsInTime
<1>4. CASE Config!Outage
  BY <1>4 DEF Config!Outage, ConfigInv, Config!TypeOK, AgesAreSound, ReadInTime, EndsInTime
<1> QED
  BY <1>1, <1>2, <1>3, <1>4, ConfigBegins, ConfigStores, ConfigEdits, ConfigInvalidates,
     ConfigTicks DEF Config!Next

LEMMA ConfigFollows == ASSUME ConfigInv PROVE Config!StaleIsBounded
BY ConfigNats DEF ConfigInv, Config!StaleIsBounded, Config!IsHit, Config!Found, EndsInTime,
                  Config!TypeOK, Config!Versions

----------------------------------------------------------------------------
(* The tenant of a request *)

Tellable == Scope!Names \cup {Scope!Everyone}
Looked  == [st : {"lookup"}, at : Processes, age : 0 .. Slowness]
Learned == [st : {"answered"}, at : Processes, age : 0 .. Slowness, of : Scope!Names]
Opened  == [st : {"open"}, info : Tellable, guc : Tellable, tx : BOOLEAN, due : Tellable]

\* A session is told what it should be, and so is its transaction.
ToldTrue(s) == s.st = "open" => s.info = s.due /\ (s.tx => s.guc = s.due)

\* What a lookup was answered was true since it began.
AnsweredTrue(s) == s.st = "answered" /\ s.of # Scope!Answer(owner) => ago[s.of] <= s.age

\* What is remembered was true since a lookup no older than the entry.
RememberedTrue(e) == e.left > 0 /\ e.of # Scope!Answer(owner) => ago[e.of] <= TTL - e.left

ScopeInv ==
  /\ Scope!TypeOK
  /\ session \in [Handlers -> {Scope!Idle} \cup Looked \cup Learned \cup Opened]
  /\ \A h \in Handlers : ToldTrue(session[h]) /\ AnsweredTrue(session[h])
  /\ \A p \in Processes : RememberedTrue(identity[p])

LEMMA ScopeNats ==
  /\ TTL \in Nat /\ Slowness \in Nat /\ MaxChanges \in Nat
  /\ Home \in Scope!Names /\ Scope!Nobody \in Scope!Names
  /\ \A o \in Scope!Names : Scope!Answer(o) \in Scope!Names
BY ScopeParameters DEF Scope!ParametersAssumption, Scope!Names, Scope!Answer

LEMMA ScopeInit == ASSUME Scope!Init PROVE ScopeInv
<1> USE ScopeNats DEF Scope!Init, Scope!Unknown
<1>1. Scope!TypeOK BY DEF Scope!TypeOK
<1>2. \A h \in Handlers : ToldTrue(session[h]) /\ AnsweredTrue(session[h])
  BY DEF ToldTrue, AnsweredTrue, Scope!Idle
<1>3. \A p \in Processes : RememberedTrue(identity[p]) BY DEF RememberedTrue
<1> QED BY <1>1, <1>2, <1>3 DEF ScopeInv

\* A step that gives one request a session that is told true keeps the invariant.
LEMMA ScopeTurns ==
  ASSUME ScopeInv, NEW h \in Handlers, UNCHANGED <<owner, changes, ago, identity>>,
         NEW s \in {Scope!Idle} \cup Looked \cup Learned \cup Opened,
         ToldTrue(s), AnsweredTrue(s), session' = [session EXCEPT ![h] = s]
  PROVE  ScopeInv'
<1>1. AnsweredTrue(s)' BY DEF AnsweredTrue, Scope!Answer
<1>2. \A g \in Handlers : ToldTrue(session[g])' /\ AnsweredTrue(session[g])'
  BY <1>1 DEF ScopeInv, ToldTrue, AnsweredTrue, Scope!Answer
<1>3. \A p \in Processes : RememberedTrue(identity[p])'
  BY DEF ScopeInv, RememberedTrue, Scope!Answer
<1> QED BY <1>2, <1>3 DEF ScopeInv, Scope!TypeOK

LEMMA SessionIsTrue ==
  ASSUME NEW t \in Tellable
  PROVE  /\ Scope!Session(t) \in Opened
         /\ ToldTrue(Scope!Session(t)) /\ AnsweredTrue(Scope!Session(t))
<1>1. Scope!Nobody \in Tellable BY ScopeNats DEF Tellable
<1> QED BY <1>1 DEF Scope!Session, Opened, ToldTrue, AnsweredTrue

LEMMA BegunIsTrue ==
  ASSUME NEW s \in Opened, ToldTrue(s)
  PROVE  /\ Scope!Begun(s) \in Opened /\ Scope!Begun(s).tx = TRUE
         /\ ToldTrue(Scope!Begun(s)) /\ AnsweredTrue(Scope!Begun(s))
<1>1. CASE s.tx
  BY <1>1, Zenon DEF Scope!Begun, Opened, ToldTrue, AnsweredTrue
<1>2. CASE ~s.tx
  BY <1>2 DEF Scope!Begun, Opened, ToldTrue, AnsweredTrue
<1> QED BY <1>1, <1>2

\* A session by its fields.
SessionOf(i, g, b, d) == [st |-> "open", info |-> i, guc |-> g, tx |-> b, due |-> d]

LEMMA OpenedIs ==
  ASSUME NEW s \in Opened
  PROVE  \E i, g, d \in Tellable, b \in BOOLEAN :
           s = SessionOf(i, g, b, d)
<1>1. /\ s = [st |-> "open", info |-> s.info, guc |-> s.guc, tx |-> s.tx, due |-> s.due]
      /\ s.info \in Tellable /\ s.guc \in Tellable /\ s.due \in Tellable /\ s.tx \in BOOLEAN
  BY DEF Opened
<1> QED BY <1>1, Zenon DEF SessionOf

LEMMA OpenedType ==
  ASSUME NEW i \in Tellable, NEW g \in Tellable, NEW d \in Tellable, NEW b \in BOOLEAN
  PROVE  SessionOf(i, g, b, d) \in Opened
BY DEF Opened, SessionOf

WithInfo(s, t)  == [s EXCEPT !.info = t]
WithGuc(s, t)   == [s EXCEPT !.guc = t, !.due = t]
WithTx(s, c, t) == [s EXCEPT !.tx = c, !.guc = t]

LEMMA OpenedChanges ==
  ASSUME NEW i, NEW g, NEW b, NEW d, NEW t, NEW c
  PROVE  /\ WithInfo(SessionOf(i, g, b, d), t) = SessionOf(t, g, b, d)
         /\ WithGuc(SessionOf(i, g, b, d), t) = SessionOf(i, t, b, t)
         /\ WithTx(SessionOf(i, g, b, d), c, t) = SessionOf(i, t, c, d)
<1> PICK s : s = SessionOf(i, g, b, d) OBVIOUS
<1>1. [s EXCEPT !.info = t] = SessionOf(t, g, b, d) BY DEF SessionOf
<1>2. [s EXCEPT !.guc = t, !.due = t] = SessionOf(i, t, b, t)
  <2>1. [s EXCEPT !.guc = t, !.due = t] = [[s EXCEPT !.guc = t] EXCEPT !.due = t] OBVIOUS
  <2>2. PICK q : q = SessionOf(i, t, b, d) OBVIOUS
  <2>3. [s EXCEPT !.guc = t] = q BY <2>2 DEF SessionOf
  <2>4. [q EXCEPT !.due = t] = SessionOf(i, t, b, t) BY <2>2 DEF SessionOf
  <2> QED BY <2>1, <2>3, <2>4
<1>3. [s EXCEPT !.tx = c, !.guc = t] = SessionOf(i, t, c, d)
  <2>1. [s EXCEPT !.tx = c, !.guc = t] = [[s EXCEPT !.tx = c] EXCEPT !.guc = t] OBVIOUS
  <2>2. PICK q : q = SessionOf(i, g, c, d) OBVIOUS
  <2>3. [s EXCEPT !.tx = c] = q BY <2>2 DEF SessionOf
  <2>4. [q EXCEPT !.guc = t] = SessionOf(i, t, c, d) BY <2>2 DEF SessionOf
  <2> QED BY <2>1, <2>3, <2>4
<1> QED BY <1>1, <1>2, <1>3, Zenon DEF WithInfo, WithGuc, WithTx

LEMMA ToldIsTrue ==
  ASSUME NEW s \in Opened, NEW t \in Tellable
  PROVE  /\ Scope!Told(s, t) \in Opened
         /\ ToldTrue(Scope!Told(s, t)) /\ AnsweredTrue(Scope!Told(s, t))
<1>1. PICK i, g, d \in Tellable, b \in BOOLEAN :
        s = SessionOf(i, g, b, d)
  BY OpenedIs, Zenon
<1>2. WithInfo(s, t) = SessionOf(t, g, b, d)
  BY <1>1, OpenedChanges
<1>3. PICK r : r = WithInfo(s, t) OBVIOUS
<1>6. Scope!Told(s, t) = WithGuc(Scope!Begun(r), t)
  BY <1>3, Zenon DEF Scope!Told, WithGuc, WithInfo
<1>4. CASE b
  <2>1. Scope!Begun(r) = r BY <1>2, <1>3, <1>4 DEF Scope!Begun, SessionOf
  <2>2. Scope!Told(s, t) = SessionOf(t, t, b, t)
    <3>1. PICK q : q = Scope!Begun(r) /\ q = SessionOf(t, g, b, d) BY <1>2, <1>3, <2>1
    <3>2. WithGuc(q, t) = SessionOf(t, t, b, t) BY <3>1, OpenedChanges
    <3> QED BY <1>6, <3>1, <3>2
  <2>3. PICK q \in Opened : q = SessionOf(t, t, b, t)
    BY OpenedType, Zenon
  <2> QED BY <2>2, <2>3 DEF ToldTrue, AnsweredTrue, SessionOf
<1>5. CASE ~b
  <2>9. PICK y \in BOOLEAN : y = TRUE OBVIOUS
  <2>1. Scope!Begun(r) = SessionOf(t, t, y, d)
    <3>1. r = SessionOf(t, g, b, d) /\ ~r.tx BY <1>2, <1>3, <1>5 DEF SessionOf
    <3>2. r.info = t BY <3>1 DEF SessionOf
    <3>3. Scope!Begun(r) = [r EXCEPT !.tx = y, !.guc = t]
      BY <3>1, <3>2, <2>9 DEF Scope!Begun
    <3>4. Scope!Begun(r) = WithTx(r, y, t) BY <3>3 DEF WithTx
    <3> QED BY <3>1, <3>4, OpenedChanges
  <2>2. Scope!Told(s, t) = SessionOf(t, t, y, t)
    <3>1. PICK q : q = Scope!Begun(r) /\ q = SessionOf(t, t, y, d) BY <2>1
    <3>2. WithGuc(q, t) = SessionOf(t, t, y, t) BY <3>1, OpenedChanges
    <3> QED BY <1>6, <3>1, <3>2
  <2>3. PICK q \in Opened : q = SessionOf(t, t, y, t)
    BY OpenedType, Zenon
  <2> QED BY <2>2, <2>3, <2>9 DEF ToldTrue, AnsweredTrue, SessionOf
<1> QED BY <1>4, <1>5

LEMMA ScopeArrives ==
  ASSUME ScopeInv, NEW h \in Handlers, Scope!Arrive(h)
  PROVE  ScopeInv'
<1>1. PICK p \in Processes :
        session' = [session EXCEPT ![h] =
          IF identity[p].left > 0 THEN Scope!Session(identity[p].of)
          ELSE [st |-> "lookup", at |-> p, age |-> 0]]
  BY DEF Scope!Arrive
<1>2. CASE identity[p].left > 0
  <2>1. PICK s : s = Scope!Session(identity[p].of) OBVIOUS
  <2>2. identity[p].of \in Tellable BY DEF ScopeInv, Scope!TypeOK, Tellable
  <2>3. s \in Opened /\ ToldTrue(s) /\ AnsweredTrue(s) BY <2>1, <2>2, SessionIsTrue, Zenon
  <2> QED BY <1>1, <1>2, <2>1, <2>3, ScopeTurns DEF Scope!Arrive
<1>3. CASE ~(identity[p].left > 0)
  <2>1. PICK s \in Looked : s = [st |-> "lookup", at |-> p, age |-> 0]
    <3>1. [st |-> "lookup", at |-> p, age |-> 0] \in Looked BY ScopeNats DEF Looked
    <3> QED BY <3>1
  <2>2. ToldTrue(s) /\ AnsweredTrue(s) BY <2>1 DEF ToldTrue, AnsweredTrue
  <2> QED BY <1>1, <1>3, <2>1, <2>2, ScopeTurns DEF Scope!Arrive
<1> QED BY <1>2, <1>3

LEMMA ScopeQueries ==
  ASSUME ScopeInv, NEW h \in Handlers, Scope!Query(h)
  PROVE  ScopeInv'
<1>1. session[h] \in Looked
  BY DEF ScopeInv, Scope!Query, Looked, Learned, Opened, Scope!Idle
<1>2. Scope!Answer(owner) \in Scope!Names BY ScopeNats DEF ScopeInv, Scope!TypeOK
<1>3. PICK s \in Learned : s = [st |-> "answered", at |-> session[h].at, age |-> session[h].age,
                                of |-> Scope!Answer(owner)]
  BY <1>1, <1>2 DEF Looked, Learned
<1>4. ToldTrue(s) /\ AnsweredTrue(s) BY <1>3 DEF ToldTrue, AnsweredTrue
<1> QED BY <1>3, <1>4, ScopeTurns DEF Scope!Query

LEMMA ScopeRemembers ==
  ASSUME ScopeInv, NEW h \in Handlers, Scope!Remember(h)
  PROVE  ScopeInv'
<1>1. PICK c \in Learned : c = session[h]
  BY DEF ScopeInv, Scope!Remember, Looked, Learned, Opened, Scope!Idle
<1>2. c.of \in Scope!Names /\ c.at \in Processes /\ c.age \in 0 .. Slowness
      /\ c.of \in Tellable /\ c.st = "answered"
  BY <1>1 DEF Learned, Tellable
<1>3. PICK s : s = Scope!Session(c.of) OBVIOUS
<1>4. s \in Opened /\ ToldTrue(s) BY <1>2, <1>3, SessionIsTrue, Zenon
<1>5. session' = [session EXCEPT ![h] = s] /\ UNCHANGED <<owner, changes, ago>>
      /\ identity' = [identity EXCEPT ![c.at] = IF c.of = Scope!Nobody THEN @
                                                ELSE Scope!Remembered(c, c.of)]
  BY <1>1, <1>3 DEF Scope!Remember
<1>6. PICK e \in [of : Scope!Names, left : 0 .. TTL] :
        e = Scope!Remembered(c, c.of) /\ (e.left > 0 => e.of = c.of /\ e.left = TTL - c.age)
  <2>1. CASE c.of = Scope!Nobody \/ c.age >= TTL
    <3>1. Scope!Remembered(c, c.of) = [of |-> Scope!Nobody, left |-> 0]
      BY <2>1, Zenon DEF Scope!Remembered, Scope!Unknown
    <3>2. [of |-> Scope!Nobody, left |-> 0] \in [of : Scope!Names, left : 0 .. TTL]
      BY ScopeNats
    <3> QED BY <3>1, <3>2
  <2>2. CASE ~(c.of = Scope!Nobody \/ c.age >= TTL)
    <3>1. TTL - c.age \in 0 .. TTL BY <1>2, <2>2, ScopeNats
    <3>2. Scope!Remembered(c, c.of) = [of |-> c.of, left |-> TTL - c.age]
      BY <2>2 DEF Scope!Remembered
    <3>3. [of |-> c.of, left |-> TTL - c.age] \in [of : Scope!Names, left : 0 .. TTL]
      BY <1>2, <3>1
    <3> QED BY <3>2, <3>3
  <2> QED BY <2>1, <2>2
<1>7. RememberedTrue(e)
  <2>1. AnsweredTrue(c) BY <1>1 DEF ScopeInv
  <2> QED BY <1>2, <1>6, <2>1, ScopeNats DEF AnsweredTrue, RememberedTrue
<1>8. RememberedTrue(e)' BY <1>5, <1>7 DEF RememberedTrue, Scope!Answer
<1>9. \A p \in Processes : identity'[p] \in {identity[p], e}
  BY <1>5, <1>6 DEF ScopeInv, Scope!TypeOK
<1>10. \A p \in Processes : RememberedTrue(identity[p])'
  BY <1>5, <1>8, <1>9 DEF ScopeInv, RememberedTrue, Scope!Answer
<1>11. AnsweredTrue(s)' BY <1>4 DEF Opened, AnsweredTrue
<1>12. \A g \in Handlers : ToldTrue(session[g])' /\ AnsweredTrue(session[g])'
  BY <1>4, <1>5, <1>11 DEF ScopeInv, ToldTrue, AnsweredTrue, Scope!Answer
<1>13. Scope!TypeOK' BY <1>5, <1>6 DEF ScopeInv, Scope!TypeOK
<1> QED BY <1>4, <1>5, <1>10, <1>12, <1>13 DEF ScopeInv

LEMMA ScopeChanges == ASSUME ScopeInv, Scope!KeyChanges PROVE ScopeInv'
<1>1. PICK o \in Scope!Names :
        /\ changes < MaxChanges /\ owner' = o /\ changes' = changes + 1
        /\ ago' = [ago EXCEPT ![Scope!Answer(owner)] = 0] /\ UNCHANGED <<identity, session>>
  BY DEF Scope!KeyChanges
<1>2. Scope!Answer(owner) \in Scope!Names BY ScopeNats DEF ScopeInv, Scope!TypeOK
<1>3. Scope!TypeOK' BY <1>1, <1>2, ScopeNats DEF ScopeInv, Scope!TypeOK
<1>4. \A t \in Scope!Names : ago'[t] = IF t = Scope!Answer(owner) THEN 0 ELSE ago[t]
  BY <1>1, <1>2 DEF ScopeInv, Scope!TypeOK
<1>5. ASSUME NEW p \in Processes PROVE RememberedTrue(identity[p])'
  <2>1. PICK e \in [of : Scope!Names, left : 0 .. TTL] : e = identity[p]
    BY DEF ScopeInv, Scope!TypeOK
  <2>2. RememberedTrue(e) BY <2>1 DEF ScopeInv
  <2>3. e.left > 0 => ago'[e.of] <= TTL - e.left
    BY <2>1, <2>2, <1>4, ScopeNats DEF RememberedTrue
  <2> QED BY <1>1, <2>1, <2>3 DEF RememberedTrue
<1>6. ASSUME NEW h \in Handlers PROVE AnsweredTrue(session[h])'
  <2>1. CASE session[h] \in Learned
    <3>1. PICK c \in Learned : c = session[h] BY <2>1
    <3>2. AnsweredTrue(c) BY <3>1 DEF ScopeInv
    <3>3. c.st = "answered" /\ c.of \in Scope!Names /\ c.age \in Nat
      BY ScopeNats DEF Learned
    <3>4. ago'[c.of] <= c.age BY <3>2, <3>3, <1>4 DEF AnsweredTrue
    <3> QED BY <1>1, <3>1, <3>4 DEF AnsweredTrue
  <2>2. CASE session[h] \notin Learned
    BY <1>1, <2>2 DEF ScopeInv, AnsweredTrue, Looked, Opened, Learned, Scope!Idle
  <2> QED BY <2>1, <2>2
<1>7. \A h \in Handlers : ToldTrue(session[h])' BY <1>1 DEF ScopeInv, ToldTrue
<1> QED BY <1>1, <1>3, <1>5, <1>6, <1>7 DEF ScopeInv

LEMMA ScopeTicks == ASSUME ScopeInv, Scope!Tick PROVE ScopeInv'
<1> USE ScopeNats
<1>1. /\ ago \in [Scope!Names -> 0 .. (TTL + 1)] /\ UNCHANGED <<owner, changes>>
      /\ ago' = [t \in Scope!Names |-> IF t = Scope!Answer(owner) \/ ago[t] > TTL THEN ago[t]
                                       ELSE ago[t] + 1]
      /\ identity' = [p \in Processes |-> IF identity[p].left > 1
                                          THEN [identity[p] EXCEPT !.left = @ - 1]
                                          ELSE Scope!Unknown]
  BY DEF ScopeInv, Scope!TypeOK, Scope!Tick
<1>2. \A t \in Scope!Names :
        ago[t] \in Nat /\ ago'[t] \in 0 .. (TTL + 1) /\ ago'[t] \in Nat /\ ago'[t] <= ago[t] + 1
  BY <1>1
<1>3. ASSUME NEW p \in Processes
      PROVE  /\ identity'[p] \in [of : Scope!Names, left : 0 .. TTL]
             /\ RememberedTrue(identity[p])'
  <2>1. PICK v \in Scope!Names, n \in 0 .. TTL : identity[p] = [of |-> v, left |-> n]
    BY DEF ScopeInv, Scope!TypeOK
  <2>2. CASE n > 1
    <3>1. identity'[p] = [of |-> v, left |-> n - 1] BY <1>1, <2>1, <2>2
    <3>2. v # Scope!Answer(owner) => ago[v] <= TTL - n
      BY <2>1, <2>2 DEF ScopeInv, RememberedTrue
    <3>3. v # Scope!Answer(owner) => ago'[v] <= TTL - (n - 1) BY <3>2, <1>2, <2>1
    <3>4. [of |-> v, left |-> n - 1] \in [of : Scope!Names, left : 0 .. TTL] BY <2>1, <2>2
    <3> QED BY <1>1, <3>1, <3>3, <3>4 DEF RememberedTrue, Scope!Answer
  <2>3. CASE ~(n > 1)
    BY <1>1, <2>1, <2>3 DEF Scope!Unknown, RememberedTrue
  <2> QED BY <2>2, <2>3
<1>4. ASSUME NEW h \in Handlers
      PROVE  /\ session'[h] \in {Scope!Idle} \cup Looked \cup Learned \cup Opened
             /\ ToldTrue(session[h])' /\ AnsweredTrue(session[h])'
  <2>1. session'[h] = IF Scope!IsLooking(session[h])
                      THEN [session[h] EXCEPT !.age = @ + 1] ELSE session[h]
    BY DEF Scope!Tick
  <2>2. Scope!IsLooking(session[h]) => session[h].age < Slowness BY DEF Scope!Tick
  <2>3. CASE session[h] \in Looked
    <3>1. PICK p \in Processes, a \in 0 .. Slowness :
            session[h] = [st |-> "lookup", at |-> p, age |-> a]
      BY <2>3 DEF Looked
    <3>2. session'[h] = [st |-> "lookup", at |-> p, age |-> a + 1] /\ a < Slowness
      BY <2>1, <2>2, <3>1 DEF Scope!IsLooking
    <3> QED BY <3>1, <3>2 DEF Looked, ToldTrue, AnsweredTrue
  <2>4. CASE session[h] \in Learned
    <3>1. PICK c \in Learned : c = session[h] BY <2>4
    <3>2. c.st = "answered" /\ c.at \in Processes /\ c.age \in 0 .. Slowness /\ c.of \in Scope!Names
          /\ c = [st |-> "answered", at |-> c.at, age |-> c.age, of |-> c.of]
      BY DEF Learned
    <3>3. session'[h] = [st |-> "answered", at |-> c.at, age |-> c.age + 1, of |-> c.of]
          /\ c.age < Slowness
      BY <2>1, <2>2, <3>1, <3>2 DEF Scope!IsLooking
    <3>4. c.of # Scope!Answer(owner) => ago[c.of] <= c.age
      BY <3>1, <3>2 DEF ScopeInv, AnsweredTrue
    <3>5. c.of # Scope!Answer(owner) => ago'[c.of] <= c.age + 1
      BY <3>2, <3>4, <1>2
    <3> QED BY <1>1, <3>2, <3>3, <3>5 DEF Learned, ToldTrue, AnsweredTrue, Scope!Answer
  <2>5. CASE session[h] \in Opened
    BY <2>1, <2>5 DEF ScopeInv, Scope!IsLooking, Opened, ToldTrue, AnsweredTrue
  <2>6. CASE session[h] = Scope!Idle
    BY <2>1, <2>6 DEF Scope!IsLooking, Scope!Idle, ToldTrue, AnsweredTrue
  <2> QED BY <2>3, <2>4, <2>5, <2>6 DEF ScopeInv
<1>5. session' = [h \in Handlers |-> session'[h]] BY DEF Scope!Tick
<1>6. Scope!TypeOK' BY <1>1, <1>2, <1>3 DEF ScopeInv, Scope!TypeOK
<1> QED BY <1>3, <1>4, <1>5, <1>6 DEF ScopeInv

LEMMA ScopeNext == ASSUME ScopeInv, [Scope!Next]_OfScope PROVE ScopeInv'
<1>1. CASE UNCHANGED OfScope
  BY <1>1 DEF OfScope, ScopeInv, Scope!TypeOK, ToldTrue, AnsweredTrue, RememberedTrue, Scope!Answer
<1>2. ASSUME NEW h \in Handlers, Scope!ArrivePlatform(h) PROVE ScopeInv'
  <2>1. PICK s : s = Scope!Session(Scope!Everyone) OBVIOUS
  <2>2. Scope!Everyone \in Tellable BY DEF Tellable
  <2>3. s \in Opened /\ ToldTrue(s) /\ AnsweredTrue(s) BY <2>1, <2>2, SessionIsTrue, Zenon
  <2> QED BY <1>2, <2>1, <2>3, ScopeTurns DEF Scope!ArrivePlatform
<1>3. ASSUME NEW h \in Handlers, session[h].st = "open"
      PROVE  ScopeInv => session[h] \in Opened /\ ToldTrue(session[h])
  BY <1>3 DEF ScopeInv, Looked, Learned, Opened, Scope!Idle
<1>4. ASSUME NEW h \in Handlers, Scope!Statement(h) PROVE ScopeInv'
  <2>1. PICK o \in Opened : o = session[h] /\ ToldTrue(o) BY <1>3, <1>4 DEF Scope!Statement
  <2>2. PICK s : s = Scope!Begun(o) OBVIOUS
  <2>3. s \in Opened /\ ToldTrue(s) /\ AnsweredTrue(s) BY <2>1, <2>2, BegunIsTrue, Zenon
  <2> QED BY <1>4, <2>1, <2>2, <2>3, ScopeTurns DEF Scope!Statement
<1>5. ASSUME NEW h \in Handlers, Scope!AdminScope(h) PROVE ScopeInv'
  <2>1. PICK t \in Tenants \cup {Scope!Everyone} :
          session' = [session EXCEPT ![h] = Scope!Told(session[h], t)]
    BY <1>5 DEF Scope!AdminScope, ScopeInv
  <2>2. PICK o \in Opened : o = session[h] BY <1>3, <1>5 DEF Scope!AdminScope
  <2>3. PICK s : s = Scope!Told(o, t) OBVIOUS
  <2>4. t \in Tellable BY DEF Tellable, Scope!Names
  <2>5. s \in Opened /\ ToldTrue(s) /\ AnsweredTrue(s) BY <2>3, <2>4, ToldIsTrue, Zenon
  <2> QED BY <1>5, <2>1, <2>2, <2>3, <2>5, ScopeTurns DEF Scope!AdminScope
<1>6. ASSUME NEW h \in Handlers, Scope!Commit(h) PROVE ScopeInv'
  <2>1. PICK o \in Opened : o = session[h] /\ ToldTrue(o) BY <1>3, <1>6 DEF Scope!Commit
  <2>2. Scope!Nobody \in Tellable BY ScopeNats DEF Tellable
  <2>3. PICK i, g, d \in Tellable, b \in BOOLEAN :
          o = SessionOf(i, g, b, d)
    BY OpenedIs, Zenon
  <2>8. PICK no \in BOOLEAN : no = FALSE OBVIOUS
  <2>6. PICK s : s = SessionOf(i, Scope!Nobody, no, d) OBVIOUS
  <2>7. s \in Opened BY <2>2, <2>6, OpenedType
  <2>4. ToldTrue(s) /\ AnsweredTrue(s)
    BY <2>1, <2>3, <2>6, <2>8 DEF ToldTrue, AnsweredTrue, SessionOf
  <2>5. session' = [session EXCEPT ![h] = s]
    <3>1. session' = [session EXCEPT ![h] = WithTx(o, no, Scope!Nobody)]
      BY <1>6, <2>1, <2>8 DEF Scope!Commit, ScopeInv, WithTx
    <3>2. WithTx(o, no, Scope!Nobody) = s
      BY <2>3, <2>6, OpenedChanges
    <3> QED BY <3>1, <3>2
  <2> QED BY <1>6, <2>4, <2>5, <2>7, ScopeTurns DEF Scope!Commit
<1>7. ASSUME NEW h \in Handlers, Scope!End(h) PROVE ScopeInv'
  <2>1. PICK s : s = Scope!Idle OBVIOUS
  <2>2. ToldTrue(s) /\ AnsweredTrue(s) BY <2>1 DEF ToldTrue, AnsweredTrue, Scope!Idle
  <2> QED BY <1>7, <2>1, <2>2, ScopeTurns DEF Scope!End
<1> QED
  BY <1>1, <1>2, <1>4, <1>5, <1>6, <1>7, ScopeArrives, ScopeQueries, ScopeRemembers,
     ScopeChanges, ScopeTicks DEF Scope!Next

LEMMA ScopeFollows == ASSUME ScopeInv PROVE Scope!ScopeHolds /\ Scope!AnswerIsFresh
BY Zenon DEF ScopeInv, Scope!ScopeHolds, Scope!AnswerIsFresh, ToldTrue, RememberedTrue

----------------------------------------------------------------------------
(* The answers to an offer, transaction by transaction *)

WalkT == [st : Races!Waiting \cup {"walker_accepted", "no_walker_found",
                                   "awaiting_tutor_reconfirmation", "ride_cancelled"},
          walker : Walkers]
OfferT == [walker : Walkers, st : {"pending", "accepted", "declined", "expired"}, due : BOOLEAN]
LoadedT == [op : {"sweep", "decline", "cancel", "accept"}, read : WalkT, mem : WalkT,
            todo : SUBSET Nat, done : SUBSET Nat, made : Seq(OfferT)]

\* What a request would write of the walk's walker is an offer it made.
MadeFits(r) ==
  /\ r.todo \cup r.done \subseteq DOMAIN offers /\ r.todo \cap r.done = {}
  /\ r.made = <<>> => r.mem.walker = r.read.walker
  /\ r.made # <<>> => r.mem.walker = r.made[Len(r.made)].walker
  /\ r.done = {} => r.made = <<>> /\ r.mem = r.read

\* Who accepts has the walk locked, as it was read, and its offer is pending.
AcceptFits(h, r, l) == r.op = "accept" =>
  /\ l = h /\ r.done = {} /\ r.read = search
  /\ \E n \in Races!Pending : r.todo = {n} /\ offers[n].walker = search.walker

\* Nobody else has closed what a request has closed.
ClosedAlone(h, r) == \A g \in Handlers \ {h} : r.done \cap request[g].done = {}

\* Of a request that closed an offer still open: it sends one offer more, to who was not
\* asked, or ends the search.
Substitutes(r) ==
  \/ r.made = <<>> /\ r.mem.st \in {"no_walker_found", "awaiting_tutor_reconfirmation"}
  \/ \E w \in Walkers :
       /\ r.made = <<Races!Offer(w)>> /\ r.mem = [st |-> "auto_rematching", walker |-> w]
       /\ \A m \in DOMAIN offers : offers[m].walker # w
       /\ Len(offers) + 1 <= MaxOffers

ClosesOne(r) ==
  /\ \E m \in Nat : r.todo \cup r.done \subseteq {m}
  /\ r.done # {} /\ r.done \subseteq Races!Pending => Substitutes(r)

RequestFits(h, r, l) ==
  r = Races!Blank \/ /\ r \in LoadedT /\ MadeFits(r) /\ AcceptFits(h, r, l) /\ ClosedAlone(h, r)
                     /\ ~overlaid => ClosesOne(r)

\* What holds unless requests crossed.
StatusFits ==
  /\ search.st \in Races!Waiting =>
       \E n \in Races!Pending : Races!Pending = {n} /\ offers[n].walker = search.walker
  /\ search.st = "walker_accepted" =>
       /\ Races!Pending = {}
       /\ \E n \in DOMAIN offers : offers[n].st = "accepted" /\ offers[n].walker = search.walker
  /\ search.st \in {"no_walker_found", "awaiting_tutor_reconfirmation"} => Races!Pending = {}

OffersFit ==
  /\ \A m, n \in Races!Pending : m = n
  /\ \A m, n \in DOMAIN offers : offers[m].walker = offers[n].walker => m = n
  /\ Len(offers) <= MaxOffers

WasAsked == \E n \in DOMAIN offers : offers[n].walker = search.walker

RacesInv ==
  /\ search \in WalkT /\ offers \in Seq(OfferT) /\ overlaid \in BOOLEAN
  /\ DOMAIN request = Handlers /\ request = [h \in Handlers |-> request[h]]
  /\ \A h \in Handlers : RequestFits(h, request[h], locker)
  /\ WasAsked
  /\ ~overlaid => StatusFits /\ OffersFit

LEMMA SeqFacts ==
  ASSUME NEW S, NEW s \in Seq(S)
  PROVE  /\ Len(s) \in Nat /\ DOMAIN s = 1 .. Len(s)
         /\ \A i \in DOMAIN s : s[i] \in S
OBVIOUS

LEMMA Mapped ==
  ASSUME NEW S, NEW n \in Nat, NEW f \in [1 .. n -> S]
  PROVE  f \in Seq(S) /\ Len(f) = n
OBVIOUS

LEMMA RacesNats == MaxOffers \in Nat \ {0} /\ \A h \in Handlers : h # "nobody"
BY RacesParameters DEF Races!ParametersAssumption

LEMMA PendingIs ==
  ASSUME offers \in Seq(OfferT)
  PROVE  /\ Races!Pending \subseteq DOMAIN offers /\ Races!Pending \subseteq Nat
         /\ DOMAIN offers = 1 .. Len(offers) /\ Len(offers) \in Nat
         /\ \A n \in Races!Pending : offers[n].st = "pending"
BY SeqFacts DEF Races!Pending

LEMMA OneOffer ==
  ASSUME NEW w \in Walkers
  PROVE  /\ Races!Offer(w) \in OfferT /\ Races!Offer(w).walker = w /\ Races!Offer(w).st = "pending"
         /\ <<Races!Offer(w)>> \in Seq(OfferT) /\ Len(<<Races!Offer(w)>>) = 1
         /\ <<Races!Offer(w)>>[1] = Races!Offer(w) /\ <<Races!Offer(w)>> # <<>>
<1>1. Races!Offer(w) \in OfferT /\ Races!Offer(w).walker = w /\ Races!Offer(w).st = "pending"
  BY DEF Races!Offer, OfferT
<1>2. PICK o \in OfferT : o = Races!Offer(w) BY <1>1
<1> QED BY <1>1, <1>2

LEMMA RacesInit == ASSUME Races!Init PROVE RacesInv
<1>1. PICK w \in Walkers :
        /\ search = [st |-> "pending_walker_confirmation", walker |-> w]
        /\ offers = <<Races!Offer(w)>>
  BY DEF Races!Init
<1>2. /\ search \in WalkT /\ offers \in Seq(OfferT) /\ Len(offers) = 1 /\ DOMAIN offers = {1}
      /\ offers[1].st = "pending" /\ offers[1].walker = w /\ search.walker = w
      /\ search.st = "pending_walker_confirmation"
  <2>1. search \in WalkT BY <1>1 DEF WalkT, Races!Waiting
  <2>2. offers \in Seq(OfferT) /\ Len(offers) = 1 BY <1>1, OneOffer
  <2>3. DOMAIN offers = 1 .. 1 BY <2>2, SeqFacts
  <2> QED BY <1>1, <2>1, <2>2, <2>3, OneOffer
<1>3. Races!Pending = {1} BY <1>2 DEF Races!Pending
<1>4. StatusFits /\ OffersFit /\ WasAsked
  BY <1>2, <1>3, RacesNats DEF StatusFits, OffersFit, WasAsked, Races!Waiting
<1> QED BY <1>2, <1>4 DEF Races!Init, RacesInv, RequestFits

\* What a request holds fits as long as the offers and the walk are what they are.
LEMMA FitsStill ==
  ASSUME UNCHANGED <<search, offers, overlaid>>, NEW h \in Handlers, NEW r, NEW l, NEW k,
         RequestFits(h, r, l), l = h => k = h, ClosedAlone(h, r) => ClosedAlone(h, r)'
  PROVE  RequestFits(h, r, k)'
<1>1. Races!Pending' = Races!Pending BY DEF Races!Pending
<1>2. MadeFits(r) => MadeFits(r)' BY DEF MadeFits
<1>3. ClosesOne(r) => ClosesOne(r)' BY <1>1 DEF ClosesOne, Substitutes
<1>4. AcceptFits(h, r, l) => AcceptFits(h, r, k)' BY <1>1 DEF AcceptFits
<1> QED BY <1>2, <1>3, <1>4, Zenon DEF RequestFits

\* A step of one request that writes nothing yet.
LEMMA RacesTurns ==
  ASSUME RacesInv, NEW h \in Handlers, UNCHANGED <<search, offers, overlaid>>,
         NEW r, request' = [request EXCEPT ![h] = r], RequestFits(h, r, locker'),
         locker' = locker \/ locker \in {h, "nobody"}
  PROVE  RacesInv'
<1> PICK l : l = locker OBVIOUS
<1> PICK k : k = locker' OBVIOUS
<1>1. /\ \A g \in Handlers : request'[g] = IF g = h THEN r ELSE request[g]
      /\ DOMAIN request' = Handlers /\ request' = [g \in Handlers |-> request'[g]]
  BY DEF RacesInv
<1>2. RequestFits(h, r, k)'
  <2>1. ClosedAlone(h, r) => ClosedAlone(h, r)' BY <1>1 DEF ClosedAlone
  <2> QED BY <2>1, FitsStill
<1>3. ASSUME NEW g \in Handlers, g # h PROVE RequestFits(g, request[g], locker)'
  <2>1. PICK q : q = request[g] OBVIOUS
  <2>2. RequestFits(g, q, l) BY <2>1 DEF RacesInv
  <2>3. ClosedAlone(g, q) => ClosedAlone(g, q)'
    <3>1. r.done \cap request[g].done = {}
      BY <1>3 DEF RequestFits, ClosedAlone, Races!Blank
    <3> QED BY <1>1, <2>1, <3>1 DEF ClosedAlone
  <2>4. l = g => k = g BY <1>3, RacesNats
  <2>5. RequestFits(g, q, k)' BY <2>2, <2>3, <2>4, FitsStill
  <2> QED BY <1>1, <1>3, <2>1, <2>5
<1>4. \A g \in Handlers : RequestFits(g, request[g], locker)' BY <1>1, <1>2, <1>3
<1>5. Races!Pending' = Races!Pending BY DEF Races!Pending
<1>6. (~overlaid => StatusFits /\ OffersFit)' /\ WasAsked'
  BY <1>5 DEF RacesInv, StatusFits, OffersFit, WasAsked
<1> QED BY <1>1, <1>4, <1>6 DEF RacesInv

LEMMA LoadedFits ==
  ASSUME RacesInv, NEW h \in Handlers, NEW op \in {"sweep", "decline", "cancel", "accept"},
         NEW todo \in SUBSET Races!Pending, NEW l,
         op = "accept" => l = h /\ \E n \in Races!Pending :
                                     todo = {n} /\ offers[n].walker = search.walker
  PROVE  RequestFits(h, [op |-> op, read |-> search, mem |-> search,
                         todo |-> todo, done |-> {}, made |-> <<>>], l)
<1> PICK none \in SUBSET Nat : none = {} OBVIOUS
<1> PICK empty \in Seq(OfferT) : empty = <<>> BY EmptySeq
<1>1. todo \in SUBSET Nat /\ todo \subseteq DOMAIN offers BY PendingIs DEF RacesInv
<1>2. PICK r \in LoadedT :
        r = [op |-> op, read |-> search, mem |-> search, todo |-> todo, done |-> none, made |-> empty]
  <2>1. [op |-> op, read |-> search, mem |-> search, todo |-> todo, done |-> none, made |-> empty]
          \in LoadedT
    BY <1>1 DEF LoadedT, RacesInv
  <2> QED BY <2>1
<1>3. /\ r.op = op /\ r.read = search /\ r.mem = search /\ r.todo = todo
      /\ r.done = {} /\ r.made = <<>>
  BY <1>2
<1>4. MadeFits(r) /\ ClosedAlone(h, r) /\ AcceptFits(h, r, l)
  BY <1>1, <1>3 DEF MadeFits, ClosedAlone, AcceptFits
<1>5. ~overlaid => ClosesOne(r)
  <2>1. ~overlaid => \E m \in Nat : todo \subseteq {m}
    BY PendingIs DEF RacesInv, OffersFit
  <2> QED BY <1>3, <2>1 DEF ClosesOne
<1> QED BY <1>2, <1>4, <1>5 DEF RequestFits

LEMMA RacesBegins ==
  ASSUME RacesInv, NEW h \in Handlers,
         \/ Races!BeginSweep(h) \/ Races!BeginDecline(h)
         \/ Races!BeginCancel(h) \/ Races!BeginAccept(h)
  PROVE  RacesInv'
<1> PICK k : k = locker' OBVIOUS
<1>1. PICK op \in {"sweep", "decline", "cancel", "accept"}, todo \in SUBSET Races!Pending :
        /\ Races!Loads(h, op, todo) /\ (k = locker \/ k = h)
        /\ op = "accept" => k = h /\ \E n \in Races!Pending :
                                       todo = {n} /\ offers[n].walker = search.walker
  <2>1. CASE Races!BeginSweep(h)
    <3>1. Races!Due \in SUBSET Races!Pending BY DEF Races!Due
    <3>2. Races!Loads(h, "sweep", Races!Due) /\ k = locker
      BY <2>1 DEF Races!BeginSweep, Races!Reads
    <3> QED BY <3>1, <3>2
  <2>2. CASE Races!BeginDecline(h)
    <3>1. PICK n \in Races!Pending : Races!Reads(h, "decline", {n})
      BY <2>2, Zenon DEF Races!BeginDecline
    <3>2. Races!Loads(h, "decline", {n}) /\ k = locker BY <3>1, Zenon DEF Races!Reads
    <3>3. {n} \in SUBSET Races!Pending OBVIOUS
    <3> QED BY <3>2, <3>3
  <2>3. CASE Races!BeginCancel(h)
    <3>1. Races!Loads(h, "cancel", {}) /\ k = locker
      BY <2>3, Zenon DEF Races!BeginCancel, Races!Reads
    <3>2. {} \in SUBSET Races!Pending OBVIOUS
    <3> QED BY <3>1, <3>2
  <2>4. CASE Races!BeginAccept(h)
    <3>1. PICK n \in Races!Pending :
            /\ k = h /\ Races!MayAccept(n) /\ Races!Loads(h, "accept", {n})
      BY <2>4, Zenon DEF Races!BeginAccept
    <3>2. offers[n].walker = search.walker BY <3>1 DEF Races!MayAccept
    <3>3. {n} \in SUBSET Races!Pending OBVIOUS
    <3> QED BY <3>1, <3>2, <3>3
  <2> QED BY <2>1, <2>2, <2>3, <2>4
<1>2. PICK r : r = [op |-> op, read |-> search, mem |-> search,
                    todo |-> todo, done |-> {}, made |-> <<>>]
  OBVIOUS
<1>3. RequestFits(h, r, k) BY <1>1, <1>2, LoadedFits, Zenon
<1>4. request' = [request EXCEPT ![h] = r] /\ UNCHANGED <<search, offers, overlaid>>
  BY <1>1, <1>2, Zenon DEF Races!Loads
<1>5. locker' = locker \/ locker \in {h, "nobody"}
  BY <1>1 DEF Races!BeginSweep, Races!BeginDecline, Races!BeginCancel, Races!BeginAccept, Races!Reads
<1> QED BY <1>3, <1>4, <1>5, RacesTurns

\* What is loaded, by its fields.
RequestOf(op, read, mem, todo, done, made) ==
  [op |-> op, read |-> read, mem |-> mem, todo |-> todo, done |-> done, made |-> made]

LEMMA LoadedIs ==
  ASSUME NEW q \in LoadedT
  PROVE  q = RequestOf(q.op, q.read, q.mem, q.todo, q.done, q.made)
BY DEF LoadedT, RequestOf

LEMMA LoadedType ==
  ASSUME NEW op \in {"sweep", "decline", "cancel", "accept"}, NEW read \in WalkT, NEW mem \in WalkT,
         NEW todo \in SUBSET Nat, NEW done \in SUBSET Nat, NEW made \in Seq(OfferT)
  PROVE  RequestOf(op, read, mem, todo, done, made) \in LoadedT
BY DEF LoadedT, RequestOf

\* A request with one offer less to close, and with one more closed.
LEMMA ClosedIs ==
  ASSUME NEW q \in LoadedT, NEW n
  PROVE  /\ [q EXCEPT !.todo = @ \ {n}] =
              RequestOf(q.op, q.read, q.mem, q.todo \ {n}, q.done, q.made)
         /\ [q EXCEPT !.todo = @ \ {n}, !.done = @ \cup {n}] =
              RequestOf(q.op, q.read, q.mem, q.todo \ {n}, q.done \cup {n}, q.made)
<1>1. [q EXCEPT !.todo = @ \ {n}] = RequestOf(q.op, q.read, q.mem, q.todo \ {n}, q.done, q.made)
  BY LoadedIs DEF RequestOf
<1>2. [q EXCEPT !.todo = @ \ {n}, !.done = @ \cup {n}] =
        [[q EXCEPT !.todo = @ \ {n}] EXCEPT !.done = @ \cup {n}]
  OBVIOUS
<1>3. PICK p : p = RequestOf(q.op, q.read, q.mem, q.todo \ {n}, q.done, q.made) OBVIOUS
<1>4. [p EXCEPT !.done = @ \cup {n}] =
        RequestOf(q.op, q.read, q.mem, q.todo \ {n}, q.done \cup {n}, q.made)
  BY <1>3 DEF RequestOf
<1> QED BY <1>1, <1>2, <1>3, <1>4

LEMMA RematchedIs ==
  ASSUME NEW q \in LoadedT, NEW n \in q.todo, NEW r \in Races!Rematched(q, n)
  PROVE  \/ \E st \in {"no_walker_found", "awaiting_tutor_reconfirmation"} :
              r = RequestOf(q.op, q.read, [st |-> st, walker |-> q.mem.walker],
                            q.todo \ {n}, q.done \cup {n}, q.made)
         \/ \E w \in Walkers :
              /\ ~(Len(offers \o q.made) + 1 > MaxOffers)
              /\ \A m \in DOMAIN (offers \o q.made) : (offers \o q.made)[m].walker # w
              /\ r = RequestOf(q.op, q.read, [st |-> "auto_rematching", walker |-> w],
                               q.todo \ {n}, q.done \cup {n}, Append(q.made, Races!Offer(w)))
<1> DEFINE c == [q EXCEPT !.todo = @ \ {n}, !.done = @ \cup {n}]
           sent == offers \o q.made
           S == {[c EXCEPT !.mem = [st |-> "auto_rematching", walker |-> w],
                           !.made = Append(@, Races!Offer(w))] :
                   w \in Walkers \ {sent[m].walker : m \in DOMAIN sent}}
<1>1. Races!Rematched(q, n) = IF Len(sent) + 1 > MaxOffers
                              THEN {[c EXCEPT !.mem.st = "awaiting_tutor_reconfirmation"]}
                              ELSE {[c EXCEPT !.mem.st = "no_walker_found"]} \cup S
  BY Zenon DEF Races!Rematched
<1>2. c = RequestOf(q.op, q.read, q.mem, q.todo \ {n}, q.done \cup {n}, q.made)
  BY ClosedIs
<1> HIDE DEF c, sent
<1>3. q.mem = [st |-> q.mem.st, walker |-> q.mem.walker] BY DEF LoadedT, WalkT
<1>4. ASSUME NEW st
      PROVE  [c EXCEPT !.mem.st = st] =
               RequestOf(q.op, q.read, [st |-> st, walker |-> q.mem.walker],
                         q.todo \ {n}, q.done \cup {n}, q.made)
  <2>1. [c EXCEPT !.mem.st = st] = [c EXCEPT !.mem = [q.mem EXCEPT !.st = st]]
    BY <1>2 DEF RequestOf
  <2>2. PICK m : m = [q.mem EXCEPT !.st = st] OBVIOUS
  <2>3. m = [st |-> st, walker |-> q.mem.walker] BY <1>3, <2>2
  <2>4. [c EXCEPT !.mem = m] = RequestOf(q.op, q.read, m, q.todo \ {n}, q.done \cup {n}, q.made)
    BY <1>2 DEF RequestOf
  <2> QED BY <2>1, <2>2, <2>3, <2>4
<1>5. ASSUME NEW m, NEW o
      PROVE  [c EXCEPT !.mem = m, !.made = Append(@, o)] =
               RequestOf(q.op, q.read, m, q.todo \ {n}, q.done \cup {n}, Append(q.made, o))
  <2>1. [c EXCEPT !.mem = m, !.made = Append(@, o)] =
          [[c EXCEPT !.mem = m] EXCEPT !.made = Append(@, o)]
    OBVIOUS
  <2>2. PICK p : p = RequestOf(q.op, q.read, m, q.todo \ {n}, q.done \cup {n}, q.made) OBVIOUS
  <2>3. [c EXCEPT !.mem = m] = p BY <1>2, <2>2 DEF RequestOf
  <2>4. [p EXCEPT !.made = Append(@, o)] =
          RequestOf(q.op, q.read, m, q.todo \ {n}, q.done \cup {n}, Append(q.made, o))
    <3>1. PICK z : z = Append(q.made, o) OBVIOUS
    <3>2. p.made = q.made BY <2>2 DEF RequestOf
    <3>3. [p EXCEPT !.made = Append(@, o)] = [p EXCEPT !.made = z] BY <3>1, <3>2
    <3>4. [p EXCEPT !.made = z] =
            RequestOf(q.op, q.read, m, q.todo \ {n}, q.done \cup {n}, z)
      BY <2>2 DEF RequestOf
    <3> QED BY <3>1, <3>3, <3>4
  <2> QED BY <2>1, <2>3, <2>4
<1> HIDE DEF S
<1>6. CASE Len(sent) + 1 > MaxOffers
  <2>1. r = [c EXCEPT !.mem.st = "awaiting_tutor_reconfirmation"]
    BY <1>1, <1>6
  <2> QED BY <1>4, <2>1
<1>7. CASE ~(Len(sent) + 1 > MaxOffers)
  <2>1. \/ r = [c EXCEPT !.mem.st = "no_walker_found"]
        \/ \E w \in Walkers \ {sent[m].walker : m \in DOMAIN sent} :
             r = [c EXCEPT !.mem = [st |-> "auto_rematching", walker |-> w],
                           !.made = Append(@, Races!Offer(w))]
    <3>1. r = [c EXCEPT !.mem.st = "no_walker_found"] \/ r \in S BY <1>1, <1>7
    <3> USE DEF S
    <3>2. r \in S => \E w \in Walkers \ {sent[m].walker : m \in DOMAIN sent} :
                      r = [c EXCEPT !.mem = [st |-> "auto_rematching", walker |-> w],
                                    !.made = Append(@, Races!Offer(w))]
      OBVIOUS
    <3> HIDE DEF S
    <3> QED BY <3>1, <3>2
  <2>2. CASE r = [c EXCEPT !.mem.st = "no_walker_found"] BY <1>4, <2>2
  <2>3. ASSUME NEW w \in Walkers \ {sent[m].walker : m \in DOMAIN sent},
               r = [c EXCEPT !.mem = [st |-> "auto_rematching", walker |-> w],
                             !.made = Append(@, Races!Offer(w))]
        PROVE  r = RequestOf(q.op, q.read, [st |-> "auto_rematching", walker |-> w],
                             q.todo \ {n}, q.done \cup {n}, Append(q.made, Races!Offer(w)))
               /\ \A m \in DOMAIN sent : sent[m].walker # w
    <3>1. PICK m : m = [st |-> "auto_rematching", walker |-> w] OBVIOUS
    <3>2. PICK o : o = Races!Offer(w) OBVIOUS
    <3> QED BY <1>5, <2>3, <3>1, <3>2
  <2> QED BY <1>7, <2>1, <2>2, <2>3 DEF sent
<1> QED BY <1>6, <1>7

\* A request that closes one offer more, one that nobody else has closed, and changes its walk
\* as it should.
LEMMA OneMoreClosed ==
  ASSUME RacesInv, NEW h \in Handlers, NEW q \in LoadedT, NEW n \in q.todo, NEW l, NEW k,
         RequestFits(h, q, l), q.op \in {"sweep", "decline"}, Races!IsUnlocked(h, n),
         NEW mem \in WalkT, NEW made \in Seq(OfferT), NEW r,
         r = RequestOf(q.op, q.read, mem, q.todo \ {n}, q.done \cup {n}, made),
         made = <<>> => mem.walker = q.read.walker,
         made # <<>> => mem.walker = made[Len(made)].walker,
         q.done = {} => Substitutes(r)
  PROVE  RequestFits(h, r, k)
<1>1. /\ MadeFits(q) /\ ClosedAlone(h, q) /\ (~overlaid => ClosesOne(q))
      /\ n \in Nat /\ q.read \in WalkT /\ q.todo \in SUBSET Nat /\ q.done \in SUBSET Nat
  BY DEF RequestFits, LoadedT, Races!Blank
<1>2. /\ r.op = q.op /\ r.read = q.read /\ r.mem = mem /\ r.made = made
      /\ r.todo = q.todo \ {n} /\ r.done = q.done \cup {n}
  BY DEF RequestOf
<1>3. r \in LoadedT
  <2>1. PICK o \in {"sweep", "decline", "cancel", "accept"} : o = q.op OBVIOUS
  <2>2. PICK a \in SUBSET Nat, b \in SUBSET Nat : a = q.todo \ {n} /\ b = q.done \cup {n}
    BY <1>1
  <2> QED BY <1>1, <2>1, <2>2, LoadedType
<1>4. MadeFits(r) BY <1>1, <1>2 DEF MadeFits
<1>5. ClosedAlone(h, r) BY <1>1, <1>2 DEF ClosedAlone, Races!IsUnlocked
<1>6. AcceptFits(h, r, k) BY <1>2 DEF AcceptFits
<1>7. ~overlaid => ClosesOne(r)
  <2>1. SUFFICES ASSUME ~overlaid PROVE ClosesOne(r) OBVIOUS
  <2>2. PICK m \in Nat : q.todo \cup q.done \subseteq {m} BY <1>1, <2>1 DEF ClosesOne
  <2>3. q.done = {} BY <1>1, <2>2 DEF MadeFits
  <2>4. r.todo \cup r.done \subseteq {m} BY <1>2, <2>2
  <2> QED BY <2>3, <2>4 DEF ClosesOne
<1> QED BY <1>3, <1>4, <1>5, <1>6, <1>7 DEF RequestFits

LEMMA ClosedFits ==
  ASSUME RacesInv, NEW h \in Handlers, NEW q \in LoadedT, NEW n \in q.todo, NEW l, NEW k,
         RequestFits(h, q, l), q.op \in {"sweep", "decline"}, Races!IsUnlocked(h, n),
         NEW r \in Races!Rematched(q, n)
  PROVE  RequestFits(h, r, k)
<1>1. MadeFits(q) /\ q.made \in Seq(OfferT) /\ q.mem \in WalkT
  BY DEF RequestFits, LoadedT, Races!Blank
<1>2. ASSUME NEW st \in {"no_walker_found", "awaiting_tutor_reconfirmation"},
             r = RequestOf(q.op, q.read, [st |-> st, walker |-> q.mem.walker],
                           q.todo \ {n}, q.done \cup {n}, q.made)
      PROVE  RequestFits(h, r, k)
  <2>1. PICK mem \in WalkT : mem = [st |-> st, walker |-> q.mem.walker] /\ mem.st = st
                             /\ mem.walker = q.mem.walker
    <3>1. q.mem.walker \in Walkers BY <1>1 DEF WalkT
    <3>2. [st |-> st, walker |-> q.mem.walker] \in WalkT BY <3>1 DEF WalkT
    <3> QED BY <3>2
  <2>2. PICK made \in Seq(OfferT) : made = q.made BY <1>1
  <2>3. r.made = made /\ r.mem = mem BY <1>2, <2>1, <2>2 DEF RequestOf
  <2>4. q.done = {} => Substitutes(r) BY <1>1, <2>1, <2>2, <2>3 DEF MadeFits, Substitutes
  <2>5. /\ made = <<>> => mem.walker = q.read.walker
        /\ made # <<>> => mem.walker = made[Len(made)].walker
    BY <1>1, <2>1, <2>2 DEF MadeFits
  <2>6. r = RequestOf(q.op, q.read, mem, q.todo \ {n}, q.done \cup {n}, made)
    BY <1>2, <2>1, <2>2
  <2> QED BY <2>4, <2>5, <2>6, OneMoreClosed
<1>3. ASSUME NEW w \in Walkers, ~(Len(offers \o q.made) + 1 > MaxOffers),
             \A m \in DOMAIN (offers \o q.made) : (offers \o q.made)[m].walker # w,
             r = RequestOf(q.op, q.read, [st |-> "auto_rematching", walker |-> w],
                           q.todo \ {n}, q.done \cup {n}, Append(q.made, Races!Offer(w)))
      PROVE  RequestFits(h, r, k)
  <2>1. PICK mem \in WalkT : mem = [st |-> "auto_rematching", walker |-> w] /\ mem.walker = w
    <3>1. [st |-> "auto_rematching", walker |-> w] \in WalkT BY DEF WalkT, Races!Waiting
    <3> QED BY <3>1
  <2>2. PICK o \in OfferT : o = Races!Offer(w) /\ o.walker = w BY OneOffer
  <2>3. PICK made \in Seq(OfferT) : /\ made = Append(q.made, o) /\ Len(made) = Len(q.made) + 1
                                    /\ made[Len(made)] = o /\ Len(q.made) \in Nat
    <3>1. PICK s \in Seq(OfferT) : s = q.made BY <1>1
    <3>2. Len(s) \in Nat BY SeqFacts
    <3>3. /\ Append(s, o) \in Seq(OfferT) /\ Len(Append(s, o)) = Len(s) + 1
          /\ Append(s, o)[Len(s) + 1] = o
      BY <3>2, AppendProperties
    <3> QED BY <3>1, <3>2, <3>3
  <2>4. made # <<>> BY <2>3, EmptySeq
  <2>5. r.made = made /\ r.mem = mem BY <1>3, <2>1, <2>2, <2>3 DEF RequestOf
  <2>6. q.done = {} => Substitutes(r)
    <3>1. SUFFICES ASSUME q.done = {} PROVE Substitutes(r) OBVIOUS
    <3>2. q.made = <<>> BY <1>1, <3>1 DEF MadeFits
    <3>3. offers \o q.made = offers /\ Len(offers) \in Nat
      BY <3>2, ConcatEmptySeq, SeqFacts DEF RacesInv
    <3>4. made = <<Races!Offer(w)>> BY <2>2, <2>3, <3>2
    <3>5. Len(offers) + 1 <= MaxOffers BY <1>3, <3>3, RacesNats
    <3> QED BY <1>3, <2>1, <2>5, <3>3, <3>4, <3>5 DEF Substitutes
  <2>7. r = RequestOf(q.op, q.read, mem, q.todo \ {n}, q.done \cup {n}, made)
    BY <1>3, <2>1, <2>2, <2>3
  <2> QED BY <2>1, <2>2, <2>3, <2>4, <2>6, <2>7, OneMoreClosed
<1> QED BY <1>2, <1>3, RematchedIs

LEMMA RacesCloses ==
  ASSUME RacesInv, NEW h \in Handlers, NEW n, Races!Closes(h, n)
  PROVE  RacesInv'
<1> PICK l : l = locker OBVIOUS
<1> PICK k : k = locker' OBVIOUS
<1>1. PICK q \in LoadedT : q = request[h] /\ RequestFits(h, q, l)
  <2>1. request[h] # Races!Blank BY DEF Races!Closes, Races!Blank
  <2>2. RequestFits(h, request[h], l) BY DEF RacesInv
  <2> QED BY <2>1, <2>2 DEF RequestFits
<1>2. q.op \in {"sweep", "decline"} /\ n \in q.todo /\ Races!IsUnlocked(h, n)
      /\ UNCHANGED <<search, offers, overlaid>> /\ (k = locker \/ locker = "nobody")
  BY <1>1 DEF Races!Closes
<1>3. CASE q.op = "sweep" /\ q.mem.st \notin Races!Waiting
  <2>1. request' = [request EXCEPT ![h].todo = @ \ {n}] BY <1>1, <1>3 DEF Races!Closes
  <2>2. PICK r : r = RequestOf(q.op, q.read, q.mem, q.todo \ {n}, q.done, q.made) OBVIOUS
  <2>3. [q EXCEPT !.todo = @ \ {n}] = r BY <2>2, ClosedIs
  <2>4. request' = [request EXCEPT ![h] = r] BY <1>1, <2>1, <2>3
  <2>5. /\ r.op = q.op /\ r.read = q.read /\ r.mem = q.mem /\ r.made = q.made
        /\ r.todo = q.todo \ {n} /\ r.done = q.done
    BY <2>2 DEF RequestOf
  <2>6. r \in LoadedT
    <3>1. [q EXCEPT !.todo = @ \ {n}] \in LoadedT BY DEF LoadedT
    <3> QED BY <2>3, <3>1
  <2>7. RequestFits(h, r, k)
    <3>1. MadeFits(q) /\ ClosedAlone(h, q) /\ (~overlaid => ClosesOne(q))
      BY <1>1 DEF RequestFits, LoadedT, Races!Blank
    <3>2. MadeFits(r) /\ ClosedAlone(h, r) BY <2>5, <3>1 DEF MadeFits, ClosedAlone
    <3>3. AcceptFits(h, r, k) BY <1>2, <2>5 DEF AcceptFits
    <3>4. ~overlaid => ClosesOne(r) BY <2>5, <3>1 DEF ClosesOne, Substitutes
    <3> QED BY <2>6, <3>2, <3>3, <3>4 DEF RequestFits
  <2> QED BY <1>2, <2>4, <2>7, RacesTurns
<1>4. CASE ~(q.op = "sweep" /\ q.mem.st \notin Races!Waiting)
  <2>1. PICK r \in Races!Rematched(q, n) : request' = [request EXCEPT ![h] = r]
    BY <1>1, <1>4 DEF Races!Closes
  <2>2. RequestFits(h, r, k) BY <1>1, <1>2, ClosedFits
  <2> QED BY <1>2, <2>1, <2>2, RacesTurns
<1> QED BY <1>3, <1>4

LEMMA RacesEnds ==
  ASSUME RacesInv, NEW h \in Handlers, Races!Ends(h)
  PROVE  RacesInv'
<1> PICK r : r = Races!Blank OBVIOUS
<1>1. RequestFits(h, r, locker') BY DEF RequestFits
<1> QED BY <1>1, RacesTurns DEF Races!Ends

LEMMA RacesElapses == ASSUME RacesInv, Races!TimePasses PROVE RacesInv'
<1>1. PICK n \in Races!Pending : offers' = [offers EXCEPT ![n].due = TRUE]
  BY DEF Races!TimePasses
<1>2. UNCHANGED <<search, request, locker, overlaid>> BY DEF Races!TimePasses
<1> PICK yes \in BOOLEAN : yes = TRUE OBVIOUS
<1>3. PICK o \in OfferT : /\ o = [offers[n] EXCEPT !.due = yes] /\ o.walker = offers[n].walker
                          /\ o.st = offers[n].st
  <2>1. offers[n] \in OfferT BY PendingIs, SeqFacts DEF RacesInv
  <2>2. PICK w \in Walkers, st \in {"pending", "accepted", "declined", "expired"}, b \in BOOLEAN :
          offers[n] = [walker |-> w, st |-> st, due |-> b]
    BY <2>1 DEF OfferT
  <2>5. PICK x : x = b OBVIOUS
  <2>6. PICK y : y = yes OBVIOUS
  <2>7. PICK p : p = [walker |-> w, st |-> st, due |-> x] /\ p = offers[n] BY <2>2, <2>5
  <2>8. [p EXCEPT !.due = y] = [walker |-> w, st |-> st, due |-> y] BY <2>7
  <2>3. [offers[n] EXCEPT !.due = yes] = [walker |-> w, st |-> st, due |-> yes]
    BY <2>6, <2>7, <2>8
  <2>4. [walker |-> w, st |-> st, due |-> yes] \in OfferT BY DEF OfferT
  <2> QED BY <2>2, <2>3, <2>4
<1>4. /\ offers' = [offers EXCEPT ![n] = o] /\ n \in DOMAIN offers
      /\ offers \in Seq(OfferT)
  BY <1>1, <1>3, PendingIs DEF RacesInv
<1>5. /\ offers' \in Seq(OfferT) /\ Len(offers') = Len(offers) /\ DOMAIN offers' = DOMAIN offers
      /\ \A m \in DOMAIN offers : /\ offers'[m].walker = offers[m].walker
                                  /\ offers'[m].st = offers[m].st
  BY <1>3, <1>4, ExceptSeq, SeqFacts
<1>6. Races!Pending' = Races!Pending BY <1>5 DEF Races!Pending
<1>7. StatusFits => StatusFits' BY <1>2, <1>5, <1>6 DEF StatusFits, Races!Pending
<1>8. (OffersFit => OffersFit') /\ WasAsked'
  BY <1>2, <1>5, <1>6 DEF OffersFit, WasAsked, RacesInv
<1>9. ASSUME NEW h \in Handlers PROVE RequestFits(h, request[h], locker)'
  <2> PICK r : r = request[h] OBVIOUS
  <2> PICK l : l = locker OBVIOUS
  <2>1. RequestFits(h, r, l) BY DEF RacesInv
  <2>2. MadeFits(r) => MadeFits(r)' BY <1>5 DEF MadeFits
  <2>3. AcceptFits(h, r, l) => AcceptFits(h, r, l)'
    BY <1>2, <1>5, <1>6, PendingIs DEF AcceptFits, RacesInv
  <2>4. ClosesOne(r) => ClosesOne(r)' BY <1>5, <1>6 DEF ClosesOne, Substitutes
  <2>5. ClosedAlone(h, r) => ClosedAlone(h, r)' BY <1>2 DEF ClosedAlone
  <2>6. RequestFits(h, r, l)'
    BY <1>2, <2>1, <2>2, <2>3, <2>4, <2>5, Zenon DEF RequestFits
  <2> QED BY <1>2, <2>6
<1> QED BY <1>2, <1>5, <1>7, <1>8, <1>9 DEF RacesInv

\* Whoever does not have the walk locked accepts nothing.
LEMMA NoAccept ==
  ASSUME RacesInv, NEW g \in Handlers, locker # g
  PROVE  request[g] # Races!Blank => request[g].op # "accept"
BY DEF RacesInv, RequestFits, AcceptFits

\* What a commit does to the offers.
LEMMA CommittedOffers ==
  ASSUME offers \in Seq(OfferT), NEW q \in LoadedT, NEW op, q.op = op,
         offers' = [n \in DOMAIN offers |-> IF n \notin q.done THEN offers[n] ELSE
                      [offers[n] EXCEPT !.st = IF op = "sweep" THEN "expired" ELSE "declined"]]
                   \o q.made
  PROVE  /\ offers' \in Seq(OfferT) /\ Len(offers') = Len(offers) + Len(q.made)
         /\ DOMAIN offers \subseteq DOMAIN offers' /\ Len(q.made) \in Nat
         /\ \A m \in DOMAIN offers :
              /\ offers'[m].walker = offers[m].walker
              /\ m \notin q.done => offers'[m].st = offers[m].st
              /\ m \in q.done => offers'[m].st # "pending"
         /\ \A m \in DOMAIN offers' \ DOMAIN offers :
              m - Len(offers) \in DOMAIN q.made /\ offers'[m] = q.made[m - Len(offers)]
<1> PICK x \in {"expired", "declined"} : x = IF op = "sweep" THEN "expired" ELSE "declined"
  OBVIOUS
<1> PICK d : d = q.done OBVIOUS
<1> PICK f : f = [n \in DOMAIN offers |-> IF n \notin d THEN offers[n]
                                          ELSE [offers[n] EXCEPT !.st = x]]
  OBVIOUS
<1>1. DOMAIN offers = 1 .. Len(offers) /\ Len(offers) \in Nat
      /\ \A n \in DOMAIN offers : offers[n] \in OfferT
  BY SeqFacts
<1>2. ASSUME NEW n \in DOMAIN offers
      PROVE  /\ f[n] \in OfferT /\ f[n].walker = offers[n].walker
             /\ f[n].st = IF n \in d THEN x ELSE offers[n].st
  <2>1. CASE n \notin d BY <1>1, <2>1
  <2>2. CASE n \in d
    <3>1. f[n] = [offers[n] EXCEPT !.st = x] BY <2>2
    <3>2. offers[n] \in OfferT BY <1>1
    <3> QED BY <2>2, <3>1, <3>2 DEF OfferT
  <2> QED BY <2>1, <2>2
<1>3. f \in [1 .. Len(offers) -> OfferT] BY <1>1, <1>2
<1>4. f \in Seq(OfferT) /\ Len(f) = Len(offers)
  <2>1. f \in Seq(OfferT) BY <1>1, <1>3, SeqDef
  <2> QED BY <1>1, <1>3, <2>1, LenProperties
<1>5. q.made \in Seq(OfferT) BY DEF LoadedT
<1> PICK s \in Seq(OfferT) : s = q.made BY <1>5
<1>6. offers' = f \o s OBVIOUS
<1>7. /\ f \o s \in Seq(OfferT) /\ Len(f \o s) = Len(f) + Len(s) /\ Len(s) \in Nat
      /\ \A i \in 1 .. Len(f) + Len(s) : (f \o s)[i] = IF i <= Len(f) THEN f[i] ELSE s[i - Len(f)]
  BY <1>4, ConcatProperties, SeqFacts
<1>8. DOMAIN offers' = 1 .. Len(offers) + Len(s) BY <1>4, <1>6, <1>7, SeqFacts
<1>9. \A m \in DOMAIN offers : offers'[m] = f[m] BY <1>1, <1>4, <1>6, <1>7
<1>10. \A m \in DOMAIN offers' \ DOMAIN offers :
         m - Len(offers) \in DOMAIN s /\ offers'[m] = s[m - Len(offers)]
  <2>1. DOMAIN s = 1 .. Len(s) BY SeqFacts
  <2> QED BY <1>1, <1>4, <1>6, <1>7, <1>8, <2>1
<1> QED BY <1>1, <1>2, <1>4, <1>6, <1>7, <1>8, <1>9, <1>10

LEMMA RacesCommits ==
  ASSUME RacesInv, NEW h \in Handlers, Races!Commit(h)
  PROVE  RacesInv'
<1>1. PICK q \in LoadedT : q = request[h] /\ MadeFits(q) /\ ClosedAlone(h, q)
                           /\ (~overlaid => ClosesOne(q)) /\ AcceptFits(h, q, locker)
  BY DEF RacesInv, RequestFits, Races!Commit, Races!Blank
<1>2. /\ q.done # {} /\ q.todo = {} /\ locker \in {h, "nobody"} /\ locker' = "nobody"
      /\ search' = Races!Written(q) /\ request' = [request EXCEPT ![h] = Races!Blank]
      /\ overlaid' = (overlaid \/ Races!Overwrites(q))
  BY <1>1 DEF Races!Commit
<1>3. offers' = [n \in DOMAIN offers |-> IF n \notin q.done THEN offers[n] ELSE
                   [offers[n] EXCEPT !.st = IF q.op = "sweep" THEN "expired" ELSE "declined"]]
                \o q.made
  BY <1>1 DEF Races!Commit
<1>4. /\ offers' \in Seq(OfferT) /\ Len(offers') = Len(offers) + Len(q.made)
      /\ DOMAIN offers \subseteq DOMAIN offers' /\ Len(q.made) \in Nat
      /\ \A m \in DOMAIN offers :
           /\ offers'[m].walker = offers[m].walker
           /\ m \notin q.done => offers'[m].st = offers[m].st
           /\ m \in q.done => offers'[m].st # "pending"
      /\ \A m \in DOMAIN offers' \ DOMAIN offers :
           m - Len(offers) \in DOMAIN q.made /\ offers'[m] = q.made[m - Len(offers)]
  <2>1. offers \in Seq(OfferT) BY DEF RacesInv
  <2> QED BY <1>3, <2>1, CommittedOffers
<1>5. PICK st : st = IF q.mem.st # q.read.st \/ q.op = "decline" THEN q.mem.st ELSE search.st
  OBVIOUS
<1>6. PICK w : w = IF q.mem.walker # q.read.walker THEN q.mem.walker ELSE search.walker
  OBVIOUS
<1>7. search' = [st |-> st, walker |-> w] BY <1>2, <1>5, <1>6 DEF Races!Written
<1>8. search' \in WalkT
  <2>1. q.mem \in WalkT /\ search \in WalkT BY DEF LoadedT, RacesInv
  <2> QED BY <1>5, <1>6, <1>7, <2>1 DEF WalkT
<1>9. WasAsked'
  <2>1. CASE w = search.walker
    BY <1>4, <1>7, <2>1 DEF WasAsked, RacesInv
  <2>2. CASE w # search.walker
    <3>1. q.made # <<>> /\ w = q.made[Len(q.made)].walker BY <1>1, <1>6, <2>2 DEF MadeFits
    <3>2. q.made \in Seq(OfferT) /\ offers \in Seq(OfferT) BY DEF LoadedT, RacesInv
    <3>3. Len(q.made) >= 1 /\ Len(offers) \in Nat BY <1>4, <3>1, <3>2, EmptySeq, SeqFacts
    <3>4. DOMAIN offers' = 1 .. Len(offers) + Len(q.made) /\ DOMAIN offers = 1 .. Len(offers)
      BY <1>4, <3>2, SeqFacts
    <3>5. offers'[Len(offers) + Len(q.made)] = q.made[Len(q.made)]
      BY <1>4, <3>3, <3>4
    <3> QED BY <1>4, <1>7, <3>1, <3>3, <3>4, <3>5 DEF WasAsked
  <2> QED BY <2>1, <2>2
<1>10. /\ \A g \in Handlers : request'[g] = IF g = h THEN Races!Blank ELSE request[g]
       /\ DOMAIN request' = Handlers /\ request' = [g \in Handlers |-> request'[g]]
  BY <1>2 DEF RacesInv
\* What is so if nothing was overwritten: the one offer that was open was closed.
<1>11. ASSUME ~overlaid'
       PROVE  /\ ~overlaid /\ search = q.read /\ Substitutes(q)
              /\ \E m \in Nat : Races!Pending = {m} /\ q.done = {m}
  <2>1. ~overlaid /\ search = q.read /\ q.done \subseteq Races!Pending
    <3>1. ~overlaid /\ ~Races!Overwrites(q) BY <1>2, <1>11 DEF RacesInv
    <3>2. \A n \in q.done : offers[n].st = "pending" BY <3>1 DEF Races!Overwrites
    <3>3. q.done \subseteq DOMAIN offers BY <1>1 DEF MadeFits
    <3> QED BY <3>1, <3>2, <3>3 DEF Races!Overwrites, Races!Pending
  <2>2. PICK m \in q.done : m \in Races!Pending BY <1>2, <2>1
  <2>3. Races!Pending = {m} /\ q.done = {m} BY <2>1, <2>2 DEF RacesInv, OffersFit
  <2>4. Substitutes(q) BY <1>1, <1>2, <2>1 DEF ClosesOne
  <2> QED BY <2>1, <2>3, <2>4, PendingIs DEF RacesInv
<1>12. \A m \in DOMAIN offers : m \in Races!Pending' <=> m \in Races!Pending /\ m \notin q.done
  BY <1>4 DEF Races!Pending
<1>13. ASSUME NEW g \in Handlers PROVE RequestFits(g, request[g], locker)'
  <2>1. CASE g = h BY <1>10, <2>1 DEF RequestFits
  <2>2. CASE g # h
    <3> PICK r : r = request[g] OBVIOUS
    <3>1. CASE r = Races!Blank BY <1>10, <2>2, <3>1 DEF RequestFits
    <3>2. CASE r # Races!Blank
      <4>1. /\ r \in LoadedT /\ MadeFits(r) /\ ClosedAlone(g, r)
            /\ ~overlaid => ClosesOne(r)
        BY <3>2 DEF RacesInv, RequestFits
      <4>2. r.op # "accept"
        <5>1. locker # g BY <1>2, <2>2, RacesNats
        <5> QED BY <3>2, <5>1, NoAccept
      <4>3. MadeFits(r)' BY <1>4, <4>1 DEF MadeFits
      <4>4. ClosedAlone(g, r)' BY <1>10, <4>1 DEF ClosedAlone, Races!Blank
      <4>5. AcceptFits(g, r, "nobody")' BY <4>2 DEF AcceptFits
      <4>6. ~overlaid' => ClosesOne(r)'
        <5>1. SUFFICES ASSUME ~overlaid' PROVE ClosesOne(r)' OBVIOUS
        <5>2. PICK m \in Nat : Races!Pending = {m} /\ q.done = {m} BY <1>11, <5>1
        <5>3. r.done \subseteq DOMAIN offers BY <4>1 DEF MadeFits
        <5>4. r.done \cap Races!Pending' = {} BY <1>12, <5>2, <5>3
        <5>5. \E n \in Nat : r.todo \cup r.done \subseteq {n}
          BY <1>11, <4>1, <5>1 DEF ClosesOne
        <5> QED BY <5>4, <5>5 DEF ClosesOne
      <4>7. RequestFits(g, r, "nobody")'
        BY <4>1, <4>3, <4>4, <4>5, <4>6, Zenon DEF RequestFits
      <4> QED BY <1>2, <1>10, <2>2, <4>7
    <3> QED BY <3>1, <3>2
  <2> QED BY <2>1, <2>2
<1>14. ASSUME ~overlaid' PROVE StatusFits' /\ OffersFit'
  <2>1. PICK m \in Nat : Races!Pending = {m} /\ q.done = {m} BY <1>11, <1>14
  <2>2. StatusFits /\ OffersFit /\ Substitutes(q) /\ search = q.read
    BY <1>11, <1>14 DEF RacesInv
  <2>3. st = q.mem.st /\ w = q.mem.walker BY <1>5, <1>6, <2>2
  <2>4. \A n \in DOMAIN offers : n \notin Races!Pending' BY <1>12, <2>1
  <2>5. offers \in Seq(OfferT) /\ DOMAIN offers = 1 .. Len(offers) /\ Len(offers) \in Nat
        /\ DOMAIN offers' = 1 .. Len(offers') /\ Races!Pending' \subseteq DOMAIN offers'
    BY <1>4, SeqFacts DEF RacesInv, Races!Pending
  <2>6. CASE q.made = <<>>
               /\ q.mem.st \in {"no_walker_found", "awaiting_tutor_reconfirmation"}
    <3>1. Len(offers') = Len(offers) BY <1>4, <2>5, <2>6
    <3>2. Races!Pending' = {} BY <2>4, <2>5, <3>1
    <3>3. OffersFit' BY <1>4, <2>2, <2>5, <3>1, <3>2 DEF OffersFit
    <3>4. StatusFits' BY <1>7, <2>3, <2>6, <3>2 DEF StatusFits, Races!Waiting
    <3> QED BY <3>3, <3>4
  <2>7. ASSUME NEW v \in Walkers, q.made = <<Races!Offer(v)>>,
               q.mem = [st |-> "auto_rematching", walker |-> v],
               \A n \in DOMAIN offers : offers[n].walker # v, Len(offers) + 1 <= MaxOffers
        PROVE  StatusFits' /\ OffersFit'
    <3>1. PICK o \in OfferT : o = Races!Offer(v) /\ o.walker = v /\ o.st = "pending" BY OneOffer
    <3>2. Len(q.made) = 1 /\ q.made[1] = o BY <2>7, <3>1
    <3>3. PICK k \in Nat : k = Len(offers) + 1 BY <2>5
    <3>4. Len(offers') = k /\ DOMAIN offers' = 1 .. k /\ k \in DOMAIN offers' \ DOMAIN offers
      BY <1>4, <2>5, <3>2, <3>3
    <3>5. offers'[k] = o BY <1>4, <2>5, <3>2, <3>3, <3>4
    <3>6. Races!Pending' = {k}
      BY <2>4, <2>5, <3>1, <3>3, <3>4, <3>5 DEF Races!Pending
    <3>7. \A i, j \in DOMAIN offers' : offers'[i].walker = offers'[j].walker => i = j
      BY <1>4, <2>2, <2>5, <2>7, <3>1, <3>3, <3>4, <3>5 DEF OffersFit
    <3>8. OffersFit' BY <2>7, <3>3, <3>4, <3>6, <3>7 DEF OffersFit
    <3>9. search'.st = "auto_rematching" /\ search'.walker = v
      BY <1>7, <2>3, <2>7
    <3>10. StatusFits' BY <3>1, <3>5, <3>6, <3>9 DEF StatusFits, Races!Waiting
    <3> QED BY <3>8, <3>10
  <2> QED BY <2>2, <2>6, <2>7 DEF Substitutes
<1>15. overlaid' \in BOOLEAN BY <1>2 DEF RacesInv, Races!Overwrites
<1> QED BY <1>4, <1>8, <1>9, <1>10, <1>13, <1>14, <1>15 DEF RacesInv

LEMMA RacesCancels ==
  ASSUME RacesInv, NEW h \in Handlers, Races!CommitCancel(h)
  PROVE  RacesInv'
<1>1. /\ locker = "nobody" /\ search' = [search EXCEPT !.st = "ride_cancelled"]
      /\ request' = [request EXCEPT ![h] = Races!Blank] /\ UNCHANGED <<offers, locker>>
      /\ overlaid' = (overlaid \/ Races!Overwrites(request[h]))
  BY DEF Races!CommitCancel
<1>2. search' \in WalkT /\ search'.walker = search.walker /\ search'.st = "ride_cancelled"
  BY <1>1 DEF RacesInv, WalkT
<1>3. Races!Pending' = Races!Pending BY <1>1 DEF Races!Pending
<1>4. /\ \A g \in Handlers : request'[g] = IF g = h THEN Races!Blank ELSE request[g]
      /\ DOMAIN request' = Handlers /\ request' = [g \in Handlers |-> request'[g]]
  BY <1>1 DEF RacesInv
<1>5. overlaid' \in BOOLEAN /\ (~overlaid' => ~overlaid)
  BY <1>1 DEF RacesInv, Races!Overwrites
<1>6. ASSUME NEW g \in Handlers PROVE RequestFits(g, request[g], locker)'
  <2>1. CASE g = h BY <1>4, <2>1 DEF RequestFits
  <2>2. CASE g # h
    <3> PICK r : r = request[g] OBVIOUS
    <3>1. CASE r = Races!Blank BY <1>4, <2>2, <3>1 DEF RequestFits
    <3>2. CASE r # Races!Blank
      <4>1. r \in LoadedT /\ MadeFits(r) /\ ClosedAlone(g, r) /\ (~overlaid => ClosesOne(r))
        BY <3>2 DEF RacesInv, RequestFits
      <4>2. r.op # "accept" BY <1>1, <3>2, NoAccept, RacesNats
      <4>3. MadeFits(r)' BY <1>1, <4>1 DEF MadeFits
      <4>4. ClosedAlone(g, r)' BY <1>4, <4>1 DEF ClosedAlone, Races!Blank
      <4>5. AcceptFits(g, r, "nobody")' BY <4>2 DEF AcceptFits
      <4>6. ~overlaid' => ClosesOne(r)'
        BY <1>1, <1>3, <1>5, <4>1 DEF ClosesOne, Substitutes
      <4>7. RequestFits(g, r, "nobody")'
        BY <4>1, <4>3, <4>4, <4>5, <4>6, Zenon DEF RequestFits
      <4> QED BY <1>1, <1>4, <2>2, <4>7
    <3> QED BY <3>1, <3>2
  <2> QED BY <2>1, <2>2
<1>7. ~overlaid' => StatusFits' /\ OffersFit'
  BY <1>1, <1>2, <1>3, <1>5 DEF RacesInv, StatusFits, OffersFit, Races!Waiting
<1>8. WasAsked' BY <1>1, <1>2 DEF RacesInv, WasAsked
<1> QED BY <1>1, <1>2, <1>4, <1>5, <1>6, <1>7, <1>8 DEF RacesInv

LEMMA RacesAccepts ==
  ASSUME RacesInv, NEW h \in Handlers, Races!CommitAccept(h)
  PROVE  RacesInv'
<1>1. PICK q \in LoadedT : q = request[h] /\ AcceptFits(h, q, locker) /\ q.op = "accept"
  BY DEF RacesInv, RequestFits, Races!CommitAccept, Races!Blank
<1>2. PICK n \in Races!Pending : q.todo = {n} /\ offers[n].walker = search.walker /\ locker = h
  BY <1>1 DEF AcceptFits
<1>3. /\ search' = [search EXCEPT !.st = "walker_accepted"]
      /\ request' = [request EXCEPT ![h] = Races!Blank] /\ locker' = "nobody"
      /\ overlaid' = overlaid
      /\ offers' = [m \in DOMAIN offers |-> IF m = n THEN [offers[m] EXCEPT !.st = "accepted"]
                                            ELSE offers[m]]
  BY <1>1, <1>2 DEF Races!CommitAccept
<1>4. /\ offers \in Seq(OfferT) /\ DOMAIN offers = 1 .. Len(offers) /\ Len(offers) \in Nat
      /\ n \in DOMAIN offers /\ \A m \in DOMAIN offers : offers[m] \in OfferT
  BY SeqFacts, PendingIs DEF RacesInv
<1>5. ASSUME NEW m \in DOMAIN offers
      PROVE  /\ offers'[m] \in OfferT /\ offers'[m].walker = offers[m].walker
             /\ offers'[m].st = IF m = n THEN "accepted" ELSE offers[m].st
  <2>1. CASE m # n BY <1>3, <1>4, <2>1
  <2>2. CASE m = n
    <3>1. offers'[m] = [offers[m] EXCEPT !.st = "accepted"] BY <1>3, <2>2
    <3>2. offers[m] \in OfferT BY <1>4
    <3> QED BY <2>2, <3>1, <3>2 DEF OfferT
  <2> QED BY <2>1, <2>2
<1>6. offers' \in Seq(OfferT) /\ Len(offers') = Len(offers) /\ DOMAIN offers' = DOMAIN offers
  <2>1. offers' \in [1 .. Len(offers) -> OfferT] BY <1>3, <1>4, <1>5
  <2>2. offers' \in Seq(OfferT) BY <1>4, <2>1, SeqDef
  <2> QED BY <1>3, <1>4, <2>1, <2>2, LenProperties
<1>7. search' \in WalkT /\ search'.walker = search.walker /\ search'.st = "walker_accepted"
  BY <1>3 DEF RacesInv, WalkT
<1>8. Races!Pending' = Races!Pending \ {n} BY <1>5, <1>6 DEF Races!Pending
<1>9. /\ \A g \in Handlers : request'[g] = IF g = h THEN Races!Blank ELSE request[g]
      /\ DOMAIN request' = Handlers /\ request' = [g \in Handlers |-> request'[g]]
  BY <1>3 DEF RacesInv
<1>10. ASSUME NEW g \in Handlers PROVE RequestFits(g, request[g], locker)'
  <2>1. CASE g = h BY <1>9, <2>1 DEF RequestFits
  <2>2. CASE g # h
    <3> PICK r : r = request[g] OBVIOUS
    <3>1. CASE r = Races!Blank BY <1>9, <2>2, <3>1 DEF RequestFits
    <3>2. CASE r # Races!Blank
      <4>1. r \in LoadedT /\ MadeFits(r) /\ ClosedAlone(g, r) /\ (~overlaid => ClosesOne(r))
        BY <3>2 DEF RacesInv, RequestFits
      <4>2. r.op # "accept" BY <1>2, <2>2, <3>2, NoAccept
      <4>3. MadeFits(r)' BY <1>6, <4>1 DEF MadeFits
      <4>4. ClosedAlone(g, r)' BY <1>9, <4>1 DEF ClosedAlone, Races!Blank
      <4>5. AcceptFits(g, r, "nobody")' BY <4>2 DEF AcceptFits
      <4>6. ~overlaid' => ClosesOne(r)'
        <5>1. Substitutes(r) => Substitutes(r)' BY <1>5, <1>6 DEF Substitutes
        <5> QED BY <1>3, <1>8, <4>1, <5>1 DEF ClosesOne
      <4>7. RequestFits(g, r, "nobody")'
        BY <4>1, <4>3, <4>4, <4>5, <4>6, Zenon DEF RequestFits
      <4> QED BY <1>3, <1>9, <2>2, <4>7
    <3> QED BY <3>1, <3>2
  <2> QED BY <2>1, <2>2
<1>11. ~overlaid' => StatusFits' /\ OffersFit'
  <2>1. SUFFICES ASSUME ~overlaid PROVE StatusFits' /\ OffersFit' BY <1>3
  <2>2. OffersFit BY <2>1 DEF RacesInv
  <2>3. Races!Pending' = {} BY <1>8, <2>2 DEF OffersFit
  <2>4. OffersFit' BY <1>5, <1>6, <2>2, <2>3 DEF OffersFit
  <2>5. offers'[n].st = "accepted" /\ offers'[n].walker = search'.walker /\ n \in DOMAIN offers'
    BY <1>2, <1>4, <1>5, <1>6, <1>7
  <2>6. StatusFits' BY <1>7, <2>3, <2>5 DEF StatusFits, Races!Waiting
  <2> QED BY <2>4, <2>6
<1>12. WasAsked' BY <1>5, <1>6, <1>7 DEF RacesInv, WasAsked
<1> QED BY <1>3, <1>6, <1>7, <1>9, <1>10, <1>11, <1>12 DEF RacesInv

LEMMA RacesNext == ASSUME RacesInv, [Races!Next]_OfRaces PROVE RacesInv'
<1>1. CASE UNCHANGED OfRaces
  <2>1. UNCHANGED <<search, offers, request, locker, overlaid>> BY <1>1 DEF OfRaces
  <2>2. Races!Pending' = Races!Pending BY <2>1 DEF Races!Pending
  <2>3. ASSUME NEW h \in Handlers PROVE RequestFits(h, request[h], locker)'
    <3> PICK r : r = request[h] OBVIOUS
    <3> PICK l : l = locker OBVIOUS
    <3>1. RequestFits(h, r, l) BY DEF RacesInv
    <3>2. ClosedAlone(h, r) => ClosedAlone(h, r)' BY <2>1 DEF ClosedAlone
    <3>3. RequestFits(h, r, l)' BY <2>1, <3>1, <3>2, FitsStill
    <3> QED BY <2>1, <3>3
  <2> QED BY <2>1, <2>2, <2>3 DEF RacesInv, StatusFits, OffersFit, WasAsked
<1> QED
  BY <1>1, RacesBegins, RacesCloses, RacesCommits, RacesCancels, RacesAccepts, RacesEnds,
     RacesElapses DEF Races!Next

LEMMA CardinalityIs == \A S : IsFiniteSet(S) => Races!Cardinality(S) = Cardinality(S)
BY DEF Races!Cardinality, Cardinality, Races!IsFiniteSet, IsFiniteSet

\* As many walkers were asked as there are offers, when nobody was asked twice.
LEMMA AskedOnce ==
  ASSUME NEW s \in Seq(OfferT), \A m, n \in DOMAIN s : s[m].walker = s[n].walker => m = n
  PROVE  Races!Cardinality({s[n].walker : n \in DOMAIN s}) = Len(s)
<1> DEFINE T == {s[n].walker : n \in DOMAIN s}
           f == [n \in 1 .. Len(s) |-> s[n].walker]
<1>1. DOMAIN s = 1 .. Len(s) /\ Len(s) \in Nat BY SeqFacts
<1>2. f \in Bijection(1 .. Len(s), T)
  <2>1. f \in Injection(1 .. Len(s), T) BY <1>1 DEF Injection, IsInjective
  <2>2. f \in Surjection(1 .. Len(s), T) BY <1>1 DEF Surjection
  <2> QED BY <2>1, <2>2 DEF Bijection
<1>3. ExistsBijection(1 .. Len(s), T) BY <1>2 DEF ExistsBijection
<1>4. IsFiniteSet(1 .. Len(s)) /\ Cardinality(1 .. Len(s)) = Len(s) BY <1>1, FS_Interval
<1>5. IsFiniteSet(T) /\ Cardinality(T) = Len(s) BY <1>3, <1>4, FS_Bijection
<1> QED BY <1>5, CardinalityIs

LEMMA RacesFollows == ASSUME RacesInv PROVE Races!OffersAgree /\ Races!TypeOK
<1>1. offers \in Seq(OfferT) /\ DOMAIN offers = 1 .. Len(offers)
      /\ \A n \in DOMAIN offers : offers[n] \in OfferT
  BY SeqFacts DEF RacesInv
<1>2. Races!TypeOK BY <1>1 DEF RacesInv, Races!TypeOK, WalkT, OfferT
<1>3. ~overlaid => Races!Cardinality({offers[n].walker : n \in DOMAIN offers}) = Len(offers)
  BY <1>1, AskedOnce DEF RacesInv, OffersFit
<1>4. Races!OffersAgree
  BY <1>3, Zenon DEF RacesInv, WasAsked, StatusFits, OffersFit, Races!OffersAgree
<1> QED BY <1>2, <1>4

----------------------------------------------------------------------------
(* The chat of a walk *)

People    == Talkers \cup {Chat!Tutor}
Said      == [by : People, read : BOOLEAN, seen : SUBSET People, late : BOOLEAN]
Listings  == [st : {"list"}, by : People, upto : Nat, mark : SUBSET Nat]

\* What a reader is about to mark are messages it has loaded, of others.
ListFits(d) == d # Chat!Idle =>
  /\ d \in Listings /\ d.upto <= Len(chat)
  /\ \A i \in d.mark : i \in 1 .. d.upto /\ chat[i].by # d.by

ChatInv ==
  /\ talk \in [st : {"searching", "chatting", "completed", "cancelled"},
               walker : Talkers \cup {Chat!Nobody}, clock : {"early", "open", "over"}]
  /\ chat \in Seq(Said) /\ DOMAIN listing = Solo
  /\ \A h \in Solo : ListFits(listing[h])
  /\ Chat!ReadIsSeen

LEMMA ChatInit == ASSUME Chat!Init PROVE ChatInv
<1>1. chat \in Seq(Said) BY EmptySeq DEF Chat!Init
<1>2. Chat!ReadIsSeen BY DEF Chat!Init, Chat!ReadIsSeen
<1>3. \A h \in Solo : ListFits(listing[h]) BY DEF Chat!Init, ListFits
<1> QED BY <1>1, <1>2, <1>3 DEF Chat!Init, ChatInv

LEMMA ChatGrows ==
  ASSUME ChatInv, NEW u \in People, Chat!Say(u)
  PROVE  ChatInv'
<1>1. PICK m \in Said : chat' = Append(chat, m) /\ ~m.read /\ ~m.late
  <2>1. PICK after \in BOOLEAN : after = (talk.st = "completed" /\ talk.clock = "over")
    OBVIOUS
  <2>2. ~after BY <2>1 DEF Chat!Say, Chat!Available
  <2>3. [by |-> u, read |-> FALSE, seen |-> {}, late |-> after] \in Said BY DEF Said
  <2>4. chat' = Append(chat, [by |-> u, read |-> FALSE, seen |-> {}, late |-> after])
    BY <2>1 DEF Chat!Say
  <2> QED BY <2>2, <2>3, <2>4
<1>2. /\ chat' \in Seq(Said) /\ Len(chat') = Len(chat) + 1 /\ Len(chat) \in Nat
      /\ DOMAIN chat = 1 .. Len(chat) /\ DOMAIN chat' = 1 .. (Len(chat) + 1)
      /\ \A i \in 1 .. Len(chat) : chat'[i] = chat[i]
      /\ chat'[Len(chat) + 1] = m
  BY <1>1, SeqFacts, AppendProperties DEF ChatInv
<1>3. Chat!ReadIsSeen' BY <1>1, <1>2 DEF ChatInv, Chat!ReadIsSeen
<1>4. ASSUME NEW h \in Solo PROVE ListFits(listing[h])'
  <2>1. PICK d : d = listing[h] OBVIOUS
  <2>2. ListFits(d) BY <2>1 DEF ChatInv
  <2>3. ListFits(d)' BY <1>2, <2>2 DEF ListFits, Listings
  <2> QED BY <2>1, <2>3 DEF Chat!Say
<1> QED BY <1>2, <1>3, <1>4 DEF ChatInv, Chat!Say

LEMMA ChatLists ==
  ASSUME ChatInv, NEW h \in Solo, NEW u \in People, Chat!List(h, u)
  PROVE  ChatInv'
<1>1. DOMAIN chat = 1 .. Len(chat) /\ Len(chat) \in Nat BY SeqFacts DEF ChatInv
<1>2. PICK mark : mark = {i \in DOMAIN chat : Chat!Unread(chat[i], u)} OBVIOUS
<1>3. PICK d \in Listings : d = [st |-> "list", by |-> u, upto |-> Len(chat), mark |-> mark]
  <2>1. mark \in SUBSET Nat BY <1>1, <1>2
  <2> QED BY <1>1, <2>1 DEF Listings
<1>4. listing' = [listing EXCEPT ![h] = d] BY <1>2, <1>3 DEF Chat!List
<1>5. ListFits(d) BY <1>1, <1>2, <1>3 DEF ListFits, Chat!Unread
<1>6. ASSUME NEW g \in Solo PROVE ListFits(listing[g])'
  BY <1>4, <1>5 DEF ListFits, ChatInv, Chat!List
<1> QED BY <1>4, <1>6 DEF ChatInv, Chat!List, Chat!ReadIsSeen

LEMMA ChatMarks ==
  ASSUME ChatInv, NEW h \in Solo, Chat!CommitList(h)
  PROVE  ChatInv'
<1>1. /\ DOMAIN chat = 1 .. Len(chat) /\ Len(chat) \in Nat
      /\ \A i \in DOMAIN chat : chat[i] \in Said
  BY SeqFacts DEF ChatInv
<1>2. PICK d \in Listings : /\ d = listing[h] /\ d.upto <= Len(chat)
                            /\ \A i \in d.mark : i \in 1 .. d.upto /\ chat[i].by # d.by
  <2>1. PICK d : d = listing[h] OBVIOUS
  <2>2. d.st = "list" BY <2>1 DEF Chat!CommitList
  <2>3. d # Chat!Idle BY <2>2 DEF Chat!Idle
  <2> QED BY <2>1, <2>3 DEF ChatInv, ListFits
<1>3. DEFINE Now(i) == [chat[i] EXCEPT !.read = (@ \/ i \in d.mark),
                                       !.seen = IF i <= d.upto THEN @ \cup {d.by} ELSE @]
<1>4. chat' = [i \in DOMAIN chat |-> Now(i)]
  BY <1>2, Zenon DEF Chat!CommitList, Chat!Marked
<1>5. ASSUME NEW i \in DOMAIN chat
      PROVE  /\ Now(i) \in Said /\ Now(i).by = chat[i].by
             /\ Now(i).late = chat[i].late
             /\ Now(i).read => chat[i].read \/ i \in d.mark
             /\ Now(i).seen = IF i <= d.upto THEN chat[i].seen \cup {d.by} ELSE chat[i].seen
  <2>1. PICK r \in BOOLEAN : r = (chat[i].read \/ i \in d.mark)
    <3>1. chat[i].read \in BOOLEAN BY <1>1 DEF Said
    <3> QED BY <3>1
  <2>2. PICK s \in SUBSET People : s = IF i <= d.upto THEN chat[i].seen \cup {d.by} ELSE chat[i].seen
    BY <1>1 DEF Said, Listings
  <2>3. PICK m \in Said : m = chat[i] BY <1>1
  <2>4. Now(i) = [m EXCEPT !.read = r, !.seen = s] BY <2>1, <2>2, <2>3
  <2>5. PICK n : n = [m EXCEPT !.read = r] OBVIOUS
  <2>6. n \in Said /\ n.by = m.by /\ n.late = m.late /\ n.read = r BY <2>5 DEF Said
  <2>7. Now(i) = [n EXCEPT !.seen = s] BY <2>4, <2>5 DEF Said
  <2>8. /\ Now(i) \in Said /\ Now(i).by = n.by /\ Now(i).late = n.late
        /\ Now(i).read = n.read /\ Now(i).seen = s
    BY <2>6, <2>7 DEF Said
  <2> QED BY <2>1, <2>2, <2>3, <2>6, <2>8
<1>6. /\ chat' \in Seq(Said) /\ Len(chat') = Len(chat) /\ DOMAIN chat' = DOMAIN chat
      /\ \A i \in DOMAIN chat : chat'[i] = Now(i)
  <2> HIDE DEF Now
  <2>1. chat' \in [1 .. Len(chat) -> Said] BY <1>1, <1>4, <1>5
  <2> QED BY <1>1, <1>4, <2>1, Mapped
<1>7. Chat!ReadIsSeen'
  <2>1. SUFFICES ASSUME NEW i \in DOMAIN chat
                 PROVE  (Now(i).read => Now(i).seen \ {Now(i).by} # {}) /\ ~Now(i).late
    <3> HIDE DEF Now
    <3> QED BY <1>6 DEF Chat!ReadIsSeen
  <2> HIDE DEF Now
  <2>2. (chat[i].read => chat[i].seen \ {chat[i].by} # {}) /\ ~chat[i].late
    BY DEF ChatInv, Chat!ReadIsSeen
  <2>3. i \in d.mark => i <= d.upto /\ chat[i].by # d.by BY <1>1, <1>2 DEF Listings
  <2>4. PICK n : n = Now(i) OBVIOUS
  <2>5. /\ n.by = chat[i].by /\ n.late = chat[i].late
        /\ n.read => chat[i].read \/ i \in d.mark
        /\ n.seen = IF i <= d.upto THEN chat[i].seen \cup {d.by} ELSE chat[i].seen
    BY <1>5, <2>4
  <2>6. chat[i].seen \subseteq n.seen /\ (i <= d.upto => d.by \in n.seen) BY <2>5
  <2>7. (n.read => n.seen \ {n.by} # {}) /\ ~n.late BY <2>2, <2>3, <2>5, <2>6
  <2> QED BY <2>4, <2>7
<1>8. ASSUME NEW g \in Solo PROVE ListFits(listing[g])'
  <2>1. CASE g = h BY <2>1 DEF ChatInv, Chat!CommitList, ListFits
  <2>2. CASE g # h
    <3>1. PICK c : c = listing[g] OBVIOUS
    <3>2. listing'[g] = c BY <2>2, <3>1 DEF Chat!CommitList, ChatInv
    <3>3. ListFits(c) BY <3>1 DEF ChatInv
    <3> HIDE DEF Now
    <3>4. \A i \in 1 .. Len(chat) : chat'[i].by = chat[i].by BY <1>1, <1>5, <1>6
    <3>5. ListFits(c)' BY <1>1, <1>6, <3>3, <3>4 DEF ListFits, Listings
    <3> QED BY <3>2, <3>5
  <2> QED BY <2>1, <2>2
<1> QED BY <1>6, <1>7, <1>8 DEF ChatInv, Chat!CommitList

LEMMA ChatNext == ASSUME ChatInv, [Chat!Next]_OfChat PROVE ChatInv'
<1>1. CASE UNCHANGED OfChat
  BY <1>1 DEF OfChat, ChatInv, ListFits, Chat!ReadIsSeen
<1>2. CASE Chat!WalkMoves
  <2>1. PICK st \in {"searching", "chatting", "completed", "cancelled"},
             w \in Talkers \cup {Chat!Nobody} :
          talk' = [talk EXCEPT !.st = st, !.walker = w] /\ UNCHANGED <<chat, listing>>
    BY <1>2 DEF Chat!WalkMoves
  <2>2. PICK t : t = [talk EXCEPT !.st = st] OBVIOUS
  <2>3. talk' = [t EXCEPT !.walker = w] BY <2>1, <2>2 DEF ChatInv
  <2> QED BY <2>1, <2>2, <2>3 DEF ChatInv, ListFits, Chat!ReadIsSeen
<1>3. CASE Chat!Elapse
  BY <1>3 DEF ChatInv, ListFits, Chat!ReadIsSeen, Chat!Elapse
<1> QED BY <1>1, <1>2, <1>3, ChatGrows, ChatLists, ChatMarks DEF Chat!Next, People

LEMMA ChatFollows == ASSUME ChatInv PROVE Chat!ReadIsSeen /\ Chat!TypeOK
<1>1. \A i \in DOMAIN chat : chat[i] \in Said BY SeqFacts DEF ChatInv
<1> QED BY <1>1 DEF ChatInv, Chat!TypeOK, Said, People

----------------------------------------------------------------------------
(* Support tickets *)

Tickets == [st : Statuses \cup {"open", Support!None}, reply : Replies \cup {Support!None},
            author : BOOLEAN]
Patches == [st : {"update"}, to : Statuses \cup {Support!None},
            reply : Replies \cup {"", Support!None}, read : Tickets]

SupportInv ==
  /\ query \in Tickets /\ heard \in Replies \cup {Support!None} /\ mixed \in BOOLEAN
  /\ DOMAIN answering = Handlers
  /\ \A h \in Handlers : answering[h].st = "update" => answering[h] \in Patches
  /\ Support!AnswerIsTold

LEMMA SupportInit == ASSUME Support!Init PROVE SupportInv
<1>1. query \in Tickets BY DEF Support!Init, Support!NoTicket, Tickets
<1>2. Support!AnswerIsTold
  BY DEF Support!Init, Support!NoTicket, Support!AnswerIsTold
<1>3. \A h \in Handlers : answering[h].st # "update" BY DEF Support!Init, Support!Idle
<1> QED BY <1>1, <1>2, <1>3 DEF Support!Init, SupportInv

LEMMA SupportOpens ==
  ASSUME SupportInv, NEW author \in BOOLEAN, Support!Open(author)
  PROVE  SupportInv'
<1>1. query' \in Tickets /\ query'.reply = Support!None BY DEF Support!Open, Tickets
<1> QED BY <1>1 DEF SupportInv, Support!Open, Support!AnswerIsTold

LEMMA SupportUpdates ==
  ASSUME SupportInv, NEW h \in Handlers, Support!Update(h)
  PROVE  SupportInv'
<1>1. PICK st \in Statuses \cup {Support!None}, reply \in Replies \cup {"", Support!None} :
        /\ answering' = [answering EXCEPT ![h] = [st |-> "update", to |-> st, reply |-> reply,
                                                  read |-> query]]
        /\ answering[h] = Support!Idle /\ UNCHANGED <<query, heard, mixed>>
  BY DEF Support!Update
<1>2. PICK p \in Patches : p = [st |-> "update", to |-> st, reply |-> reply, read |-> query]
  BY DEF SupportInv, Patches
<1>3. answering' = [answering EXCEPT ![h] = p] BY <1>1, <1>2
<1>4. answering[h].st # "tell"
  <2>1. PICK i : i = Support!Idle OBVIOUS
  <2>2. i.st # "tell" BY <2>1 DEF Support!Idle
  <2> QED BY <1>1, <2>1, <2>2
<1>5. \A g \in Handlers : answering[g].st = "tell" => answering'[g].st = "tell"
  BY <1>3, <1>4 DEF SupportInv
<1>6. Support!AnswerIsTold' BY <1>1, <1>5 DEF SupportInv, Support!AnswerIsTold
<1> QED BY <1>1, <1>3, <1>6 DEF SupportInv

\* What a request would write of the answer: what it was asked, or what it read.
LEMMA AskedIs ==
  ASSUME NEW d \in Patches
  PROVE  /\ Support!Asked(d) \in Tickets
         /\ d.reply = Support!None => Support!Asked(d).reply = d.read.reply
         /\ d.reply = "" => Support!Asked(d).reply = Support!None \/ d.reply = Support!None
         /\ d.reply \notin {"", Support!None} => Support!Asked(d).reply = d.reply
<1>1. PICK t \in Tickets : t = d.read BY DEF Patches
<1>2. PICK st \in Statuses \cup {"open", Support!None} :
        st = IF d.to = Support!None THEN t.st ELSE d.to
  BY <1>1 DEF Patches, Tickets
<1>3. PICK reply \in Replies \cup {Support!None} :
        reply = IF d.reply = Support!None THEN t.reply
                ELSE IF d.reply = "" THEN Support!None ELSE d.reply
  BY <1>1 DEF Patches, Tickets
<1>4. Support!Asked(d) = [t EXCEPT !.st = st, !.reply = reply]
  BY <1>1, <1>2, <1>3 DEF Support!Asked
<1>5. PICK u : u = [t EXCEPT !.st = st] OBVIOUS
<1>6. u \in Tickets BY <1>5 DEF Tickets
<1>7. Support!Asked(d) = [u EXCEPT !.reply = reply] BY <1>4, <1>5 DEF Tickets
<1>8. Support!Asked(d) \in Tickets /\ Support!Asked(d).reply = reply BY <1>6, <1>7 DEF Tickets
<1> QED BY <1>1, <1>3, <1>8

LEMMA SupportCommits ==
  ASSUME SupportInv, NEW h \in Handlers, Support!CommitUpdate(h)
  PROVE  SupportInv'
<1>1. PICK d \in Patches : d = answering[h] BY DEF SupportInv, Support!CommitUpdate
<1>2. PICK a \in Tickets : a = Support!Asked(d) BY AskedIs
<1>3. query' = Support!Flushed(query, d.read, a) /\ d.st = "update" /\ heard' = heard
      /\ mixed' = (mixed \/ query.reply # d.read.reply)
  BY <1>1, <1>2, Zenon DEF Support!CommitUpdate
<1>4. PICK q \in Tickets : /\ q = query'
                           /\ q.reply = IF a.reply = d.read.reply THEN query.reply ELSE a.reply
                           /\ q.author = query.author
  <2>1. PICK st \in Statuses \cup {"open", Support!None} :
          st = IF a.st = d.read.st THEN query.st ELSE a.st
    BY DEF SupportInv, Tickets
  <2>2. PICK reply \in Replies \cup {Support!None} :
          reply = IF a.reply = d.read.reply THEN query.reply ELSE a.reply
    BY DEF SupportInv, Tickets
  <2>3. PICK author \in BOOLEAN : author = query.author BY DEF SupportInv, Tickets
  <2>4. query' = [st |-> st, reply |-> reply, author |-> author]
    BY <1>3, <2>1, <2>2, <2>3 DEF Support!Flushed
  <2>5. [st |-> st, reply |-> reply, author |-> author] \in Tickets BY DEF Tickets
  <2> QED BY <2>2, <2>3, <2>4, <2>5
<1>5. PICK n : n = IF Support!IsNew(d) THEN [st |-> "tell", reply |-> d.reply] ELSE Support!Idle
  OBVIOUS
<1>6. answering' = [answering EXCEPT ![h] = n] BY <1>1, <1>5, Zenon DEF Support!CommitUpdate
<1>7. n.st # "update" /\ (Support!IsNew(d) => n.st = "tell") BY <1>5 DEF Support!Idle
<1>8. Support!AnswerIsTold'
  <2>1. SUFFICES ASSUME q.author, q.reply # Support!None, mixed' = FALSE, ~Support!IsNew(d)
                 PROVE  heard = q.reply \/ \E g \in Handlers : answering'[g].st = "tell"
    <3>1. mixed' \in BOOLEAN BY <1>3
    <3>2. Support!IsNew(d) => \E g \in Handlers : answering'[g].st = "tell"
      BY <1>6, <1>7 DEF SupportInv
    <3>3. query'.author = q.author /\ query'.reply = q.reply /\ heard' = heard BY <1>3, <1>4
    <3> QED BY <3>1, <3>2, <3>3, Zenon DEF Support!AnswerIsTold
  <2>2. query.reply = d.read.reply /\ ~mixed BY <1>3, <2>1
  <2>3. q.reply = query.reply
    BY <1>2, <1>4, <2>1, <2>2, AskedIs DEF Support!IsNew, Patches
  <2>4. heard = query.reply \/ \E g \in Handlers : answering[g].st = "tell"
    <3>1. query.author /\ query.reply # Support!None BY <1>4, <2>1, <2>3
    <3> QED BY <2>2, <3>1, Zenon DEF SupportInv, Support!AnswerIsTold
  <2>5. ASSUME NEW g \in Handlers, answering[g].st = "tell" PROVE answering'[g].st = "tell"
    BY <1>1, <1>3, <1>6, <2>5 DEF SupportInv
  <2> QED BY <2>3, <2>4, <2>5
<1> QED BY <1>3, <1>4, <1>6, <1>7, <1>8 DEF SupportInv

LEMMA SupportTells ==
  ASSUME SupportInv, NEW h \in Handlers, Support!Tell(h)
  PROVE  SupportInv'
<1>1. PICK ok \in BOOLEAN :
        /\ answering' = [answering EXCEPT ![h] = Support!Idle]
        /\ heard' = IF ok /\ query.author /\ query.reply # Support!None THEN query.reply ELSE heard
        /\ mixed' = (mixed \/ ~ok) /\ query' = query
  BY Zenon DEF Support!Tell
<1>2. heard' \in Replies \cup {Support!None} BY <1>1 DEF SupportInv, Tickets
<1>3. Support!AnswerIsTold' BY <1>1 DEF Support!AnswerIsTold
<1> QED BY <1>1, <1>2, <1>3 DEF SupportInv, Support!Idle

LEMMA SupportNext == ASSUME SupportInv, [Support!Next]_OfSupport PROVE SupportInv'
<1>1. CASE UNCHANGED OfSupport BY <1>1 DEF OfSupport, SupportInv, Support!AnswerIsTold
<1>2. CASE Support!Switch BY <1>2 DEF Support!Switch, SupportInv, Support!AnswerIsTold
<1>3. CASE \E author \in BOOLEAN : Support!Open(author) BY <1>3, SupportOpens
<1>4. CASE \E h \in Handlers : Support!Update(h) \/ Support!CommitUpdate(h) \/ Support!Tell(h)
  BY <1>4, SupportUpdates, SupportCommits, SupportTells
<1> QED BY <1>1, <1>2, <1>3, <1>4 DEF Support!Next

LEMMA SupportFollows == ASSUME SupportInv PROVE Support!AnswerIsTold /\ Support!TypeOK
BY DEF SupportInv, Tickets, Support!TypeOK

----------------------------------------------------------------------------
(* Emergency calls *)

Callees == {"tutor", "staff"}
Modes   == {"unavailable", "direct", "masked"}
Calls   == [mode : Modes, recent : BOOLEAN, told : SUBSET Callees, failed : SUBSET Callees]

\* The staff is told after the tutor was, or could not be.
PressFits(p) ==
  /\ p.st = "record" => p.mode \in Modes
  /\ p.st \in {"tutor", "staff"} => p.row \in DOMAIN calls
  /\ p.st = "staff" => "tutor" \in calls[p.row].told \cup calls[p.row].failed

Recording == {h \in Handlers : press[h].st = "record"}
Recents   == {i \in DOMAIN calls : calls[i].recent}

\* Who records a call was let in below the limit.
Counted == Cardinality(Recents) + Cardinality(Recording) <= MaxCalls - 1 + Cardinality(Handlers)

Answered(i) == \/ calls[i].told \cup calls[i].failed = Callees
               \/ \E h \in Handlers : press[h].st \in {"tutor", "staff"} /\ press[h].row = i

EmergencyInv ==
  /\ custody \in {"before", "custody", "over"} /\ calls \in Seq(Calls)
  /\ phones \in [tutor : BOOLEAN, telephony : BOOLEAN]
  /\ DOMAIN press = Handlers /\ \A h \in Handlers : PressFits(press[h])
  /\ Counted
  /\ \A i \in DOMAIN calls : Answered(i)

LEMMA EmergencyNats ==
  /\ MaxCalls \in Nat \ {0} /\ IsFiniteSet(Handlers) /\ Cardinality(Handlers) \in Nat
  /\ \A S : Emergency!Cardinality(S) = Cardinality(S)
<1>1. MaxCalls \in Nat \ {0} /\ IsFiniteSet(Handlers)
  BY EmergencyParameters DEF Emergency!ParametersAssumption, Emergency!IsFiniteSet, IsFiniteSet
<1>2. \A S : Emergency!Cardinality(S) = Cardinality(S)
  BY DEF Emergency!Cardinality, Cardinality, Emergency!IsFiniteSet, IsFiniteSet
<1> QED BY <1>1, <1>2, FS_CardinalityType

LEMMA CallsAre ==
  ASSUME NEW s \in Seq(Calls)
  PROVE  /\ Len(s) \in Nat /\ DOMAIN s = 1 .. Len(s) /\ \A i \in DOMAIN s : s[i] \in Calls
         /\ IsFiniteSet({i \in DOMAIN s : s[i].recent})
         /\ Cardinality({i \in DOMAIN s : s[i].recent}) \in Nat
<1>1. Len(s) \in Nat /\ DOMAIN s = 1 .. Len(s) /\ \A i \in DOMAIN s : s[i] \in Calls BY SeqFacts
<1>2. IsFiniteSet(1 .. Len(s)) BY <1>1, FS_Interval
<1>3. IsFiniteSet({i \in DOMAIN s : s[i].recent})
  BY <1>1, <1>2, FS_Subset
<1> QED BY <1>1, <1>3, FS_CardinalityType

LEMMA EmergencyInit == ASSUME Emergency!Init PROVE EmergencyInv
<1>1. calls \in Seq(Calls) /\ DOMAIN calls = {} BY EmptySeq DEF Emergency!Init
<1>2. \A h \in Handlers : press[h].st = "idle" BY DEF Emergency!Init, Emergency!Idle
<1>3. Counted
  <2>1. Recents = {} /\ Recording = {} BY <1>1, <1>2 DEF Recents, Recording
  <2> QED BY <2>1, EmergencyNats, FS_EmptySet DEF Counted
<1> QED BY <1>1, <1>2, <1>3 DEF Emergency!Init, EmergencyInv, PressFits

\* A step of one request that leaves the calls as they are.
LEMMA PressTurns ==
  ASSUME EmergencyInv, NEW h \in Handlers, NEW p, PressFits(p), press' = [press EXCEPT ![h] = p],
         UNCHANGED <<custody, phones, calls>>, press[h].st \notin {"tutor", "staff"}, Counted'
  PROVE  EmergencyInv'
<1>1. ASSUME NEW g \in Handlers PROVE PressFits(press[g])' BY DEF EmergencyInv, PressFits
<1>2. ASSUME NEW i \in DOMAIN calls PROVE Answered(i)'
  <2>1. Answered(i) BY DEF EmergencyInv
  <2>2. \A g \in Handlers : g # h => press'[g] = press[g] BY DEF EmergencyInv
  <2> QED BY <2>1, <2>2 DEF Answered
<1> QED BY <1>1, <1>2 DEF EmergencyInv

LEMMA EmergencyPresses ==
  ASSUME EmergencyInv, NEW h \in Handlers, Emergency!Press(h)
  PROVE  EmergencyInv'
<1>1. CASE UNCHANGED press
  BY <1>1 DEF EmergencyInv, Emergency!Press, PressFits, Counted, Recents, Recording, Answered
<1>2. CASE ~UNCHANGED press
  <2>1. PICK mode \in Modes : /\ press' = [press EXCEPT ![h] = [st |-> "record", mode |-> mode]]
                              /\ press[h] = Emergency!Idle /\ ~Emergency!Limited
                              /\ UNCHANGED <<custody, phones, calls>>
    <3>1. Emergency!Modes \subseteq Modes BY DEF Emergency!Modes, Modes
    <3> QED BY <1>2, <3>1 DEF Emergency!Press
  <2>2. PICK p : p = [st |-> "record", mode |-> mode] OBVIOUS
  <2>3. PressFits(p) BY <2>2 DEF PressFits
  <2>4. Counted'
    <3>1. Recents' = Recents /\ Cardinality(Recents) \in Nat
      BY <2>1, CallsAre DEF Recents, EmergencyInv
    <3>2. Cardinality(Recents) < MaxCalls
      BY <2>1, <3>1, EmergencyNats DEF Emergency!Limited, Emergency!Lately, Recents
    <3>3. Recording' \subseteq Handlers BY DEF Recording
    <3>4. Cardinality(Recording') \in Nat /\ Cardinality(Recording') <= Cardinality(Handlers)
      BY <3>3, EmergencyNats, FS_Subset, FS_CardinalityType
    <3> QED BY <3>1, <3>2, <3>4, EmergencyNats DEF Counted
  <2>5. PICK i : i = Emergency!Idle OBVIOUS
  <2>6. press[h].st \notin {"tutor", "staff"} BY <2>1, <2>5 DEF Emergency!Idle
  <2> QED BY <2>1, <2>2, <2>3, <2>4, <2>6, PressTurns
<1> QED BY <1>1, <1>2

\* A request that has something to record is one of those counted.
LEMMA RecordsOneLess ==
  ASSUME EmergencyInv, NEW h \in Handlers, press[h].st = "record", NEW p, p.st # "record",
         press' = [press EXCEPT ![h] = p]
  PROVE  /\ Cardinality(Recording) \in Nat /\ Cardinality(Recording') \in Nat
         /\ Cardinality(Recording') = Cardinality(Recording) - 1
<1>1. Recording' = Recording \ {h} /\ h \in Recording BY DEF Recording, EmergencyInv
<1>2. IsFiniteSet(Recording) BY EmergencyNats, FS_Subset DEF Recording
<1> QED BY <1>1, <1>2, FS_RemoveElement, FS_CardinalityType

LEMMA EmergencyKeeps ==
  ASSUME EmergencyInv, NEW h \in Handlers, Emergency!Keep(h)
  PROVE  EmergencyInv'
<1>1. PICK ok \in BOOLEAN :
        /\ press[h].st = "record"
        /\ calls' = IF ok THEN Append(calls, [mode |-> press[h].mode, recent |-> TRUE,
                                              told |-> {}, failed |-> {}]) ELSE calls
        /\ press' = [press EXCEPT ![h] = IF ok THEN [st |-> "tutor", row |-> Len(calls) + 1]
                                         ELSE Emergency!Idle]
        /\ UNCHANGED <<custody, phones>>
  BY Zenon DEF Emergency!Keep
<1>2. /\ Len(calls) \in Nat /\ DOMAIN calls = 1 .. Len(calls)
      /\ \A i \in DOMAIN calls : calls[i] \in Calls
      /\ IsFiniteSet(Recents) /\ Cardinality(Recents) \in Nat
  BY CallsAre DEF EmergencyInv, Recents
<1>3. CASE ~ok
  <2>1. PICK p : p = Emergency!Idle OBVIOUS
  <2>2. p.st = "idle" BY <2>1 DEF Emergency!Idle
  <2>3. press' = [press EXCEPT ![h] = p] /\ calls' = calls BY <1>1, <1>3, <2>1
  <2>4. PressFits(p) BY <2>2 DEF PressFits
  <2>5. Counted'
    <3>1. Recents' = Recents BY <2>3 DEF Recents
    <3>2. /\ Cardinality(Recording) \in Nat /\ Cardinality(Recording') \in Nat
          /\ Cardinality(Recording') = Cardinality(Recording) - 1
      BY <1>1, <2>2, <2>3, RecordsOneLess
    <3>3. Counted BY DEF EmergencyInv
    <3> QED BY <1>2, <3>1, <3>2, <3>3, EmergencyNats DEF Counted
  <2> QED BY <1>1, <2>3, <2>4, <2>5, PressTurns
<1>4. CASE ok
  <2>1. PICK c \in Calls : c = [mode |-> press[h].mode, recent |-> TRUE, told |-> {}, failed |-> {}]
    <3>1. press[h].mode \in Modes BY <1>1 DEF EmergencyInv, PressFits
    <3> QED BY <3>1 DEF Calls
  <2>2. PICK p : p = [st |-> "tutor", row |-> Len(calls) + 1] OBVIOUS
  <2>3. calls' = Append(calls, c) /\ press' = [press EXCEPT ![h] = p] BY <1>1, <1>4, <2>1, <2>2
  <2>4. /\ calls' \in Seq(Calls) /\ DOMAIN calls' = DOMAIN calls \cup {Len(calls) + 1}
        /\ calls'[Len(calls) + 1] = c /\ \A i \in DOMAIN calls : calls'[i] = calls[i]
        /\ Len(calls) + 1 \notin DOMAIN calls
    BY <1>2, <2>3 DEF EmergencyInv
  <2>5. /\ press'[h].st = "tutor" /\ press'[h].row = Len(calls) + 1 /\ DOMAIN press' = Handlers
        /\ \A g \in Handlers : g # h => press'[g] = press[g]
    BY <2>2, <2>3 DEF EmergencyInv
  <2>6. ASSUME NEW g \in Handlers PROVE PressFits(press[g])'
    <3>1. CASE g = h BY <2>4, <2>5, <3>1 DEF PressFits
    <3>2. CASE g # h
      <4>1. PressFits(press[g]) /\ press'[g] = press[g] BY <2>5, <3>2 DEF EmergencyInv
      <4> QED BY <2>4, <4>1 DEF PressFits
    <3> QED BY <3>1, <3>2
  <2>7. Counted'
    <3>1. Recents' = Recents \cup {Len(calls) + 1} /\ Len(calls) + 1 \notin Recents
      BY <2>1, <2>4 DEF Recents
    <3>2. Cardinality(Recents') = Cardinality(Recents) + 1
      BY <1>2, <3>1, FS_AddElement
    <3>3. p.st # "record" BY <2>2
    <3>4. /\ Cardinality(Recording) \in Nat /\ Cardinality(Recording') \in Nat
          /\ Cardinality(Recording') = Cardinality(Recording) - 1
      BY <1>1, <2>3, <3>3, RecordsOneLess
    <3>5. Counted BY DEF EmergencyInv
    <3> QED BY <1>2, <3>2, <3>4, <3>5, EmergencyNats DEF Counted
  <2>8. ASSUME NEW i \in DOMAIN calls' PROVE Answered(i)'
    <3>1. CASE i = Len(calls) + 1 BY <2>5, <3>1 DEF Answered
    <3>2. CASE i # Len(calls) + 1
      <4>1. i \in DOMAIN calls /\ calls'[i] = calls[i] BY <2>4, <3>2
      <4>2. Answered(i) BY <4>1 DEF EmergencyInv
      <4>3. CASE calls[i].told \cup calls[i].failed = Callees BY <4>1, <4>3 DEF Answered
      <4>4. CASE calls[i].told \cup calls[i].failed # Callees
        <5>1. PICK g \in Handlers : press[g].st \in {"tutor", "staff"} /\ press[g].row = i
          BY <4>2, <4>4 DEF Answered
        <5>2. g # h BY <1>1, <5>1
        <5> QED BY <2>5, <5>1, <5>2 DEF Answered
      <4> QED BY <4>3, <4>4
    <3> QED BY <3>1, <3>2
  <2> QED BY <1>1, <2>4, <2>5, <2>6, <2>7, <2>8 DEF EmergencyInv
<1> QED BY <1>3, <1>4

\* Telling one of a call adds it to those told, or to those who could not be.
LEMMA ToldIs ==
  ASSUME EmergencyInv, NEW n \in DOMAIN calls, NEW who \in Callees, NEW ok \in BOOLEAN,
         NEW cs, cs = Emergency!Told(n, who, ok)
  PROVE  /\ cs \in Seq(Calls) /\ DOMAIN cs = DOMAIN calls
         /\ \A i \in DOMAIN calls : i # n => cs[i] = calls[i]
         /\ \A i \in DOMAIN calls : cs[i].recent = calls[i].recent
         /\ cs[n].told \cup cs[n].failed = (calls[n].told \cup calls[n].failed) \cup {who}
<1>1. calls \in Seq(Calls) /\ calls[n] \in Calls BY SeqFacts DEF EmergencyInv
<1>2. PICK r \in Calls : r = calls[n] BY <1>1
<1>3. PICK c \in Calls : /\ cs = [calls EXCEPT ![n] = c] /\ c.recent = r.recent
                         /\ c.told \cup c.failed = (r.told \cup r.failed) \cup {who}
  <2>1. CASE ok
    <3>1. [r EXCEPT !.told = r.told \cup {who}] \in Calls BY <1>2 DEF Calls
    <3>2. PICK c \in Calls : c = [r EXCEPT !.told = r.told \cup {who}] BY <3>1
    <3>3. c.recent = r.recent /\ c.failed = r.failed /\ c.told = r.told \cup {who}
      BY <3>2 DEF Calls
    <3>4. cs = [calls EXCEPT ![n] = c] BY <1>2, <2>1, <3>2 DEF Emergency!Told
    <3> QED BY <3>3, <3>4
  <2>2. CASE ~ok
    <3>1. [r EXCEPT !.failed = r.failed \cup {who}] \in Calls BY <1>2 DEF Calls
    <3>2. PICK c \in Calls : c = [r EXCEPT !.failed = r.failed \cup {who}] BY <3>1
    <3>3. c.recent = r.recent /\ c.told = r.told /\ c.failed = r.failed \cup {who}
      BY <3>2 DEF Calls
    <3>4. cs = [calls EXCEPT ![n] = c] BY <1>2, <2>2, <3>2 DEF Emergency!Told
    <3> QED BY <3>3, <3>4
  <2> QED BY <2>1, <2>2
<1>4. DOMAIN calls = 1 .. Len(calls) /\ Len(calls) \in Nat BY <1>1, SeqFacts
<1>5. cs \in Seq(Calls) /\ DOMAIN cs = DOMAIN calls BY <1>1, <1>3, <1>4
<1>6. cs[n] = c /\ \A i \in DOMAIN calls : i # n => cs[i] = calls[i] BY <1>1, <1>3, <1>4
<1> QED BY <1>2, <1>3, <1>5, <1>6

\* A request told one more, and has the staff to tell or told all.
Telling(h, ok, who, p) ==
  /\ press[h].st \in {"tutor", "staff"} /\ p.st \in {"idle", "staff"}
  /\ who = "tutor" => press[h].st = "tutor" /\ p.st = "staff" /\ p.row = press[h].row
  /\ who = "staff" => press[h].st = "staff" /\ p.st = "idle"
  /\ calls' = Emergency!Told(press[h].row, who, ok)
  /\ press' = [press EXCEPT ![h] = p] /\ UNCHANGED <<custody, phones>>

LEMMA EmergencyTells ==
  ASSUME EmergencyInv, NEW h \in Handlers, NEW ok \in BOOLEAN, NEW who \in Callees, NEW p,
         Telling(h, ok, who, p)
  PROVE  EmergencyInv'
<1> USE DEF Telling
<1>1. PICK n \in DOMAIN calls : n = press[h].row BY DEF EmergencyInv, PressFits
<1>2. PICK cs : cs = calls' OBVIOUS
<1>3. /\ calls' \in Seq(Calls) /\ DOMAIN calls' = DOMAIN calls
      /\ \A i \in DOMAIN calls : i # n => calls'[i] = calls[i]
      /\ \A i \in DOMAIN calls : calls'[i].recent = calls[i].recent
      /\ calls'[n].told \cup calls'[n].failed = (calls[n].told \cup calls[n].failed) \cup {who}
  <2>1. cs = Emergency!Told(n, who, ok) BY <1>1, <1>2
  <2> QED BY <1>2, <2>1, ToldIs
<1>4. /\ press'[h] = p /\ DOMAIN press' = Handlers
      /\ \A g \in Handlers : g # h => press'[g] = press[g]
  BY DEF EmergencyInv
<1>5. ASSUME NEW g \in Handlers PROVE PressFits(press[g])'
  <2>1. CASE g = h
    <3>1. p.st = "staff" => who = "tutor" /\ p.row = n BY <1>1 DEF Callees
    <3>2. who = "tutor" => "tutor" \in calls'[n].told \cup calls'[n].failed BY <1>3
    <3> QED BY <1>3, <1>4, <2>1, <3>1, <3>2 DEF PressFits
  <2>2. CASE g # h
    <3>1. PressFits(press[g]) /\ press'[g] = press[g] BY <1>4, <2>2 DEF EmergencyInv
    <3>2. ASSUME press[g].st = "staff"
          PROVE  "tutor" \in calls'[press[g].row].told \cup calls'[press[g].row].failed
      <4>1. /\ press[g].row \in DOMAIN calls
            /\ "tutor" \in calls[press[g].row].told \cup calls[press[g].row].failed
        BY <3>1, <3>2 DEF PressFits
      <4>2. CASE press[g].row = n BY <1>3, <4>1, <4>2
      <4>3. CASE press[g].row # n
        <5>1. calls'[press[g].row] = calls[press[g].row] BY <1>3, <4>1, <4>3
        <5> QED BY <4>1, <5>1
      <4> QED BY <4>2, <4>3
    <3> QED BY <1>3, <3>1, <3>2 DEF PressFits
  <2> QED BY <2>1, <2>2
<1>6. Counted'
  <2>1. Recents' = Recents BY <1>3 DEF Recents
  <2>2. Recording' = Recording BY <1>4 DEF Recording
  <2>3. Counted BY DEF EmergencyInv
  <2> QED BY <2>1, <2>2, <2>3 DEF Counted
<1>7. ASSUME NEW i \in DOMAIN calls' PROVE Answered(i)'
  <2>1. Answered(i) BY <1>3 DEF EmergencyInv
  <2>2. CASE i = n /\ who = "tutor"
    BY <1>1, <1>4, <2>2 DEF Answered
  <2>3. CASE i = n /\ who = "staff"
    <3>1. "tutor" \in calls[n].told \cup calls[n].failed
      BY <1>1, <2>3 DEF EmergencyInv, PressFits
    <3>2. calls[n].told \cup calls[n].failed \subseteq Callees
      <4>1. calls[n] \in Calls BY SeqFacts DEF EmergencyInv
      <4> QED BY <4>1 DEF Calls
    <3> QED BY <1>3, <2>3, <3>1, <3>2 DEF Answered, Callees
  <2>4. CASE i # n
    <3>1. calls'[i] = calls[i] BY <1>3, <2>4
    <3>2. CASE calls[i].told \cup calls[i].failed = Callees BY <3>1, <3>2 DEF Answered
    <3>3. CASE calls[i].told \cup calls[i].failed # Callees
      <4>1. PICK g \in Handlers : press[g].st \in {"tutor", "staff"} /\ press[g].row = i
        BY <2>1, <3>3 DEF Answered
      <4>2. g # h BY <1>1, <2>4, <4>1
      <4> QED BY <1>4, <4>1, <4>2 DEF Answered
    <3> QED BY <3>2, <3>3
  <2> QED BY <2>2, <2>3, <2>4 DEF Callees
<1> QED BY <1>3, <1>4, <1>5, <1>6, <1>7 DEF EmergencyInv

LEMMA EmergencyElapses == ASSUME EmergencyInv, Emergency!Elapse PROVE EmergencyInv'
<1>1. /\ Len(calls) \in Nat /\ DOMAIN calls = 1 .. Len(calls)
      /\ \A i \in DOMAIN calls : calls[i] \in Calls
  BY CallsAre DEF EmergencyInv
<1>2. /\ calls' = [i \in DOMAIN calls |-> [calls[i] EXCEPT !.recent = FALSE]]
      /\ UNCHANGED <<custody, phones, press>>
  BY DEF Emergency!Elapse
<1>3. ASSUME NEW i \in DOMAIN calls
      PROVE  /\ calls'[i] \in Calls /\ ~calls'[i].recent
             /\ calls'[i].told = calls[i].told /\ calls'[i].failed = calls[i].failed
  BY <1>1, <1>2 DEF Calls
<1>4. calls' \in Seq(Calls) /\ DOMAIN calls' = DOMAIN calls
  <2>1. DOMAIN calls' = DOMAIN calls BY <1>2
  <2>2. calls' = [i \in 1 .. Len(calls) |-> calls'[i]] BY <1>1, <1>2
  <2>3. calls' \in [1 .. Len(calls) -> Calls] BY <1>1, <1>3, <2>1, <2>2
  <2> QED BY <1>1, <2>1, <2>3, Mapped
<1>5. ASSUME NEW g \in Handlers PROVE PressFits(press[g])'
  <2>1. PressFits(press[g]) /\ press' = press BY <1>2 DEF EmergencyInv
  <2> QED BY <1>3, <1>4, <2>1 DEF PressFits
<1>6. Counted'
  <2>1. Recents' = {} BY <1>3, <1>4 DEF Recents
  <2>2. Recording' = Recording BY <1>2 DEF Recording
  <2>3. IsFiniteSet(Recording) /\ Recording \subseteq Handlers
    BY EmergencyNats, FS_Subset DEF Recording
  <2>4. Cardinality(Recording) \in Nat /\ Cardinality(Recording) <= Cardinality(Handlers)
    BY <2>3, EmergencyNats, FS_Subset, FS_CardinalityType
  <2>5. Cardinality(Recents') = 0 BY <2>1, FS_EmptySet
  <2> QED BY <2>2, <2>4, <2>5, EmergencyNats DEF Counted
<1>7. ASSUME NEW i \in DOMAIN calls' PROVE Answered(i)'
  <2>1. Answered(i) BY <1>4 DEF EmergencyInv
  <2> QED BY <1>2, <1>3, <1>4, <2>1 DEF Answered
<1> QED BY <1>2, <1>4, <1>5, <1>6, <1>7 DEF EmergencyInv

LEMMA EmergencyNext == ASSUME EmergencyInv, [Emergency!Next]_OfEmergency PROVE EmergencyInv'
<1>1. CASE UNCHANGED OfEmergency
  BY <1>1 DEF OfEmergency, EmergencyInv, PressFits, Counted, Recents, Recording, Answered
<1>2. ASSUME NEW h \in Handlers, Emergency!Press(h) \/ Emergency!Keep(h) PROVE EmergencyInv'
  BY <1>2, EmergencyPresses, EmergencyKeeps
<1>3. ASSUME NEW h \in Handlers, Emergency!TellTutor(h) PROVE EmergencyInv'
  <2>1. PICK ok \in BOOLEAN :
          /\ press[h].st = "tutor" /\ calls' = Emergency!Told(press[h].row, "tutor", ok)
          /\ press' = [press EXCEPT ![h] = [press[h] EXCEPT !.st = "staff"]]
          /\ UNCHANGED <<custody, phones>>
    BY <1>3 DEF Emergency!TellTutor, Emergency!AfterTutor
  <2>2. PICK p : p = [press[h] EXCEPT !.st = "staff"] OBVIOUS
  <2>3. p.st = "staff" /\ p.row = press[h].row BY <2>1, <2>2
  <2>4. PICK who \in Callees : who = "tutor" BY DEF Callees
  <2>5. calls' = Emergency!Told(press[h].row, who, ok) BY <2>1, <2>4
  <2>6. press' = [press EXCEPT ![h] = p] BY <2>1, <2>2
  <2>7. press[h].st \in {"tutor", "staff"} /\ p.st \in {"idle", "staff"} BY <2>1, <2>3
  <2>8. who = "tutor" => press[h].st = "tutor" /\ p.st = "staff" /\ p.row = press[h].row
    BY <2>1, <2>3
  <2>9. who = "staff" => press[h].st = "staff" /\ p.st = "idle" BY <2>4
  <2>10. UNCHANGED <<custody, phones>> BY <2>1
  <2>11. Telling(h, ok, who, p) BY <2>5, <2>6, <2>7, <2>8, <2>9, <2>10 DEF Telling
  <2> QED BY <2>11, EmergencyTells
<1>4. ASSUME NEW h \in Handlers, Emergency!TellStaff(h) PROVE EmergencyInv'
  <2>1. PICK ok \in BOOLEAN :
          /\ press[h].st = "staff" /\ calls' = Emergency!Told(press[h].row, "staff", ok)
          /\ press' = [press EXCEPT ![h] = Emergency!Idle]
          /\ UNCHANGED <<custody, phones>>
    BY <1>4 DEF Emergency!TellStaff
  <2>2. PICK p : p = Emergency!Idle OBVIOUS
  <2>3. p.st = "idle" BY <2>2 DEF Emergency!Idle
  <2>4. PICK who \in Callees : who = "staff" BY DEF Callees
  <2>5. calls' = Emergency!Told(press[h].row, who, ok) BY <2>1, <2>4
  <2>6. press' = [press EXCEPT ![h] = p] BY <2>1, <2>2
  <2>7. press[h].st \in {"tutor", "staff"} /\ p.st \in {"idle", "staff"} BY <2>1, <2>3
  <2>8. who = "tutor" => press[h].st = "tutor" /\ p.st = "staff" /\ p.row = press[h].row BY <2>4
  <2>9. who = "staff" => press[h].st = "staff" /\ p.st = "idle" BY <2>1, <2>3
  <2>10. UNCHANGED <<custody, phones>> BY <2>1
  <2>11. Telling(h, ok, who, p) BY <2>5, <2>6, <2>7, <2>8, <2>9, <2>10 DEF Telling
  <2> QED BY <2>11, EmergencyTells
<1>5. CASE Emergency!WalkMoves
  BY <1>5 DEF Emergency!WalkMoves, EmergencyInv, PressFits, Counted, Recents, Recording, Answered
<1> QED BY <1>1, <1>2, <1>3, <1>4, <1>5, EmergencyElapses DEF Emergency!Next

LEMMA EmergencyFollows == ASSUME EmergencyInv PROVE Emergency!CallsAreTold /\ Emergency!TypeOK
<1>1. Cardinality(Recents) \in Nat /\ IsFiniteSet(Recording)
  BY CallsAre, EmergencyNats, FS_Subset DEF Recents, Recording, EmergencyInv
<1>2. Cardinality(Recording) \in Nat BY <1>1, FS_CardinalityType
<1>3. Emergency!Lately = Cardinality(Recents) BY EmergencyNats DEF Emergency!Lately, Recents
<1>4. Emergency!Lately < MaxCalls + Emergency!Cardinality(Handlers)
  BY <1>1, <1>2, <1>3, EmergencyNats DEF EmergencyInv, Counted
<1>5. Emergency!CallsAreTold
  BY <1>4 DEF Emergency!CallsAreTold, EmergencyInv, Answered, Callees
<1>6. Emergency!TypeOK
  <2>1. \A i \in DOMAIN calls : calls[i].told \cup calls[i].failed \subseteq Callees
    <3>1. \A i \in DOMAIN calls : calls[i] \in Calls BY CallsAre DEF EmergencyInv
    <3> QED BY <3>1 DEF Calls
  <2> QED BY <2>1 DEF Emergency!TypeOK, EmergencyInv, Callees
<1> QED BY <1>5, <1>6

----------------------------------------------------------------------------
(* Live tracking *)

Trackers == [last : Nat, unsent : SUBSET Nat]
Viewers  == [seen : SUBSET Nat, since : Nat, late : SUBSET Nat]
Views    == [what : SUBSET Nat, first : BOOLEAN]
Strolls  == [st : {"waiting", "active", "over"}, gps : BOOLEAN]

Posting  == {h \in Solo : posting[h].st = "post"}
Room(n)  == Batch * n

PostFits(p) == p.st = "post" => p.batch \subseteq 1 .. tracker.last /\ Cardinality(p.batch) <= Batch

\* A request was let in while the table was not full, and brings at most one batch.
RowsFit == Len(rows) + Room(Cardinality(Posting)) <= MaxPings - 1 + Room(Cardinality(Solo))

SeenFits == \A n \in Tracking!Saved : n <= tutor.since => n \in tutor.seen \cup tutor.late

TrackingInv ==
  /\ stroll \in Strolls /\ tracker \in Trackers /\ tutor \in Viewers /\ shown \in Views
  /\ rows \in Seq(Nat) /\ Tracking!Saved \subseteq 1 .. tracker.last
  /\ tracker.unsent \subseteq 1 .. tracker.last
  /\ DOMAIN posting = Solo /\ \A h \in Solo : PostFits(posting[h])
  /\ tutor.seen \subseteq Tracking!Saved /\ shown.what \subseteq Tracking!Saved
  /\ SeenFits /\ RowsFit /\ Tracking!HomeIsHidden

LEMMA TrackingNats ==
  /\ MaxPings \in Nat \ {0} /\ Batch \in Nat /\ Page \in Nat
  /\ IsFiniteSet(Solo) /\ Cardinality(Solo) \in Nat
  /\ \A S : Tracking!Cardinality(S) = Cardinality(S)
<1>1. MaxPings \in Nat \ {0} /\ Batch \in Nat /\ Page \in Nat /\ IsFiniteSet(Solo)
  BY TrackingParameters DEF Tracking!ParametersAssumption, Tracking!IsFiniteSet, IsFiniteSet
<1>2. \A S : Tracking!Cardinality(S) = Cardinality(S)
  BY DEF Tracking!Cardinality, Cardinality, Tracking!IsFiniteSet, IsFiniteSet
<1> QED BY <1>1, <1>2, FS_CardinalityType

LEMMA Rooms ==
  /\ \A n \in Nat : Room(n) \in Nat /\ Room(n + 1) = Room(n) + Batch
  /\ \A m, n \in Nat : m <= n => Room(m) <= Room(n)
BY TrackingNats DEF Room

LEMMA PostingIs ==
  /\ IsFiniteSet(Posting) /\ Cardinality(Posting) \in Nat
  /\ Cardinality(Posting) <= Cardinality(Solo)
<1>1. Posting \subseteq Solo BY DEF Posting
<1> QED BY <1>1, TrackingNats, FS_Subset, FS_CardinalityType

LEMMA TrackingInit == ASSUME Tracking!Init PROVE TrackingInv
<1>1. rows \in Seq(Nat) /\ Tracking!Saved = {} /\ Len(rows) = 0
  BY EmptySeq DEF Tracking!Init, Tracking!Saved
<1>2. \A h \in Solo : posting[h].st = "idle" BY DEF Tracking!Init, Tracking!Idle
<1>3. RowsFit
  <2>1. Posting = {} BY <1>2 DEF Posting
  <2>2. Cardinality(Posting) = 0 BY <2>1, FS_EmptySet
  <2>3. Room(0) = 0 /\ Room(Cardinality(Solo)) \in Nat BY Rooms, TrackingNats DEF Room
  <2> QED BY <1>1, <2>2, <2>3, TrackingNats DEF RowsFit
<1>4. /\ stroll = [st |-> "waiting", gps |-> TRUE] /\ tracker = [last |-> 0, unsent |-> {}]
      /\ tutor = [seen |-> {}, since |-> 0, late |-> {}]
      /\ shown = [what |-> {}, first |-> FALSE] /\ DOMAIN posting = Solo
  BY DEF Tracking!Init
<1>5. stroll \in Strolls /\ tracker \in Trackers /\ tutor \in Viewers /\ shown \in Views
  BY <1>4 DEF Strolls, Trackers, Viewers, Views
<1>6. \A h \in Solo : PostFits(posting[h]) BY <1>2 DEF PostFits
<1>7. Tracking!HomeIsHidden /\ SeenFits BY <1>1, <1>4 DEF Tracking!HomeIsHidden, SeenFits
<1> QED BY <1>1, <1>3, <1>4, <1>5, <1>6, <1>7 DEF TrackingInv

LEMMA TrackingRecords == ASSUME TrackingInv, Tracking!Record PROVE TrackingInv'
<1>1. PICK n \in Nat : n = tracker.last BY DEF TrackingInv, Trackers
<1>2. PICK u \in SUBSET Nat : u = tracker.unsent /\ u \subseteq 1 .. n
  BY <1>1 DEF TrackingInv, Trackers
<1>3. PICK t \in Trackers : t = [last |-> n + 1, unsent |-> u \cup {n + 1}]
  <2>1. [last |-> n + 1, unsent |-> u \cup {n + 1}] \in Trackers BY DEF Trackers
  <2> QED BY <2>1
<1>4. tracker' = t /\ t.last = n + 1 /\ t.unsent = u \cup {n + 1}
  BY <1>1, <1>2, <1>3 DEF Tracking!Record, TrackingInv, Trackers
<1>5. UNCHANGED <<stroll, rows, posting, tutor, shown>> BY DEF Tracking!Record
<1>6. Tracking!Saved' = Tracking!Saved BY <1>5 DEF Tracking!Saved
<1>7. 1 .. n \subseteq 1 .. n + 1 OBVIOUS
<1>8. \A h \in Solo : PostFits(posting[h])'
  BY <1>1, <1>4, <1>5, <1>7 DEF TrackingInv, PostFits
<1>9. SeenFits' /\ RowsFit' /\ Tracking!HomeIsHidden'
  BY <1>5, <1>6 DEF TrackingInv, SeenFits, RowsFit, Posting, Tracking!HomeIsHidden
<1>10. tracker'.unsent \subseteq 1 .. tracker'.last BY <1>2, <1>4
<1>11. Tracking!Saved' \subseteq 1 .. tracker'.last BY <1>1, <1>4, <1>6, <1>7 DEF TrackingInv
<1> QED BY <1>4, <1>5, <1>6, <1>8, <1>9, <1>10, <1>11 DEF TrackingInv

LEMMA TrackingPosts ==
  ASSUME TrackingInv, NEW h \in Solo, Tracking!Post(h)
  PROVE  TrackingInv'
<1>1. PICK batch \in SUBSET tracker.unsent :
        /\ Tracking!Cardinality(batch) <= Batch /\ ~Tracking!Full
        /\ posting' = [posting EXCEPT ![h] = [st |-> "post", batch |-> batch]]
        /\ UNCHANGED <<stroll, tracker, rows, tutor, shown>>
  BY DEF Tracking!Post
<1>2. PICK p : p = [st |-> "post", batch |-> batch] OBVIOUS
<1>3. p.batch \subseteq 1 .. tracker.last /\ Cardinality(p.batch) <= Batch
  BY <1>1, <1>2, TrackingNats DEF TrackingInv
<1>4. posting' = [posting EXCEPT ![h] = p] BY <1>1, <1>2
<1>5. Tracking!Saved' = Tracking!Saved BY <1>1 DEF Tracking!Saved
<1>6. \A g \in Solo : PostFits(posting[g])' BY <1>1, <1>3, <1>4 DEF TrackingInv, PostFits
<1>7. RowsFit'
  <2>1. Len(rows) \in Nat /\ Len(rows) <= MaxPings - 1
    <3>1. Len(rows) \in Nat BY DEF TrackingInv
    <3> QED BY <1>1, <3>1, TrackingNats DEF Tracking!Full
  <2>2. Posting' \subseteq Solo BY DEF Posting
  <2>3. Cardinality(Posting') \in Nat /\ Cardinality(Posting') <= Cardinality(Solo)
    BY <2>2, TrackingNats, FS_Subset, FS_CardinalityType
  <2>4. /\ Room(Cardinality(Posting')) \in Nat /\ Room(Cardinality(Solo)) \in Nat
        /\ Room(Cardinality(Posting')) <= Room(Cardinality(Solo))
    BY <2>3, Rooms, TrackingNats
  <2>5. Len(rows') = Len(rows) /\ Room(Cardinality(Posting))' = Room(Cardinality(Posting'))
    BY <1>1 DEF Room
  <2> QED BY <2>1, <2>4, <2>5, TrackingNats DEF RowsFit, Room
<1>8. SeenFits' /\ Tracking!HomeIsHidden'
  BY <1>1, <1>5 DEF TrackingInv, SeenFits, Tracking!HomeIsHidden
<1>9. DOMAIN posting' = Solo BY <1>4 DEF TrackingInv
<1> QED BY <1>1, <1>5, <1>6, <1>7, <1>8, <1>9 DEF TrackingInv

LEMMA TrackingCommits ==
  ASSUME TrackingInv, NEW h \in Solo, Tracking!CommitPost(h)
  PROVE  TrackingInv'
<1>1. PICK b \in SUBSET (1 .. tracker.last) : b = posting[h].batch /\ Cardinality(b) <= Batch
  BY DEF TrackingInv, PostFits, Tracking!CommitPost
<1>2. PICK order \in Tracking!InSomeOrder(b) :
        /\ posting[h].st = "post" /\ posting' = [posting EXCEPT ![h] = Tracking!Idle]
        /\ rows' = rows \o order
        /\ tutor' = [tutor EXCEPT !.late = @ \cup {n \in b : n <= tutor.since}]
        /\ UNCHANGED <<stroll, shown>>
  BY <1>1 DEF Tracking!CommitPost
<1>3. tracker' = [tracker EXCEPT !.unsent = tracker.unsent \ b] \/ tracker' = tracker
  BY <1>1 DEF Tracking!CommitPost
<1>4. /\ tracker' \in Trackers /\ tracker'.last = tracker.last
      /\ tracker'.unsent \subseteq 1 .. tracker.last /\ tracker.last \in Nat
  BY <1>3 DEF TrackingInv, Trackers
<1>5. order \in Seq(b) /\ Len(order) \in Nat /\ Len(order) <= Batch
  <2>1. IsFiniteSet(b)
    <3>1. IsFiniteSet(1 .. tracker.last) BY <1>4, FS_Interval
    <3> QED BY <3>1, FS_Subset
  <2>2. Cardinality(b) \in Nat BY <2>1, FS_CardinalityType
  <2>3. order \in [1 .. Cardinality(b) -> b]
    BY <1>2, TrackingNats DEF Tracking!InSomeOrder
  <2>4. order \in Seq(b) /\ Len(order) = Cardinality(b) BY <2>2, <2>3, Mapped
  <2> QED BY <1>1, <2>2, <2>4
<1>6. b \subseteq Nat BY <1>4
<1>7. /\ rows' \in Seq(Nat) /\ Len(rows) \in Nat /\ Len(rows') = Len(rows) + Len(order)
      /\ DOMAIN rows = 1 .. Len(rows) /\ DOMAIN rows' = 1 .. Len(rows')
      /\ \A i \in DOMAIN rows : rows'[i] = rows[i]
      /\ \A i \in DOMAIN rows' : i \in DOMAIN rows \/ rows'[i] \in b
  <2>1. rows \in Seq(Nat) /\ order \in Seq(Nat) BY <1>5, <1>6 DEF TrackingInv
  <2>2. /\ rows' \in Seq(Nat) /\ Len(rows) \in Nat /\ Len(rows') = Len(rows) + Len(order)
        /\ DOMAIN rows = 1 .. Len(rows) /\ DOMAIN rows' = 1 .. Len(rows')
        /\ \A i \in DOMAIN rows : rows'[i] = rows[i]
    BY <1>2, <2>1
  <2>3. ASSUME NEW i \in DOMAIN rows', i \notin DOMAIN rows PROVE rows'[i] \in b
    <3>1. i - Len(rows) \in 1 .. Len(order) BY <1>5, <2>2, <2>3
    <3>2. rows'[i] = order[i - Len(rows)] BY <1>2, <2>1, <2>2, <2>3, <3>1
    <3>3. order[i - Len(rows)] \in b BY <1>5, <3>1
    <3> QED BY <3>2, <3>3
  <2> QED BY <2>2, <2>3
<1>8. Tracking!Saved \subseteq Tracking!Saved' /\ Tracking!Saved' \subseteq Tracking!Saved \cup b
  <2>1. ASSUME NEW n \in Tracking!Saved PROVE n \in Tracking!Saved'
    <3>1. PICK i \in DOMAIN rows : n = rows[i] BY DEF Tracking!Saved
    <3>2. i \in DOMAIN rows' /\ rows'[i] = n BY <1>5, <1>7, <3>1
    <3> QED BY <3>2 DEF Tracking!Saved
  <2>2. ASSUME NEW n \in Tracking!Saved' PROVE n \in Tracking!Saved \cup b
    <3>1. PICK i \in DOMAIN rows' : n = rows'[i] BY DEF Tracking!Saved
    <3>2. CASE i \in DOMAIN rows BY <1>7, <3>1, <3>2 DEF Tracking!Saved
    <3>3. CASE i \notin DOMAIN rows BY <1>7, <3>1, <3>3
    <3> QED BY <3>2, <3>3
  <2> QED BY <2>1, <2>2
<1>9. PICK v \in Viewers :
        /\ tutor' = v /\ v.seen = tutor.seen /\ v.since = tutor.since
        /\ v.late = tutor.late \cup {n \in b : n <= tutor.since}
  <2>1. PICK old \in Viewers : old = tutor BY DEF TrackingInv
  <2>2. PICK l \in SUBSET Nat : l = old.late \cup {n \in b : n <= old.since}
    BY <1>6 DEF Viewers
  <2>3. PICK v : v = [old EXCEPT !.late = l] OBVIOUS
  <2>4. v \in Viewers /\ v.seen = old.seen /\ v.since = old.since /\ v.late = l
    BY <2>3 DEF Viewers
  <2>5. tutor' = v BY <1>2, <2>1, <2>2, <2>3
  <2> QED BY <2>1, <2>2, <2>4, <2>5
<1>10. SeenFits'
  <2>1. SUFFICES ASSUME NEW n \in Tracking!Saved', n <= v.since PROVE n \in v.seen \cup v.late
    BY <1>9 DEF SeenFits
  <2>2. CASE n \in Tracking!Saved BY <1>9, <2>1, <2>2 DEF TrackingInv, SeenFits
  <2>3. CASE n \in b BY <1>9, <2>1, <2>3
  <2> QED BY <1>8, <2>2, <2>3
<1>11. PICK i : i = Tracking!Idle OBVIOUS
<1>12. i.st = "idle" BY <1>11 DEF Tracking!Idle
<1>13. /\ posting'[h].st = "idle" /\ DOMAIN posting' = Solo
       /\ \A g \in Solo : g # h => posting'[g] = posting[g]
  BY <1>2, <1>11, <1>12 DEF TrackingInv
<1>14. RowsFit'
  <2>1. Posting' = Posting \ {h} /\ h \in Posting BY <1>2, <1>13 DEF Posting
  <2>2. PICK k \in Nat : k = Cardinality(Posting')
    BY <2>1, PostingIs, FS_RemoveElement, FS_CardinalityType
  <2>3. Cardinality(Posting) = k + 1
    <3>1. Cardinality(Posting \ {h}) = Cardinality(Posting) - 1
      BY <2>1, PostingIs, FS_RemoveElement
    <3>2. Cardinality(Posting \ {h}) = k BY <2>1, <2>2
    <3> QED BY <3>1, <3>2, PostingIs
  <2>4. Room(k + 1) = Room(k) + Batch /\ Room(k) \in Nat /\ Room(Cardinality(Solo)) \in Nat
    BY Rooms, TrackingNats
  <2>5. Len(rows) + Room(k + 1) <= MaxPings - 1 + Room(Cardinality(Solo))
    BY <2>3 DEF TrackingInv, RowsFit
  <2>6. Len(rows') + Room(k) <= MaxPings - 1 + Room(Cardinality(Solo))
    BY <1>5, <1>7, <2>4, <2>5, TrackingNats
  <2>7. Room(Cardinality(Posting))' = Room(k) /\ Room(Cardinality(Solo))' = Room(Cardinality(Solo))
    BY <2>2 DEF Room
  <2> QED BY <2>6, <2>7 DEF RowsFit
<1>15. \A g \in Solo : PostFits(posting[g])'
  BY <1>4, <1>13 DEF TrackingInv, PostFits
<1>16. Tracking!HomeIsHidden' BY <1>2 DEF TrackingInv, Tracking!HomeIsHidden
<1>17. Tracking!Saved' \subseteq 1 .. tracker'.last BY <1>4, <1>8 DEF TrackingInv
<1>18. tutor'.seen \subseteq Tracking!Saved' /\ shown'.what \subseteq Tracking!Saved'
  BY <1>2, <1>8, <1>9 DEF TrackingInv
<1> QED BY <1>2, <1>4, <1>7, <1>9, <1>10, <1>13, <1>14, <1>15, <1>16, <1>17, <1>18 DEF TrackingInv

\* A set of naturals that is bounded has a largest.
LEMMA LargestIs ==
  ASSUME NEW k \in Nat, NEW T \in SUBSET (0 .. k), T # {}
  PROVE  \E x \in T : \A y \in T : y <= x
<1>1. PICK U : U = {k - x : x \in T} OBVIOUS
<1>2. U \subseteq Nat /\ U # {}
  <2>1. ASSUME NEW y \in U PROVE y \in Nat
    <3>1. PICK x \in T : y = k - x BY <1>1
    <3>2. x \in 0 .. k OBVIOUS
    <3> QED BY <3>1, <3>2
  <2>2. PICK x \in T : TRUE OBVIOUS
  <2>3. k - x \in U BY <1>1
  <2> QED BY <2>1, <2>3
<1>3. PICK R : R = OpToRel(<, Nat) OBVIOUS
<1>4. IsWellFoundedOn(R, Nat) BY <1>3, NatLessThanWellFounded
<1>5. PICK u \in U : \A y \in U : <<y, u>> \notin R BY <1>2, <1>4, WFMin
<1>6. \A y \in U : ~(y < u) BY <1>2, <1>3, <1>5 DEF OpToRel
<1>7. PICK x \in T : u = k - x BY <1>1, <1>5
<1>8. ASSUME NEW y \in T PROVE y <= x
  <2>1. k - y \in U BY <1>1
  <2> QED BY <1>2, <1>6, <1>7, <2>1
<1> QED BY <1>7, <1>8

\* The app sees the oldest of what it has not seen, and asks from the newest of them on.
LEMMA TrackingPolls == ASSUME TrackingInv, Tracking!Poll PROVE TrackingInv'
<1>1. PICK since \in Nat : since = tutor.since BY DEF TrackingInv, Viewers
<1>2. PICK last \in Nat : last = tracker.last BY DEF TrackingInv, Trackers
<1>3. PICK new \in SUBSET Nat : new = Tracking!Answer(since) /\ new \subseteq 1 .. last
  <2>1. Tracking!Answer(since) \subseteq Tracking!Saved BY DEF Tracking!Answer
  <2>2. Tracking!Saved \subseteq 1 .. last BY <1>2 DEF TrackingInv
  <2> QED BY <1>2, <2>1, <2>2
<1>4. /\ new # {} /\ UNCHANGED <<stroll, tracker, rows, posting, shown>>
      /\ tutor' = [tutor EXCEPT !.seen = @ \cup new,
                                !.since = CHOOSE n \in new : \A m \in new : m <= n]
  BY <1>1, <1>3 DEF Tracking!Poll
<1>5. PICK x \in new : x = (CHOOSE n \in new : \A m \in new : m <= n) /\ \A m \in new : m <= x
  <2>1. new \subseteq 0 .. last BY <1>3
  <2>2. \E n \in new : \A m \in new : m <= n BY <1>4, <2>1, LargestIs
  <2> QED BY <2>2
<1>6. PICK v \in Viewers :
        tutor' = v /\ v.seen = tutor.seen \cup new /\ v.since = x /\ v.late = tutor.late
  <2>1. PICK old \in Viewers : old = tutor BY DEF TrackingInv
  <2>2. PICK u \in Viewers : u = [old EXCEPT !.seen = old.seen \cup new]
    <3>1. [old EXCEPT !.seen = old.seen \cup new] \in Viewers BY DEF Viewers
    <3> QED BY <3>1
  <2>3. PICK v \in Viewers : v = [u EXCEPT !.since = x]
    <3>1. [u EXCEPT !.since = x] \in Viewers BY DEF Viewers
    <3> QED BY <3>1
  <2>4. v.seen = old.seen \cup new /\ v.since = x /\ v.late = old.late
    BY <2>2, <2>3 DEF Viewers
  <2>5. tutor' = v BY <1>4, <1>5, <2>1, <2>2, <2>3 DEF Viewers
  <2> QED BY <2>1, <2>4, <2>5
<1>7. Tracking!Saved' = Tracking!Saved BY <1>4 DEF Tracking!Saved
<1>8. new \subseteq Tracking!Saved BY <1>3 DEF Tracking!Answer
<1>9. ASSUME NEW n \in Tracking!Saved, n <= x, since < n PROVE n \in new
  <2>1. n \in Nat /\ x \in Nat BY <1>3, <1>2 DEF TrackingInv
  <2>2. PICK A : A = {i \in DOMAIN rows : since < rows[i] /\ rows[i] < n} OBVIOUS
  <2>3. PICK B : B = {i \in DOMAIN rows : since < rows[i] /\ rows[i] < x} OBVIOUS
  <2>4. Len(rows) \in Nat /\ DOMAIN rows = 1 .. Len(rows) /\ \A i \in DOMAIN rows : rows[i] \in Nat
    BY SeqFacts DEF TrackingInv
  <2>5. A \subseteq B BY <1>9, <2>1, <2>2, <2>3, <2>4
  <2>6. IsFiniteSet(B)
    <3>1. IsFiniteSet(1 .. Len(rows)) BY <2>4, FS_Interval
    <3>2. B \subseteq 1 .. Len(rows) BY <2>3, <2>4
    <3> QED BY <3>1, <3>2, FS_Subset
  <2>7. Cardinality(A) \in Nat /\ Cardinality(B) \in Nat /\ Cardinality(A) <= Cardinality(B)
    BY <2>5, <2>6, FS_Subset, FS_CardinalityType
  <2>8. Tracking!Cardinality(B) < Page
    <3>1. x \in Tracking!Answer(since) BY <1>3
    <3> QED BY <2>3, <3>1 DEF Tracking!Answer
  <2>9. Tracking!Cardinality(A) < Page BY <2>7, <2>8, TrackingNats
  <2> QED BY <1>3, <1>9, <2>2, <2>9 DEF Tracking!Answer
<1>10. SeenFits'
  <2>1. SUFFICES ASSUME NEW n \in Tracking!Saved, n <= x PROVE n \in v.seen \cup v.late
    BY <1>6, <1>7 DEF SeenFits
  <2>2. n \in Nat BY <1>2 DEF TrackingInv
  <2>3. CASE since < n BY <1>6, <1>9, <2>1, <2>3
  <2>4. CASE n <= since BY <1>1, <1>6, <2>4 DEF TrackingInv, SeenFits
  <2> QED BY <2>2, <2>3, <2>4
<1>11. RowsFit' BY <1>4 DEF TrackingInv, RowsFit, Posting
<1>12. \A g \in Solo : PostFits(posting[g])' BY <1>4 DEF TrackingInv, PostFits
<1>13. Tracking!HomeIsHidden' BY <1>4 DEF TrackingInv, Tracking!HomeIsHidden
<1>14. tutor'.seen \subseteq Tracking!Saved' BY <1>6, <1>7, <1>8 DEF TrackingInv
<1> QED BY <1>4, <1>6, <1>7, <1>10, <1>11, <1>12, <1>13, <1>14 DEF TrackingInv

LEMMA TrackingViews == ASSUME TrackingInv, Tracking!View PROVE TrackingInv'
<1>1. /\ shown' = [what |-> Tracking!Public, first |-> 1 \in Tracking!Saved]
      /\ UNCHANGED <<stroll, tracker, rows, posting, tutor>>
  BY DEF Tracking!View
<1>2. PICK w \in SUBSET Nat : w = Tracking!Public /\ w \subseteq Tracking!Saved
  <2>1. Tracking!Public \subseteq Tracking!Saved BY DEF Tracking!Public
  <2>2. Tracking!Saved \subseteq Nat BY DEF TrackingInv, Trackers
  <2> QED BY <2>1, <2>2
<1>3. PICK b \in BOOLEAN : b = (1 \in Tracking!Saved)
  <2>1. (1 \in Tracking!Saved) \in BOOLEAN OBVIOUS
  <2> QED BY <2>1, Zenon
<1>4. shown' \in Views /\ shown'.what = w /\ shown'.first = b BY <1>1, <1>2, <1>3 DEF Views
<1>5. Tracking!Saved' = Tracking!Saved BY <1>1 DEF Tracking!Saved
<1>6. ASSUME 1 \in AtHome, 1 \in Tracking!Saved PROVE w \cap AtHome = {}
  <2>1. \A m \in Tracking!Saved : m \in Nat /\ 1 <= m BY DEF TrackingInv, Trackers
  <2>2. Tracking!Origin = 1
    <3>1. \A n \in Tracking!Saved : (\A m \in Tracking!Saved : n <= m) => n = 1
      BY <1>6, <2>1
    <3> QED BY <1>6, <2>1, <3>1 DEF Tracking!Origin
  <2> QED BY <1>2, <1>6, <2>2 DEF Tracking!Public
<1>7. Tracking!HomeIsHidden' BY <1>3, <1>4, <1>6 DEF Tracking!HomeIsHidden
<1>8. RowsFit' BY <1>1 DEF TrackingInv, RowsFit, Posting
<1>9. \A g \in Solo : PostFits(posting[g])' BY <1>1 DEF TrackingInv, PostFits
<1>10. SeenFits' BY <1>1, <1>5 DEF TrackingInv, SeenFits
<1> QED BY <1>1, <1>2, <1>4, <1>5, <1>7, <1>8, <1>9, <1>10 DEF TrackingInv

\* Neither the positions nor those who see them change.
LEMMA TrackingRests ==
  ASSUME TrackingInv, UNCHANGED <<tracker, rows, posting, tutor, shown>>, stroll' \in Strolls
  PROVE  TrackingInv'
<1>1. Tracking!Saved' = Tracking!Saved BY DEF Tracking!Saved
<1>2. RowsFit' /\ SeenFits' /\ Tracking!HomeIsHidden'
  BY <1>1 DEF TrackingInv, RowsFit, Posting, SeenFits, Tracking!HomeIsHidden
<1>3. \A g \in Solo : PostFits(posting[g])' BY DEF TrackingInv, PostFits
<1> QED BY <1>1, <1>2, <1>3 DEF TrackingInv

LEMMA TrackingNext == ASSUME TrackingInv, [Tracking!Next]_OfTracking PROVE TrackingInv'
<1>1. CASE UNCHANGED OfTracking BY <1>1, TrackingRests DEF OfTracking, TrackingInv
<1>2. CASE \E h \in Solo : Tracking!Post(h) \/ Tracking!CommitPost(h)
  BY <1>2, TrackingPosts, TrackingCommits
<1>3. CASE Tracking!Share \/ Tracking!Expire
  BY <1>3, TrackingRests DEF Tracking!Share, Tracking!Expire, TrackingInv
<1>4. CASE Tracking!WalkMoves
  <2>1. stroll' \in Strolls BY <1>4 DEF Tracking!WalkMoves, TrackingInv, Strolls
  <2> QED BY <1>4, <2>1, TrackingRests DEF Tracking!WalkMoves
<1> QED BY <1>1, <1>2, <1>3, <1>4, TrackingRecords, TrackingPolls, TrackingViews DEF Tracking!Next

LEMMA TrackingFollows ==
  ASSUME TrackingInv
  PROVE  Tracking!TrackIsFollowed /\ Tracking!HomeIsHidden /\ Tracking!TypeOK
<1>1. Len(rows) \in Nat /\ Room(Cardinality(Posting)) \in Nat /\ Room(Cardinality(Solo)) \in Nat
  BY Rooms, TrackingNats, PostingIs DEF TrackingInv
<1>2. Len(rows) < MaxPings + Batch * Tracking!Cardinality(Solo)
  <2>1. Tracking!Cardinality(Solo) = Cardinality(Solo) BY TrackingNats
  <2>2. Len(rows) < MaxPings + Room(Cardinality(Solo))
    BY <1>1, TrackingNats DEF TrackingInv, RowsFit
  <2> QED BY <2>1, <2>2 DEF Room
<1> QED BY <1>2 DEF TrackingInv, SeenFits, Tracking!TrackIsFollowed, Tracking!TypeOK

----------------------------------------------------------------------------
(* Notifications *)

Froms  == {"create", "chat", "reply"}
Tokens == [device : Devices, user : Users]
Notes  == [to : Users \cup {"admins"}, kind : {"safety", "critical", "plain"}, from : Froms,
           st : {"flushed", "kept", "failed", "undone"}, read : BOOLEAN, failed : BOOLEAN]
Jobs   == [note : Nat, device : Devices, moved : BOOLEAN, gone : BOOLEAN]

\* A push made up for a device that did not change hands is for who uses it; the chat's is of
\* a message that was kept.
JobFits(j) ==
  /\ j \in Jobs /\ j.note \in DOMAIN notes
  /\ ~j.moved /\ phone[j.device] # Notified!Nobody =>
       Notified!Addressed(notes[j.note], phone[j.device])
  /\ notes[j.note].from = "chat" => notes[j.note].st = "kept"
  /\ j.gone => phone[j.device] = Notified!Nobody \/ j.device \in late

\* A request has written a notification of its own and not ended it.
WritingFits(d) == d.st \in Froms =>
  /\ d.note \in DOMAIN notes /\ notes[d.note].st = "flushed" /\ notes[d.note].from = d.st

WrittenApart == \A g, h \in Solo :
  writing[g].st \in Froms /\ writing[h].st \in Froms /\ writing[g].note = writing[h].note => g = h

InboxInv ==
  /\ tokens \subseteq Tokens /\ phone \in [Devices -> Users \cup {Notified!Nobody}]
  /\ notes \in Seq(Notes)
  /\ \A r \in tokens : phone[r.device] \in {Notified!Nobody, r.user}
  /\ \A j \in jobs : JobFits(j)
  /\ DOMAIN writing = Solo /\ \A h \in Solo : WritingFits(writing[h])
  /\ WrittenApart
  /\ Notified!RingsTrue /\ Notified!LiveIsReached

LEMMA InboxInit == ASSUME Notified!Init PROVE InboxInv
<1>1. notes \in Seq(Notes) BY EmptySeq DEF Notified!Init
<1>2. \A h \in Solo : writing[h].st = "idle" BY DEF Notified!Init, Notified!Idle
<1>3. \A h \in Solo : WritingFits(writing[h]) BY <1>2 DEF WritingFits, Froms
<1>4. WrittenApart BY <1>2 DEF WrittenApart, Froms
<1>5. Notified!RingsTrue /\ Notified!LiveIsReached
  BY DEF Notified!Init, Notified!RingsTrue, Notified!LiveIsReached
<1> QED BY <1>1, <1>3, <1>4, <1>5 DEF Notified!Init, InboxInv

\* Of a notification that stays in its row only what became of it changes, and what was kept is.
Alike(ns, ms) ==
  /\ ms \in Seq(Notes) /\ DOMAIN ns \subseteq DOMAIN ms
  /\ \A i \in DOMAIN ns : /\ ms[i].to = ns[i].to /\ ms[i].from = ns[i].from
                          /\ ns[i].st = "kept" => ms[i].st = "kept"

LEMMA JobsStill ==
  ASSUME InboxInv, Alike(notes, notes'), UNCHANGED <<phone, late>>
  PROVE  \A j \in jobs : JobFits(j)'
<1>1. SUFFICES ASSUME NEW j \in jobs PROVE JobFits(j)' OBVIOUS
<1>2. JobFits(j) BY DEF InboxInv
<1>3. PICK i \in DOMAIN notes : i = j.note BY <1>2 DEF JobFits
<1>4. /\ i \in DOMAIN notes' /\ notes'[i].to = notes[i].to /\ notes'[i].from = notes[i].from
      /\ notes[i].st = "kept" => notes'[i].st = "kept"
  BY DEF Alike
<1>5. \A u : Notified!Addressed(notes[i], u) => Notified!Addressed(notes'[i], u)
  BY <1>4 DEF Notified!Addressed
<1>6. j \in Jobs /\ j.note \in DOMAIN notes' BY <1>2, <1>3, <1>4 DEF JobFits
<1>7. ~j.moved /\ phone[j.device] # Notified!Nobody =>
        Notified!Addressed(notes'[j.note], phone[j.device])
  BY <1>2, <1>3, <1>5 DEF JobFits
<1>8. notes'[j.note].from = "chat" => notes'[j.note].st = "kept" BY <1>2, <1>3, <1>4 DEF JobFits
<1> QED BY <1>2, <1>6, <1>7, <1>8 DEF JobFits

\* The pushes made up for a notification ring where it is addressed to.
LEMMA PushesAre ==
  ASSUME InboxInv, NEW i \in Nat, NEW n \in Notes, NEW j \in Notified!Pushes(i, n)
  PROVE  /\ j \in Jobs /\ j.note = i /\ ~j.gone
         /\ phone[j.device] # Notified!Nobody => Notified!Addressed(n, phone[j.device])
<1>1. PICK r \in tokens : /\ Notified!Addressed(n, r.user)
                          /\ j = [note |-> i, device |-> r.device, moved |-> FALSE, gone |-> FALSE]
  BY DEF Notified!Pushes
<1>2. r.device \in Devices /\ phone[r.device] \in {Notified!Nobody, r.user}
  BY DEF InboxInv, Tokens
<1>3. j.device = r.device BY <1>1
<1>4. j \in Jobs BY <1>1, <1>2 DEF Jobs
<1>5. j.note = i /\ ~j.gone BY <1>1
<1> QED BY <1>1, <1>2, <1>3, <1>4, <1>5

\* A step that marks notifications, and may make up or drop pushes.
LEMMA InboxMarks ==
  ASSUME InboxInv, Alike(notes, notes'), \A i \in DOMAIN notes : notes'[i].st = notes[i].st,
         \A j \in jobs' : JobFits(j)', UNCHANGED <<tokens, phone, writing, late>>,
         Notified!RingsTrue'
  PROVE  InboxInv'
<1>1. ASSUME NEW h \in Solo PROVE WritingFits(writing[h])'
  <2>1. WritingFits(writing[h]) BY DEF InboxInv
  <2> QED BY <2>1 DEF WritingFits, Alike
<1>2. WrittenApart' BY DEF InboxInv, WrittenApart
<1>3. Notified!LiveIsReached' BY DEF InboxInv, Notified!LiveIsReached
<1> QED BY <1>1, <1>2, <1>3 DEF InboxInv, Alike

LEMMA NotesAre ==
  ASSUME InboxInv
  PROVE  /\ Len(notes) \in Nat /\ DOMAIN notes = 1 .. Len(notes)
         /\ \A i \in DOMAIN notes : notes[i] \in Notes
BY SeqFacts DEF InboxInv

\* Changing one notification into m.
LEMMA OneChanges ==
  ASSUME InboxInv, NEW i \in DOMAIN notes, NEW m \in Notes, m.to = notes[i].to,
         m.from = notes[i].from, notes[i].st = "kept" => m.st = "kept",
         notes' = [notes EXCEPT ![i] = m]
  PROVE  /\ Alike(notes, notes') /\ notes'[i] = m
         /\ \A k \in DOMAIN notes : k # i => notes'[k] = notes[k]
<1>1. notes' \in Seq(Notes) /\ DOMAIN notes' = DOMAIN notes BY NotesAre DEF InboxInv
<1>2. notes'[i] = m /\ \A k \in DOMAIN notes : k # i => notes'[k] = notes[k] BY NotesAre
<1> QED BY <1>1, <1>2 DEF Alike

\* A notification is marked read or failed, or no more.
LEMMA Marked ==
  ASSUME NEW n \in Notes, NEW b \in BOOLEAN, NEW m,
         m = [n EXCEPT !.failed = b] \/ m = [n EXCEPT !.read = b]
  PROVE  m \in Notes /\ m.to = n.to /\ m.from = n.from /\ m.st = n.st
<1>1. CASE m = [n EXCEPT !.failed = b] BY <1>1 DEF Notes
<1>2. CASE m = [n EXCEPT !.read = b] BY <1>2 DEF Notes
<1> QED BY <1>1, <1>2

LEMMA OneMarked ==
  ASSUME InboxInv, NEW i \in DOMAIN notes, NEW b \in BOOLEAN,
         \/ notes' = [notes EXCEPT ![i].failed = b]
         \/ notes' = [notes EXCEPT ![i].read = b]
  PROVE  Alike(notes, notes') /\ \A k \in DOMAIN notes : notes'[k].st = notes[k].st
<1>1. PICK n \in Notes : n = notes[i] BY NotesAre
<1>2. PICK m : /\ notes' = [notes EXCEPT ![i] = m]
               /\ m = [n EXCEPT !.failed = b] \/ m = [n EXCEPT !.read = b]
  BY <1>1
<1>3. m \in Notes /\ m.to = n.to /\ m.from = n.from /\ m.st = n.st BY <1>2, Marked
<1> QED BY <1>1, <1>2, <1>3, OneChanges

LEMMA InboxRegisters ==
  ASSUME InboxInv, NEW d \in Devices, NEW u \in Users, Notified!Register(d, u)
  PROVE  InboxInv'
<1>1. /\ tokens' = {r \in tokens : r.device # d} \cup {[device |-> d, user |-> u]}
      /\ phone' = [phone EXCEPT ![d] = u]
      /\ jobs' = {IF j.device = d /\ ~Notified!Addressed(notes[j.note], u)
                  THEN [j EXCEPT !.moved = TRUE] ELSE j : j \in jobs}
      /\ late' = IF \E j \in jobs : j.device = d /\ j.gone THEN late \cup {d} ELSE late \ {d}
      /\ UNCHANGED <<notes, writing, on, rang>>
  BY DEF Notified!Register, Notified!Registered
<1>2. phone'[d] = u /\ \A e \in Devices : e # d => phone'[e] = phone[e] BY <1>1 DEF InboxInv
<1>3. /\ tokens' \subseteq Tokens
      /\ \A r \in tokens' : phone'[r.device] \in {Notified!Nobody, r.user}
  <2>1. ASSUME NEW r \in tokens', r.device = d PROVE r = [device |-> d, user |-> u]
    BY <1>1, <2>1
  <2>2. ASSUME NEW r \in tokens', r.device # d PROVE r \in tokens BY <1>1, <2>2
  <2>3. [device |-> d, user |-> u] \in Tokens BY DEF Tokens
  <2>4. tokens' \subseteq Tokens BY <2>1, <2>2, <2>3 DEF InboxInv
  <2>5. ASSUME NEW r \in tokens' PROVE phone'[r.device] \in {Notified!Nobody, r.user}
    <3>1. CASE r.device = d
      <4>1. r.user = u BY <2>1, <3>1
      <4> QED BY <1>2, <3>1, <4>1
    <3>2. CASE r.device # d
      <4>1. r \in tokens /\ r.device \in Devices BY <2>2, <3>2 DEF InboxInv, Tokens
      <4> QED BY <1>2, <3>2, <4>1 DEF InboxInv
    <3> QED BY <3>1, <3>2
  <2> QED BY <2>4, <2>5
<1>4. ASSUME NEW k \in jobs' PROVE JobFits(k)'
  <2>1. PICK j \in jobs : k = IF j.device = d /\ ~Notified!Addressed(notes[j.note], u)
                              THEN [j EXCEPT !.moved = TRUE] ELSE j
    BY <1>1
  <2>2. j \in Jobs /\ JobFits(j) BY DEF InboxInv, JobFits
  <2>3. k \in Jobs /\ k.note = j.note /\ k.device = j.device /\ k.gone = j.gone
        /\ (k.moved = j.moved \/ k.moved = TRUE)
    BY <2>1, <2>2 DEF Jobs
  <2>4. notes' = notes /\ k.note \in DOMAIN notes
        /\ (notes[k.note].from = "chat" => notes[k.note].st = "kept")
    BY <1>1, <2>2, <2>3 DEF JobFits
  <2>5. CASE j.device = d
    <3>1. ~k.moved => Notified!Addressed(notes[k.note], u)
      <4>1. CASE Notified!Addressed(notes[j.note], u) BY <2>3, <4>1
      <4>2. CASE ~Notified!Addressed(notes[j.note], u)
        <5>1. k = [j EXCEPT !.moved = TRUE] BY <2>1, <2>5, <4>2
        <5>2. k.moved = TRUE BY <2>2, <5>1 DEF Jobs
        <5> QED BY <5>2
      <4> QED BY <4>1, <4>2
    <3>2. k.gone => d \in late' BY <1>1, <2>3, <2>5
    <3>3. Notified!Addressed(notes'[k.note], u) <=> Notified!Addressed(notes[k.note], u)
      BY <2>4
    <3> QED BY <1>2, <2>3, <2>4, <2>5, <3>1, <3>2, <3>3 DEF JobFits
  <2>6. CASE j.device # d
    <3>1. k = j BY <2>1, <2>6
    <3>2. phone'[j.device] = phone[j.device] BY <1>2, <2>2, <2>6 DEF Jobs
    <3>3. j.device \in late => j.device \in late' BY <1>1, <2>6
    <3> QED BY <2>2, <2>4, <3>1, <3>2, <3>3 DEF JobFits
  <2> QED BY <2>5, <2>6
<1>5. Notified!LiveIsReached'
  <2>1. ASSUME NEW e \in Devices, e \notin late', phone'[e] # Notified!Nobody
        PROVE  [device |-> e, user |-> phone'[e]] \in tokens'
    <3>1. CASE e = d BY <1>1, <1>2, <3>1
    <3>2. CASE e # d
      <4>1. e \notin late /\ phone'[e] = phone[e] BY <1>1, <1>2, <2>1, <3>2
      <4>2. [device |-> e, user |-> phone[e]] \in tokens
        BY <2>1, <4>1 DEF InboxInv, Notified!LiveIsReached
      <4> QED BY <1>1, <3>2, <4>1, <4>2
    <3> QED BY <3>1, <3>2
  <2> QED BY <2>1 DEF Notified!LiveIsReached
<1>6. phone' \in [Devices -> Users \cup {Notified!Nobody}] BY <1>1 DEF InboxInv
<1>7. \A h \in Solo : WritingFits(writing[h])' BY <1>1 DEF InboxInv, WritingFits
<1>8. WrittenApart' /\ Notified!RingsTrue' BY <1>1 DEF InboxInv, WrittenApart, Notified!RingsTrue
<1> QED BY <1>1, <1>3, <1>4, <1>5, <1>6, <1>7, <1>8 DEF InboxInv

LEMMA InboxWrites ==
  ASSUME InboxInv, NEW h \in Solo, NEW from \in Froms, Notified!Write(h, from)
  PROVE  InboxInv'
<1>1. PICK n \in Notes :
        /\ n.from = from /\ n.st = "flushed" /\ notes' = Append(notes, n)
        /\ jobs' = jobs \cup IF Notified!AtOnce(from) THEN Notified!Pushes(Len(notes) + 1, n) ELSE {}
  <2>1. PICK to \in Users \cup {Notified!Everyone}, kind \in Notified!Kinds :
          LET n == [to |-> to, kind |-> kind, from |-> from, st |-> "flushed", read |-> FALSE,
                    failed |-> FALSE]
          IN /\ notes' = Append(notes, n)
             /\ jobs' = jobs \cup IF Notified!AtOnce(from)
                                  THEN Notified!Pushes(Len(notes) + 1, n) ELSE {}
    BY DEF Notified!Write
  <2>2. PICK n : n = [to |-> to, kind |-> kind, from |-> from, st |-> "flushed", read |-> FALSE,
                      failed |-> FALSE]
    OBVIOUS
  <2>3. to \in Users \cup {"admins"} /\ kind \in {"safety", "critical", "plain"}
    BY DEF Notified!Everyone, Notified!Kinds
  <2>4. n \in Notes BY <2>2, <2>3 DEF Notes
  <2>5. n.from = from /\ n.st = "flushed" BY <2>2
  <2> QED BY <2>1, <2>2, <2>4, <2>5
<1>2. /\ writing' = [writing EXCEPT ![h] = [st |-> from, note |-> Len(notes) + 1]]
      /\ UNCHANGED <<tokens, phone, on, rang, late>>
  BY DEF Notified!Write
<1>3. PICK k \in Nat : k = Len(notes) + 1 BY NotesAre
<1>4. /\ notes' \in Seq(Notes) /\ DOMAIN notes' = DOMAIN notes \cup {k} /\ notes'[k] = n
      /\ k \notin DOMAIN notes /\ \A i \in DOMAIN notes : notes'[i] = notes[i]
  BY <1>1, <1>3, NotesAre DEF InboxInv
<1>5. Alike(notes, notes') BY <1>4 DEF Alike
<1>6. ASSUME NEW j \in jobs' PROVE JobFits(j)'
  <2>1. CASE j \in jobs BY <1>1, <1>2, <1>5, <2>1, JobsStill
  <2>2. CASE j \notin jobs
    <3>1. Notified!AtOnce(from) /\ j \in Notified!Pushes(k, n) BY <1>1, <1>3, <2>2
    <3>2. from # "chat" BY <3>1 DEF Notified!AtOnce
    <3>3. /\ j \in Jobs /\ j.note = k /\ ~j.gone
          /\ phone[j.device] # Notified!Nobody => Notified!Addressed(n, phone[j.device])
      BY <1>2, <3>1, PushesAre
    <3> QED BY <1>1, <1>2, <1>4, <3>2, <3>3 DEF JobFits
  <2> QED BY <2>1, <2>2
<1>7. PICK w : w = [st |-> from, note |-> k] OBVIOUS
<1>8. /\ DOMAIN writing' = Solo /\ writing'[h] = w
      /\ \A g \in Solo : g # h => writing'[g] = writing[g]
  BY <1>2, <1>3, <1>7 DEF InboxInv
<1>9. ASSUME NEW g \in Solo PROVE WritingFits(writing[g])'
  <2>1. CASE g = h BY <1>1, <1>4, <1>7, <1>8, <2>1 DEF WritingFits
  <2>2. CASE g # h
    <3>1. WritingFits(writing[g]) BY DEF InboxInv
    <3> QED BY <1>4, <1>8, <2>2, <3>1 DEF WritingFits
  <2> QED BY <2>1, <2>2
<1>10. WrittenApart'
  <2>1. SUFFICES ASSUME NEW f \in Solo, NEW g \in Solo, writing'[f].st \in Froms,
                        writing'[g].st \in Froms, writing'[f].note = writing'[g].note
                 PROVE  f = g
    BY DEF WrittenApart
  <2>2. ASSUME NEW e \in Solo, e # h, writing'[e].st \in Froms PROVE writing'[e].note # k
    BY <1>4, <1>8, <2>2 DEF InboxInv, WritingFits
  <2>3. writing'[h].note = k BY <1>7, <1>8
  <2>4. CASE f = h \/ g = h BY <2>1, <2>2, <2>3, <2>4
  <2>5. CASE f # h /\ g # h BY <1>8, <2>1, <2>5 DEF InboxInv, WrittenApart
  <2> QED BY <2>4, <2>5
<1>11. Notified!RingsTrue' /\ Notified!LiveIsReached'
  BY <1>2 DEF InboxInv, Notified!RingsTrue, Notified!LiveIsReached
<1> QED BY <1>1, <1>2, <1>4, <1>6, <1>8, <1>9, <1>10, <1>11 DEF InboxInv

\* A request ends: its notification is kept, or is not.
LEMMA InboxEnds ==
  ASSUME InboxInv, NEW h \in Solo, NEW st \in {"kept", "failed", "undone"},
         writing[h].st \in Froms, Notified!Ended(h, st),
         \/ jobs' = jobs
         \/ /\ st = "kept"
            /\ jobs' = jobs \cup Notified!Pushes(writing[h].note, notes[writing[h].note])
  PROVE  InboxInv'
<1>1. PICK i \in DOMAIN notes : i = writing[h].note /\ notes[i].st = "flushed"
  BY DEF InboxInv, WritingFits
<1>2. PICK n \in Notes : n = notes[i] BY NotesAre
<1>3. PICK m \in Notes : m = [n EXCEPT !.st = st]
  <2>1. [n EXCEPT !.st = st] \in Notes BY DEF Notes
  <2> QED BY <2>1
<1>4. m.to = n.to /\ m.from = n.from /\ m.st = st BY <1>3 DEF Notes
<1>5. notes' = [notes EXCEPT ![i] = m] /\ UNCHANGED <<tokens, phone, on, rang, late>>
  BY <1>1, <1>2, <1>3 DEF Notified!Ended
<1>6. /\ Alike(notes, notes') /\ notes'[i] = m
      /\ \A k \in DOMAIN notes : k # i => notes'[k] = notes[k]
  BY <1>1, <1>2, <1>4, <1>5, OneChanges
<1>7. ASSUME NEW j \in jobs' PROVE JobFits(j)'
  <2>1. CASE j \in jobs BY <1>5, <1>6, <2>1, JobsStill
  <2>2. CASE j \notin jobs
    <3>1. st = "kept" /\ j \in Notified!Pushes(i, n) BY <1>1, <1>2, <2>2
    <3>2. i \in Nat BY NotesAre
    <3>3. /\ j \in Jobs /\ j.note = i /\ ~j.gone
          /\ phone[j.device] # Notified!Nobody => Notified!Addressed(n, phone[j.device])
      BY <3>1, <3>2, PushesAre
    <3>4. \A u : Notified!Addressed(n, u) => Notified!Addressed(m, u)
      BY <1>4 DEF Notified!Addressed
    <3>5. i \in DOMAIN notes' BY <1>6 DEF Alike
    <3> QED BY <1>4, <1>5, <1>6, <3>1, <3>3, <3>4, <3>5 DEF JobFits
  <2> QED BY <2>1, <2>2
<1>8. PICK w : w = Notified!Idle OBVIOUS
<1>9. w.st = "idle" BY <1>8 DEF Notified!Idle
<1>10. /\ DOMAIN writing' = Solo /\ writing'[h].st = "idle"
       /\ \A g \in Solo : g # h => writing'[g] = writing[g]
  BY <1>8, <1>9 DEF InboxInv, Notified!Ended
<1>11. ASSUME NEW g \in Solo PROVE WritingFits(writing[g])'
  <2>1. CASE g = h BY <1>10, <2>1 DEF WritingFits, Froms
  <2>2. CASE g # h
    <3>1. writing'[g] = writing[g] /\ WritingFits(writing[g]) BY <1>10, <2>2 DEF InboxInv
    <3>2. writing[g].st \in Froms => writing[g].note # i BY <1>1, <2>2 DEF InboxInv, WrittenApart
    <3>3. DOMAIN notes \subseteq DOMAIN notes' BY <1>6 DEF Alike
    <3> QED BY <1>6, <3>1, <3>2, <3>3 DEF WritingFits
  <2> QED BY <2>1, <2>2
<1>12. WrittenApart'
  <2>1. ASSUME NEW g \in Solo, writing'[g].st \in Froms PROVE g # h /\ writing'[g] = writing[g]
    BY <1>10, <2>1 DEF Froms
  <2> QED BY <2>1 DEF InboxInv, WrittenApart
<1>13. Notified!RingsTrue' /\ Notified!LiveIsReached'
  BY <1>5 DEF InboxInv, Notified!RingsTrue, Notified!LiveIsReached
<1>14. notes' \in Seq(Notes) BY <1>6 DEF Alike
<1> QED BY <1>5, <1>7, <1>10, <1>11, <1>12, <1>13, <1>14 DEF InboxInv

LEMMA InboxSends ==
  ASSUME InboxInv, NEW j \in jobs, NEW answer \in {"ok", "gone", "error"}, Notified!Send(j, answer)
  PROVE  InboxInv'
<1>1. /\ answer = "gone" => phone[j.device] = Notified!Nobody
      /\ answer = "ok" => phone[j.device] # Notified!Nobody
      /\ jobs' = (jobs \ {j}) \cup IF answer = "gone" THEN {[j EXCEPT !.gone = TRUE]} ELSE {}
      /\ rang' = IF answer = "ok"
                 THEN {[of |-> notes[j.note], user |-> phone[j.device], moved |-> j.moved]} ELSE rang
      /\ notes' = IF answer = "error" THEN [notes EXCEPT ![j.note].failed = TRUE] ELSE notes
      /\ UNCHANGED <<tokens, phone, writing, on, late>>
  BY DEF Notified!Send, Notified!Invalid
<1>2. j \in Jobs /\ j.note \in DOMAIN notes /\ JobFits(j) BY DEF InboxInv, JobFits
<1>3. Alike(notes, notes') /\ \A k \in DOMAIN notes : notes'[k].st = notes[k].st
  <2>1. CASE answer = "error" BY <1>1, <1>2, <2>1, OneMarked
  <2>2. CASE answer # "error" BY <1>1, <2>2 DEF InboxInv, Alike
  <2> QED BY <2>1, <2>2
<1>4. ASSUME NEW k \in jobs' PROVE JobFits(k)'
  <2>1. CASE k \in jobs BY <1>1, <1>3, <2>1, JobsStill
  <2>2. CASE k \notin jobs
    <3>1. answer = "gone" /\ k = [j EXCEPT !.gone = TRUE] BY <1>1, <2>2
    <3>2. k \in Jobs /\ k.note = j.note /\ k.device = j.device /\ k.moved = j.moved
      BY <1>2, <3>1 DEF Jobs
    <3>3. JobFits(j)' BY <1>1, <1>3, JobsStill
    <3>4. phone'[k.device] = Notified!Nobody BY <1>1, <3>1, <3>2
    <3> QED BY <3>2, <3>3, <3>4 DEF JobFits
  <2> QED BY <2>1, <2>2
<1>5. Notified!RingsTrue'
  <2>1. CASE answer = "ok"
    <3>1. PICK r : r = [of |-> notes[j.note], user |-> phone[j.device], moved |-> j.moved] OBVIOUS
    <3>2. rang' = {r} BY <1>1, <2>1, <3>1
    <3>3. r.of = notes[j.note] /\ r.user = phone[j.device] /\ r.moved = j.moved BY <3>1
    <3>4. r.moved \/ Notified!Addressed(r.of, r.user) BY <1>1, <1>2, <2>1, <3>3 DEF JobFits
    <3>5. r.of.from = "chat" => r.of.st = "kept" BY <1>2, <3>3 DEF JobFits
    <3> QED BY <3>2, <3>4, <3>5 DEF Notified!RingsTrue
  <2>2. CASE answer # "ok" BY <1>1, <2>2 DEF InboxInv, Notified!RingsTrue
  <2> QED BY <2>1, <2>2
<1> QED BY <1>1, <1>3, <1>4, <1>5, InboxMarks

LEMMA InboxForgets ==
  ASSUME InboxInv, NEW j \in jobs, Notified!Forget(j)
  PROVE  InboxInv'
<1>1. /\ j.gone /\ jobs' = jobs \ {j} /\ tokens' = {r \in tokens : r.device # j.device}
      /\ UNCHANGED <<phone, notes, writing, on, rang, late>>
  BY DEF Notified!Forget
<1>2. phone[j.device] = Notified!Nobody \/ j.device \in late BY <1>1 DEF InboxInv, JobFits
<1>3. Notified!LiveIsReached'
  <2>1. ASSUME NEW d \in Devices, d \notin late, phone[d] # Notified!Nobody
        PROVE  [device |-> d, user |-> phone[d]] \in tokens'
    <3>1. d # j.device /\ [device |-> d, user |-> phone[d]] \in tokens
      BY <1>2, <2>1 DEF InboxInv, Notified!LiveIsReached
    <3> QED BY <1>1, <3>1
  <2> QED BY <1>1, <2>1 DEF Notified!LiveIsReached
<1>4. \A k \in jobs' : JobFits(k)' BY <1>1 DEF InboxInv, JobFits
<1>5. \A h \in Solo : WritingFits(writing[h])' BY <1>1 DEF InboxInv, WritingFits
<1>6. WrittenApart' /\ Notified!RingsTrue' BY <1>1 DEF InboxInv, WrittenApart, Notified!RingsTrue
<1> QED BY <1>1, <1>3, <1>4, <1>5, <1>6 DEF InboxInv

LEMMA InboxRetries ==
  ASSUME InboxInv, NEW i \in DOMAIN notes, Notified!Retry(i)
  PROVE  InboxInv'
<1>1. /\ notes[i].st = "kept" /\ jobs' = jobs \cup Notified!Pushes(i, notes[i])
      /\ notes' = [notes EXCEPT ![i].failed = FALSE]
      /\ UNCHANGED <<tokens, phone, writing, on, rang, late>>
  BY DEF Notified!Retry
<1>2. Alike(notes, notes') /\ \A k \in DOMAIN notes : notes'[k].st = notes[k].st
  BY <1>1, OneMarked
<1>3. PICK n \in Notes : n = notes[i] BY NotesAre
<1>4. ASSUME NEW j \in jobs' PROVE JobFits(j)'
  <2>1. CASE j \in jobs BY <1>1, <1>2, <2>1, JobsStill
  <2>2. CASE j \notin jobs
    <3>1. j \in Notified!Pushes(i, n) /\ i \in Nat BY <1>1, <1>3, <2>2, NotesAre
    <3>2. /\ j \in Jobs /\ j.note = i /\ ~j.gone
          /\ phone[j.device] # Notified!Nobody => Notified!Addressed(n, phone[j.device])
      BY <3>1, PushesAre
    <3>3. i \in DOMAIN notes' /\ notes'[i].st = "kept" /\ notes'[i].to = n.to
      BY <1>1, <1>2, <1>3 DEF Alike
    <3>4. \A u : Notified!Addressed(n, u) => Notified!Addressed(notes'[i], u)
      BY <3>3 DEF Notified!Addressed
    <3> QED BY <1>1, <3>2, <3>3, <3>4 DEF JobFits
  <2> QED BY <2>1, <2>2
<1>5. Notified!RingsTrue' BY <1>1 DEF InboxInv, Notified!RingsTrue
<1> QED BY <1>1, <1>2, <1>4, <1>5, InboxMarks

LEMMA InboxReads ==
  ASSUME InboxInv, NEW u \in Users,
         Notified!ReadAll(u) \/ \E i \in DOMAIN notes : Notified!Read(i, u)
  PROVE  InboxInv'
<1>1. UNCHANGED <<tokens, phone, jobs, writing, on, rang, late>>
  BY DEF Notified!ReadAll, Notified!Read
<1>2. Alike(notes, notes') /\ \A k \in DOMAIN notes : notes'[k].st = notes[k].st
  <2>1. CASE \E i \in DOMAIN notes : Notified!Read(i, u)
    <3>1. PICK i \in DOMAIN notes : notes' = [notes EXCEPT ![i].read = TRUE]
      BY <2>1 DEF Notified!Read
    <3> QED BY <3>1, OneMarked
  <2>2. CASE Notified!ReadAll(u)
    <3>1. notes' = [i \in DOMAIN notes |->
                      IF notes[i].st = "kept" /\ Notified!Addressed(notes[i], u)
                      THEN [notes[i] EXCEPT !.read = TRUE] ELSE notes[i]]
      BY <2>2 DEF Notified!ReadAll
    <3>2. ASSUME NEW i \in DOMAIN notes
          PROVE  /\ notes'[i] \in Notes /\ notes'[i].to = notes[i].to
                 /\ notes'[i].from = notes[i].from /\ notes'[i].st = notes[i].st
      <4>1. PICK n \in Notes : n = notes[i] BY NotesAre
      <4>2. notes'[i] = n \/ notes'[i] = [n EXCEPT !.read = TRUE] BY <3>1, <4>1
      <4> QED BY <4>1, <4>2, Marked
    <3>3. DOMAIN notes' = DOMAIN notes BY <3>1
    <3>4. notes' \in Seq(Notes)
      <4>1. notes' = [i \in 1 .. Len(notes) |-> notes'[i]] BY <3>1, NotesAre
      <4>2. notes' \in [1 .. Len(notes) -> Notes] BY <3>2, <4>1, NotesAre
      <4> QED BY <4>2, NotesAre, Mapped
    <3> QED BY <3>2, <3>3, <3>4 DEF Alike
  <2> QED BY <2>1, <2>2
<1>3. \A j \in jobs' : JobFits(j)' BY <1>1, <1>2, JobsStill
<1>4. Notified!RingsTrue' BY <1>1 DEF InboxInv, Notified!RingsTrue
<1> QED BY <1>1, <1>2, <1>3, <1>4, InboxMarks

LEMMA InboxUninstalls ==
  ASSUME InboxInv, NEW d \in Devices, Notified!Uninstall(d)
  PROVE  InboxInv'
<1>1. phone' = [phone EXCEPT ![d] = Notified!Nobody]
      /\ UNCHANGED <<tokens, notes, jobs, writing, on, rang, late>>
  BY DEF Notified!Uninstall
<1>2. /\ phone'[d] = Notified!Nobody /\ \A e \in Devices : e # d => phone'[e] = phone[e]
      /\ phone' \in [Devices -> Users \cup {Notified!Nobody}]
  BY <1>1 DEF InboxInv
<1>3. ASSUME NEW r \in tokens' PROVE phone'[r.device] \in {Notified!Nobody, r.user}
  BY <1>1, <1>2 DEF InboxInv, Tokens
<1>4. ASSUME NEW j \in jobs' PROVE JobFits(j)'
  <2>1. JobFits(j) /\ j.device \in Devices BY <1>1 DEF InboxInv, JobFits, Jobs
  <2>2. phone'[j.device] = Notified!Nobody \/ phone'[j.device] = phone[j.device] BY <1>2, <2>1
  <2> QED BY <1>1, <2>1, <2>2 DEF JobFits
<1>5. Notified!LiveIsReached' BY <1>1, <1>2 DEF InboxInv, Notified!LiveIsReached
<1>6. \A h \in Solo : WritingFits(writing[h])' BY <1>1 DEF InboxInv, WritingFits
<1>7. WrittenApart' /\ Notified!RingsTrue' BY <1>1 DEF InboxInv, WrittenApart, Notified!RingsTrue
<1> QED BY <1>1, <1>2, <1>3, <1>4, <1>5, <1>6, <1>7 DEF InboxInv

LEMMA InboxCrashes == ASSUME InboxInv, Notified!Crash PROVE InboxInv'
<1>1. /\ jobs' = {} /\ writing' = [h \in Solo |-> Notified!Idle]
      /\ notes' = [i \in DOMAIN notes |-> IF notes[i].st = "flushed"
                                          THEN [notes[i] EXCEPT !.st = "failed"] ELSE notes[i]]
      /\ UNCHANGED <<tokens, phone, on, rang, late>>
  BY DEF Notified!Crash
<1>2. notes' \in Seq(Notes)
  <2>1. ASSUME NEW i \in DOMAIN notes PROVE notes'[i] \in Notes
    <3>1. PICK n \in Notes : n = notes[i] BY NotesAre
    <3>2. notes'[i] = n \/ notes'[i] = [n EXCEPT !.st = "failed"] BY <1>1, <3>1
    <3>3. [n EXCEPT !.st = "failed"] \in Notes BY DEF Notes
    <3> QED BY <3>2, <3>3
  <2>2. notes' = [i \in 1 .. Len(notes) |-> notes'[i]] BY <1>1, NotesAre
  <2>3. notes' \in [1 .. Len(notes) -> Notes] BY <2>1, <2>2, NotesAre
  <2> QED BY <2>3, NotesAre, Mapped
<1>3. PICK w : w = Notified!Idle OBVIOUS
<1>4. w.st = "idle" BY <1>3 DEF Notified!Idle
<1>5. DOMAIN writing' = Solo /\ \A h \in Solo : writing'[h].st = "idle" BY <1>1, <1>3, <1>4
<1>6. (\A h \in Solo : WritingFits(writing[h])') /\ WrittenApart'
  BY <1>5 DEF WritingFits, WrittenApart, Froms
<1>7. Notified!RingsTrue' /\ Notified!LiveIsReached'
  BY <1>1 DEF InboxInv, Notified!RingsTrue, Notified!LiveIsReached
<1> QED BY <1>1, <1>2, <1>5, <1>6, <1>7 DEF InboxInv

LEMMA InboxNext == ASSUME InboxInv, [Notified!Next]_OfNotified PROVE InboxInv'
<1>1. CASE UNCHANGED OfNotified
  BY <1>1 DEF OfNotified, InboxInv, JobFits, WritingFits, WrittenApart, Notified!RingsTrue,
              Notified!LiveIsReached
<1>2. CASE \E d \in Devices : Notified!Uninstall(d) \/ \E u \in Users : Notified!Register(d, u)
  BY <1>2, InboxUninstalls, InboxRegisters
<1>3. CASE \E h \in Solo, from \in {"create", "chat", "reply"} : Notified!Write(h, from)
  BY <1>3, InboxWrites DEF Froms
<1>4. ASSUME NEW h \in Solo, Notified!Commit(h) PROVE InboxInv'
  <2>1. /\ writing[h].st \in {"create", "chat"} /\ Notified!Ended(h, "kept")
        /\ \/ jobs' = jobs
           \/ jobs' = jobs \cup Notified!Pushes(writing[h].note, notes[writing[h].note])
    BY <1>4 DEF Notified!Commit
  <2> QED BY <2>1, InboxEnds DEF Froms
<1>5. ASSUME NEW h \in Solo, Notified!Fail(h) \/ Notified!EndReply(h) PROVE InboxInv'
  BY <1>5, InboxEnds DEF Notified!Fail, Notified!EndReply, Froms
<1>6. CASE \E j \in jobs : Notified!Forget(j) \/
             \E answer \in {"ok", "gone", "error"} : Notified!Send(j, answer)
  BY <1>6, InboxForgets, InboxSends
<1>7. CASE \E i \in DOMAIN notes : Notified!Retry(i) \/ \E u \in Users : Notified!Read(i, u)
  BY <1>7, InboxRetries, InboxReads
<1>8. CASE \E u \in Users : Notified!ReadAll(u) BY <1>8, InboxReads
<1> QED BY <1>1, <1>2, <1>3, <1>4, <1>5, <1>6, <1>7, <1>8, InboxCrashes DEF Notified!Next

LEMMA InboxFollows ==
  ASSUME InboxInv
  PROVE  Notified!RingsTrue /\ Notified!LiveIsReached /\ Notified!TypeOK
<1>1. tokens \subseteq [device : Devices, user : Users] BY DEF InboxInv, Tokens
<1>2. \A i \in DOMAIN notes : notes[i].st \in {"flushed", "kept", "failed", "undone"}
  BY NotesAre DEF Notes
<1>3. \A j \in jobs : j.note \in DOMAIN notes BY DEF InboxInv, JobFits
<1> QED BY <1>1, <1>2, <1>3 DEF InboxInv, Notified!TypeOK

----------------------------------------------------------------------------
(* The limiter of logins *)

Fails   == [age : 0 .. Window + 1, nth : Nat]
List(S) == S \subseteq Fails /\ IsFiniteSet(S)

\* What a thread is about to count from holds what was recent.
AttemptFits(d) == d.st = "count" => List(d.read) /\ \A f \in d.read : f.age <= Window

Within(sts) == {h \in Handlers : attempt[h].st \in sts}
Young == {f \in failed : f.age <= Window - counter.left}
Old   == {f \in failed : f.age > Window - counter.left}

\* The list in memory is the failures of the last window.
InMemory == /\ Limiter!Recent(ages) = failed
            /\ Cardinality(failed) + Cardinality(Within({"in", "count"})) <= Limiter!Most

\* Redis counts the failures of the window that runs, after which as many may have been counted
\* in the window before.
InRedis == /\ counter.count + Cardinality(Within({"in"})) <= Limiter!Most
           /\ \A h \in Handlers : attempt[h].st # "count"
           /\ counter.count = 0 =>
                (\A f \in failed : f.age >= 1) /\ Cardinality(failed) <= Limiter!Most
           /\ counter.count > 0 =>
                Cardinality(Young) <= counter.count /\ Cardinality(Old) <= Limiter!Most

Expires == /\ counter.count = 0 <=> counter.left = 0
           /\ counter.count > 0 => counter.left + quiet <= Window
           /\ \A f \in ages : f.age >= quiet \/ f.age > Window

LimiterInv ==
  /\ counter \in [count : Nat, left : 0 .. Window] /\ quiet \in Nat
  /\ reachable \in BOOLEAN /\ lost \in BOOLEAN
  /\ List(ages) /\ List(failed) /\ \A f \in failed : f.age <= Window
  /\ DOMAIN attempt = Handlers /\ \A h \in Handlers : AttemptFits(attempt[h])
  /\ ~WithRedis => counter.count = 0 /\ ~reachable
  /\ Expires
  /\ ~lost => reachable = WithRedis /\ (WithRedis => InRedis) /\ (~WithRedis => InMemory)

LEMMA LimiterNats ==
  /\ MaxFailures \in Nat \ {0} /\ Window \in Nat \ {0} /\ WithRedis \in BOOLEAN
  /\ IsFiniteSet(Handlers) /\ Cardinality(Handlers) \in Nat
  /\ Limiter!Most \in Nat /\ Limiter!Most = MaxFailures - 1 + Cardinality(Handlers)
  /\ \A S : Limiter!Cardinality(S) = Cardinality(S)
<1>1. /\ MaxFailures \in Nat \ {0} /\ Window \in Nat \ {0} /\ WithRedis \in BOOLEAN
      /\ IsFiniteSet(Handlers)
  BY LimiterParameters DEF Limiter!ParametersAssumption, Limiter!IsFiniteSet, IsFiniteSet
<1>2. \A S : Limiter!Cardinality(S) = Cardinality(S)
  BY DEF Limiter!Cardinality, Cardinality, Limiter!IsFiniteSet, IsFiniteSet
<1>3. Cardinality(Handlers) \in Nat BY <1>1, FS_CardinalityType
<1>4. Limiter!Most = MaxFailures - 1 + Cardinality(Handlers) BY <1>2 DEF Limiter!Most
<1> QED BY <1>1, <1>2, <1>3, <1>4

LEMMA ListSize ==
  ASSUME NEW S, List(S)
  PROVE  /\ Cardinality(S) \in Nat
         /\ \A T \in SUBSET S : /\ List(T) /\ Cardinality(T) \in Nat
                                /\ Cardinality(T) <= Cardinality(S)
BY FS_Subset, FS_CardinalityType DEF List

\* A failure more.
LEMMA OneMore ==
  ASSUME NEW S, List(S), NEW T, T = Limiter!WithOne(S)
  PROVE  /\ List(T) /\ Cardinality(T) \in Nat /\ Cardinality(T) <= Cardinality(S) + 1
         /\ \E x \in Fails : x.age = 0 /\ T = S \cup {x}
<1>1. PICK A : A = {f \in S : f.age = 0} OBVIOUS
<1>2. A \in SUBSET S BY <1>1
<1>3. PICK n \in Nat : n = Limiter!Cardinality(A) BY <1>2, ListSize, LimiterNats
<1>4. [age |-> 0, nth |-> n] \in Fails BY LimiterNats DEF Fails
<1>5. PICK x \in Fails : x = [age |-> 0, nth |-> n] BY <1>4
<1>6. T = S \cup {x} BY <1>1, <1>3, <1>5 DEF Limiter!WithOne
<1>7. x.age = 0 BY <1>5
<1>8. IsFiniteSet(T) /\ Cardinality(T) <= Cardinality(S) + 1
  <2>1. IsFiniteSet(S) /\ Cardinality(S) \in Nat BY ListSize DEF List
  <2> QED BY <1>6, <2>1, FS_AddElement
<1>9. List(T) BY <1>6, <1>8 DEF List
<1> QED BY <1>6, <1>7, <1>8, <1>9, ListSize

\* A tick later each is a tick older.
LEMMA Older ==
  ASSUME NEW S, List(S), \A f \in S : f.age <= Window, NEW T, T = Limiter!Aged(S)
  PROVE  /\ List(T) /\ Cardinality(T) <= Cardinality(S)
         /\ \A g \in T : \E f \in S : g.age = f.age + 1 /\ g = [f EXCEPT !.age = f.age + 1]
<1>1. PICK F : F = [f \in S |-> [f EXCEPT !.age = f.age + 1]] OBVIOUS
<1>2. T = {F[f] : f \in S} BY <1>1 DEF Limiter!Aged
<1>3. F \in [S -> T] BY <1>1, <1>2
<1>4. F \in Surjection(S, T) BY <1>2, <1>3 DEF Surjection
<1>5. IsFiniteSet(T) /\ Cardinality(T) <= Cardinality(S) BY <1>4, FS_Surjection DEF List
<1>6. ASSUME NEW f \in S
      PROVE  [f EXCEPT !.age = f.age + 1] \in Fails /\ [f EXCEPT !.age = f.age + 1].age = f.age + 1
  <2>1. f \in Fails /\ f.age <= Window BY DEF List
  <2>2. f.age + 1 \in 0 .. Window + 1 BY <2>1, LimiterNats DEF Fails
  <2> QED BY <2>1, <2>2 DEF Fails
<1>7. ASSUME NEW g \in T
      PROVE  /\ g \in Fails
             /\ \E f \in S : g.age = f.age + 1 /\ g = [f EXCEPT !.age = f.age + 1]
  <2>1. PICK f \in S : g = [f EXCEPT !.age = f.age + 1] BY <1>1, <1>2
  <2> QED BY <1>6, <2>1
<1> QED BY <1>5, <1>7 DEF List

LEMMA WithinIs ==
  /\ \A sts : IsFiniteSet(Within(sts)) /\ Cardinality(Within(sts)) \in Nat
  /\ \A sts : Cardinality(Within(sts)) <= Cardinality(Handlers)
  /\ \A sts, sts2 : sts \subseteq sts2 => Cardinality(Within(sts)) <= Cardinality(Within(sts2))
<1>1. \A sts : Within(sts) \subseteq Handlers BY DEF Within
<1>2. \A sts : IsFiniteSet(Within(sts)) /\ Cardinality(Within(sts)) \in Nat
  BY <1>1, LimiterNats, FS_Subset, FS_CardinalityType
<1>3. \A sts, sts2 : sts \subseteq sts2 => Within(sts) \subseteq Within(sts2) BY DEF Within
<1> QED BY <1>1, <1>2, <1>3, LimiterNats, FS_Subset

LEMMA LimiterInit == ASSUME Limiter!Init PROVE LimiterInv
<1>1. \A h \in Handlers : attempt[h].st = "idle" BY DEF Limiter!Init, Limiter!Idle
<1>2. counter.count = 0 /\ counter.left = 0 /\ counter \in [count : Nat, left : 0 .. Window]
  BY LimiterNats DEF Limiter!Init, Limiter!Empty
<1>3. List({}) /\ Cardinality({}) = 0 BY FS_EmptySet DEF List
<1>4. \A sts : "idle" \notin sts => Cardinality(Within(sts)) = 0
  <2>1. \A sts : "idle" \notin sts => Within(sts) = {} BY <1>1 DEF Within
  <2> QED BY <1>3, <2>1
<1>5. InMemory BY <1>3, <1>4, LimiterNats DEF Limiter!Init, InMemory, Limiter!Recent
<1>6. InRedis BY <1>1, <1>2, <1>3, <1>4, LimiterNats DEF Limiter!Init, InRedis
<1>7. \A h \in Handlers : AttemptFits(attempt[h]) BY <1>1 DEF AttemptFits
<1>8. /\ reachable = WithRedis /\ ages = {} /\ failed = {} /\ quiet = 0 /\ lost = FALSE
      /\ DOMAIN attempt = Handlers
  BY DEF Limiter!Init
<1>9. Expires BY <1>2, <1>8 DEF Expires
<1> QED BY <1>2, <1>3, <1>5, <1>6, <1>7, <1>8, <1>9, LimiterNats DEF LimiterInv

\* What it means that one attempt goes on to d.
LEMMA AttemptTurns ==
  ASSUME LimiterInv, NEW h \in Handlers, NEW d, attempt' = [attempt EXCEPT ![h] = d], AttemptFits(d)
  PROVE  /\ DOMAIN attempt' = Handlers /\ \A g \in Handlers : AttemptFits(attempt'[g])
         /\ \A sts : Within(sts)' = IF d.st \in sts THEN Within(sts) \cup {h} ELSE Within(sts) \ {h}
         /\ \A g \in Handlers : attempt'[g].st \in {attempt[g].st, d.st}
<1>1. /\ DOMAIN attempt' = Handlers /\ attempt'[h] = d
      /\ \A g \in Handlers : g # h => attempt'[g] = attempt[g]
  BY DEF LimiterInv
<1>2. \A sts : Within(sts)' = IF d.st \in sts THEN Within(sts) \cup {h} ELSE Within(sts) \ {h}
  BY <1>1 DEF Within
<1> QED BY <1>1, <1>2 DEF LimiterInv

LEMMA LimiterLets ==
  ASSUME LimiterInv, NEW h \in Handlers, Limiter!LetIn(h)
  PROVE  LimiterInv'
<1>1. PICK d : d = [st |-> "in"] OBVIOUS
<1>2. /\ attempt' = [attempt EXCEPT ![h] = d] /\ ~Limiter!Blocked /\ quiet' = 0
      /\ UNCHANGED <<reachable, counter, ages, failed, lost>>
  BY <1>1 DEF Limiter!LetIn
<1>3. d.st = "in" /\ AttemptFits(d) BY <1>1 DEF AttemptFits
<1>4. /\ DOMAIN attempt' = Handlers /\ \A g \in Handlers : AttemptFits(attempt'[g])
      /\ \A g \in Handlers : attempt'[g].st \in {attempt[g].st, "in"}
  BY <1>2, <1>3, AttemptTurns
<1>5. \A sts : /\ Cardinality(Within(sts)') \in Nat
               /\ Cardinality(Within(sts)') <= Cardinality(Handlers)
  <2>1. \A sts : Within(sts)' \subseteq Handlers BY DEF Within
  <2> QED BY <2>1, LimiterNats, FS_Subset, FS_CardinalityType
<1>6. ASSUME ~lost, WithRedis PROVE InRedis'
  <2>1. InRedis /\ reachable BY <1>6 DEF LimiterInv
  <2>2. counter.count <= MaxFailures - 1 /\ counter.count \in Nat
    BY <1>2, <2>1, LimiterNats DEF Limiter!Blocked, LimiterInv
  <2>3. counter.count + Cardinality(Within({"in"})') <= Limiter!Most
    BY <1>5, <2>2, LimiterNats
  <2>4. Young' = Young /\ Old' = Old BY <1>2 DEF Young, Old
  <2> QED BY <1>2, <1>4, <2>1, <2>3, <2>4 DEF InRedis
<1>7. ASSUME ~lost, ~WithRedis PROVE InMemory'
  <2>1. InMemory /\ ~reachable BY <1>7 DEF LimiterInv
  <2>2. Cardinality(failed) <= MaxFailures - 1 /\ Cardinality(failed) \in Nat
    BY <1>2, <2>1, LimiterNats, ListSize DEF Limiter!Blocked, LimiterInv, InMemory
  <2>3. Cardinality(failed) + Cardinality(Within({"in", "count"})') <= Limiter!Most
    BY <1>5, <2>2, LimiterNats
  <2>4. Limiter!Recent(ages)' = Limiter!Recent(ages) BY <1>2
  <2> QED BY <1>2, <2>1, <2>3, <2>4 DEF InMemory
<1>8. Expires'
  <2>1. counter.left <= Window /\ \A f \in ages : f.age >= 0
    BY DEF LimiterInv, List, Fails
  <2> QED BY <1>2, <2>1, LimiterNats DEF LimiterInv, Expires
<1> QED BY <1>2, <1>4, <1>6, <1>7, <1>8 DEF LimiterInv

LEMMA LimiterClears ==
  ASSUME LimiterInv, NEW h \in Handlers, Limiter!Clear(h)
  PROVE  LimiterInv'
<1>1. PICK d : d = Limiter!Idle OBVIOUS
<1>2. /\ attempt' = [attempt EXCEPT ![h] = d] /\ attempt[h].st = "in" /\ ages' = {}
      /\ counter' = IF reachable THEN Limiter!Empty ELSE counter
      /\ quiet' = 0 /\ failed' = {} /\ UNCHANGED <<reachable, lost>>
  BY <1>1 DEF Limiter!Clear
<1>3. d.st = "idle" BY <1>1 DEF Limiter!Idle
<1>4. AttemptFits(d) BY <1>3 DEF AttemptFits
<1>5. /\ DOMAIN attempt' = Handlers /\ \A g \in Handlers : AttemptFits(attempt'[g])
      /\ \A g \in Handlers : attempt'[g].st \in {attempt[g].st, "idle"}
  BY <1>2, <1>3, <1>4, AttemptTurns
<1>6. \A sts : /\ Cardinality(Within(sts)') \in Nat
               /\ Cardinality(Within(sts)') <= Cardinality(Handlers)
  <2>1. \A sts : Within(sts)' \subseteq Handlers BY DEF Within
  <2> QED BY <2>1, LimiterNats, FS_Subset, FS_CardinalityType
<1>7. List({}) /\ Cardinality({}) = 0 BY FS_EmptySet DEF List
<1>8. /\ counter' \in [count : Nat, left : 0 .. Window]
      /\ reachable => counter'.count = 0 /\ counter'.left = 0
      /\ ~reachable => counter' = counter
  BY <1>2, LimiterNats DEF Limiter!Empty, LimiterInv
<1>9. ASSUME ~lost, WithRedis PROVE InRedis'
  <2>1. InRedis /\ reachable BY <1>9 DEF LimiterInv
  <2> QED BY <1>2, <1>5, <1>6, <1>7, <1>8, <2>1, LimiterNats DEF InRedis
<1>10. ASSUME ~lost, ~WithRedis PROVE InMemory'
  <2>1. Limiter!Recent(ages)' = {} BY <1>2 DEF Limiter!Recent
  <2> QED BY <1>2, <1>6, <1>7, <2>1, LimiterNats DEF InMemory
<1>11. Expires'
  <2>1. counter.left <= Window BY DEF LimiterInv
  <2> QED BY <1>2, <1>8, <2>1, LimiterNats DEF LimiterInv, Expires
<1> QED BY <1>2, <1>5, <1>7, <1>8, <1>9, <1>10, <1>11 DEF LimiterInv

LEMMA FailingIs ==
  ASSUME LimiterInv, failed' = Limiter!Failing
  PROVE  /\ List(failed') /\ \A f \in failed' : f.age <= Window
         /\ lost' = FALSE => failed' = Limiter!WithOne(failed)
<1>1. List({}) BY FS_EmptySet DEF List
<1>2. PICK F : F = Limiter!WithOne(failed) OBVIOUS
<1>3. List(F) /\ \A f \in F : f.age <= Window
  <2>1. List(F) /\ \E x \in Fails : x.age = 0 /\ F = failed \cup {x}
    BY <1>2, OneMore DEF LimiterInv
  <2> QED BY <2>1, LimiterNats DEF LimiterInv
<1>4. failed' = IF lost' THEN {} ELSE F BY <1>2 DEF Limiter!Failing
<1> QED BY <1>1, <1>2, <1>3, <1>4

LEMMA LimiterCountsThere ==
  ASSUME LimiterInv, NEW h \in Handlers, Limiter!CountThere(h)
  PROVE  LimiterInv'
<1>1. PICK d : d = Limiter!Idle OBVIOUS
<1>2. /\ attempt' = [attempt EXCEPT ![h] = d] /\ attempt[h].st = "in" /\ reachable
      /\ counter' = [count |-> counter.count + 1, left |-> Limiter!Expiring(counter)]
      /\ quiet' = 0 /\ failed' = Limiter!Failing /\ UNCHANGED <<reachable, ages, lost>>
  BY <1>1 DEF Limiter!CountThere
<1>3. d.st = "idle" BY <1>1 DEF Limiter!Idle
<1>4. AttemptFits(d) BY <1>3 DEF AttemptFits
<1>5. /\ DOMAIN attempt' = Handlers /\ \A g \in Handlers : AttemptFits(attempt'[g])
      /\ \A g \in Handlers : attempt'[g].st \in {attempt[g].st, "idle"}
      /\ Within({"in"})' = Within({"in"}) \ {h}
  BY <1>2, <1>3, <1>4, AttemptTurns
<1>6. PICK c \in Nat, l \in 0 .. Window : counter.count = c /\ counter.left = l
  BY DEF LimiterInv
<1>7. PICK m \in 1 .. Window : m = IF c = 0 THEN Window ELSE l
  BY <1>6, LimiterNats DEF LimiterInv, Expires
<1>8. counter' = [count |-> c + 1, left |-> m] BY <1>2, <1>6, <1>7 DEF Limiter!Expiring
<1>9. counter' \in [count : Nat, left : 0 .. Window] /\ counter'.count = c + 1 /\ counter'.left = m
  BY <1>8
<1>10. /\ List(failed') /\ \A f \in failed' : f.age <= Window
       /\ lost' = FALSE => failed' = Limiter!WithOne(failed)
  BY <1>2, FailingIs
<1>11. ASSUME ~lost, WithRedis PROVE InRedis'
  <2>1. InRedis BY <1>11 DEF LimiterInv
  <2>2. c + 1 + Cardinality(Within({"in"})') <= Limiter!Most
    <3>1. h \in Within({"in"}) /\ IsFiniteSet(Within({"in"})) /\ Cardinality(Within({"in"})) \in Nat
      BY <1>2, WithinIs DEF Within
    <3>2. PICK n \in Nat : n = Cardinality(Within({"in"})) BY <3>1
    <3>3. Cardinality(Within({"in"}) \ {h}) = n - 1 BY <3>1, <3>2, FS_RemoveElement
    <3>4. Cardinality(Within({"in"})') = n - 1 BY <1>5, <3>3
    <3>5. c + n <= Limiter!Most BY <1>6, <2>1, <3>2 DEF InRedis
    <3> QED BY <3>4, <3>5, LimiterNats
  <2>3. \A g \in Handlers : attempt'[g].st # "count" BY <1>5, <2>1 DEF InRedis
  <2>4. List(failed) /\ lost' = FALSE BY <1>2, <1>11 DEF LimiterInv
  <2>5. PICK x \in Fails : x.age = 0 /\ failed' = failed \cup {x}
    BY <1>10, <2>4, OneMore
  <2>6. Cardinality(Young') <= c + 1
    <3>1. List({}) /\ Cardinality({}) = 0 BY FS_EmptySet DEF List
    <3>2. CASE c = 0
      <4>1. Young' \subseteq {} \cup {x}
        <5>1. ASSUME NEW f \in Young' PROVE f = x
          <6>1. f \in failed' /\ f.age <= Window - Window
            BY <1>7, <1>9, <3>2 DEF Young
          <6>2. ASSUME f \in failed PROVE FALSE
            <7>1. f.age >= 1 /\ f.age \in Nat
              BY <1>6, <2>1, <2>4, <3>2, <6>2 DEF InRedis, List, Fails
            <7> QED BY <6>1, <7>1, LimiterNats
          <6> QED BY <2>5, <6>1, <6>2
        <5> QED BY <5>1
      <4>2. IsFiniteSet({} \cup {x}) /\ Cardinality({} \cup {x}) = 1
        BY <3>1, FS_AddElement DEF List
      <4>3. Cardinality(Young') <= 1 BY <4>1, <4>2, FS_Subset
      <4> QED BY <3>2, <4>3
    <3>3. CASE c # 0
      <4>1. Young' \subseteq Young \cup {x} BY <1>6, <1>7, <1>9, <2>5, <3>3 DEF Young
      <4>2. Young \in SUBSET failed BY DEF Young
      <4>3. IsFiniteSet(Young) /\ Cardinality(Young) \in Nat BY <2>4, <4>2, ListSize DEF List
      <4>4. Cardinality(Young) <= c BY <1>6, <2>1, <3>3 DEF InRedis
      <4>5. IsFiniteSet(Young \cup {x}) /\ Cardinality(Young \cup {x}) <= Cardinality(Young) + 1
        BY <4>3, FS_AddElement
      <4>6. Cardinality(Young') <= Cardinality(Young \cup {x}) /\ Cardinality(Young \cup {x}) \in Nat
            /\ Cardinality(Young') \in Nat
        BY <4>1, <4>5, FS_Subset, FS_CardinalityType
      <4> QED BY <4>3, <4>4, <4>5, <4>6
    <3> QED BY <3>2, <3>3
  <2>7. Cardinality(Old') <= Limiter!Most
    <3>1. CASE c = 0
      <4>1. Old' \subseteq failed
        BY <1>7, <1>9, <2>5, <3>1, LimiterNats DEF Old
      <4>2. Cardinality(failed) <= Limiter!Most BY <1>6, <2>1, <3>1 DEF InRedis
      <4> QED BY <2>4, <4>1, <4>2, ListSize, LimiterNats
    <3>2. CASE c # 0
      <4>1. Old' \subseteq Old BY <1>6, <1>7, <1>9, <2>5, <3>2, LimiterNats DEF Old
      <4>2. Cardinality(Old) <= Limiter!Most BY <1>6, <2>1, <3>2 DEF InRedis
      <4>3. Old \in SUBSET failed BY DEF Old
      <4>4. List(Old) BY <2>4, <4>3, ListSize
      <4> QED BY <4>1, <4>2, <4>4, ListSize, LimiterNats
    <3> QED BY <3>1, <3>2
  <2> QED BY <1>9, <2>2, <2>3, <2>6, <2>7 DEF InRedis
<1>12. Expires'
  <2>1. m \in Nat /\ m >= 1 /\ m <= Window BY LimiterNats
  <2>2. \A f \in ages : f.age >= 0 BY DEF LimiterInv, List, Fails
  <2> QED BY <1>2, <1>9, <2>1, <2>2, LimiterNats DEF Expires
<1>13. WithRedis BY <1>2 DEF LimiterInv
<1> QED BY <1>2, <1>5, <1>9, <1>10, <1>11, <1>12, <1>13 DEF LimiterInv

LEMMA LimiterBegins ==
  ASSUME LimiterInv, NEW h \in Handlers, Limiter!BeginCount(h)
  PROVE  LimiterInv'
<1>1. PICK rs : rs = Limiter!Recent(ages) OBVIOUS
<1>2. PICK d : d = [st |-> "count", read |-> rs] OBVIOUS
<1>3. /\ attempt' = [attempt EXCEPT ![h] = d] /\ attempt[h].st = "in" /\ ~reachable /\ ages' = rs
      /\ UNCHANGED <<reachable, counter, quiet, failed, lost>>
  BY <1>1, <1>2 DEF Limiter!BeginCount
<1>4. rs \in SUBSET ages /\ \A f \in rs : f.age <= Window BY <1>1 DEF Limiter!Recent
<1>5. List(rs) BY <1>4, ListSize DEF LimiterInv
<1>6. d.st = "count" /\ AttemptFits(d) BY <1>2, <1>4, <1>5 DEF AttemptFits
<1>7. /\ DOMAIN attempt' = Handlers /\ \A g \in Handlers : AttemptFits(attempt'[g])
      /\ Within({"in", "count"})' = Within({"in", "count"}) \cup {h}
  <2>1. PICK sts : sts = {"in", "count"} OBVIOUS
  <2>2. d.st \in sts BY <1>6, <2>1
  <2>3. /\ DOMAIN attempt' = Handlers /\ \A g \in Handlers : AttemptFits(attempt'[g])
        /\ Within(sts)' = Within(sts) \cup {h}
    BY <1>3, <1>6, <2>2, AttemptTurns
  <2> QED BY <2>1, <2>3
<1>8. ASSUME ~lost, ~WithRedis PROVE InMemory'
  <2>1. InMemory BY <1>8 DEF LimiterInv
  <2>2. h \in Within({"in", "count"}) BY <1>3 DEF Within
  <2>3. Within({"in", "count"})' = Within({"in", "count"}) BY <1>7, <2>2
  <2>4. Limiter!Recent(ages)' = Limiter!Recent(ages) BY <1>1, <1>3, <1>4 DEF Limiter!Recent
  <2> QED BY <1>3, <2>1, <2>3, <2>4 DEF InMemory
<1>9. ASSUME ~lost PROVE ~WithRedis BY <1>3, <1>9, LimiterNats DEF LimiterInv
<1>10. Expires' BY <1>3, <1>4 DEF LimiterInv, Expires
<1> QED BY <1>3, <1>5, <1>7, <1>8, <1>9, <1>10 DEF LimiterInv

LEMMA LimiterCounts ==
  ASSUME LimiterInv, NEW h \in Handlers, Limiter!Count(h)
  PROVE  LimiterInv'
<1>1. PICK d : d = Limiter!Idle OBVIOUS
<1>2. PICK read : read = attempt[h].read OBVIOUS
<1>3. /\ attempt' = [attempt EXCEPT ![h] = d] /\ attempt[h].st = "count"
      /\ ages' = Limiter!WithOne(read) /\ lost' = (lost \/ ages # read) /\ quiet' = 0
      /\ failed' = Limiter!Failing /\ UNCHANGED <<reachable, counter>>
  BY <1>1, <1>2 DEF Limiter!Count
<1>4. d.st = "idle" BY <1>1 DEF Limiter!Idle
<1>5. AttemptFits(d) BY <1>4 DEF AttemptFits
<1>6. /\ DOMAIN attempt' = Handlers /\ \A g \in Handlers : AttemptFits(attempt'[g])
      /\ Within({"in", "count"})' = Within({"in", "count"}) \ {h}
  BY <1>3, <1>4, <1>5, AttemptTurns
<1>7. List(read) /\ \A f \in read : f.age <= Window
  BY <1>2, <1>3 DEF LimiterInv, AttemptFits
<1>8. PICK as : as = ages' OBVIOUS
<1>9. /\ List(as) /\ Cardinality(as) \in Nat /\ Cardinality(as) <= Cardinality(read) + 1
      /\ \E x \in Fails : x.age = 0 /\ as = read \cup {x}
  BY <1>3, <1>7, <1>8, OneMore
<1>10. /\ List(failed') /\ \A f \in failed' : f.age <= Window
       /\ lost' = FALSE => failed' = Limiter!WithOne(failed)
  BY <1>3, FailingIs
<1>11. ASSUME lost' = FALSE PROVE ~WithRedis /\ InMemory' /\ reachable = WithRedis
  <2>1. ~lost /\ ages = read BY <1>3, <1>11 DEF LimiterInv
  <2>2. reachable = WithRedis /\ (WithRedis => InRedis) /\ (~WithRedis => InMemory)
    BY <2>1 DEF LimiterInv
  <2>3. ~WithRedis BY <1>3, <2>2 DEF InRedis
  <2>4. failed = read
    <3>1. Limiter!Recent(ages) = ages BY <1>7, <2>1 DEF Limiter!Recent
    <3> QED BY <2>1, <2>2, <2>3, <3>1 DEF InMemory
  <2>5. failed' = as BY <1>3, <1>8, <1>10, <1>11, <2>4
  <2>6. Limiter!Recent(as) = as BY <1>7, <1>9, LimiterNats DEF Limiter!Recent
  <2>7. Limiter!Recent(ages)' = Limiter!Recent(as) BY <1>8 DEF Limiter!Recent
  <2>8. Cardinality(as) + Cardinality(Within({"in", "count"})') <= Limiter!Most
    <3>1. /\ h \in Within({"in", "count"}) /\ IsFiniteSet(Within({"in", "count"}))
          /\ Cardinality(Within({"in", "count"})) \in Nat
      BY <1>3, WithinIs DEF Within
    <3>2. PICK n \in Nat : n = Cardinality(Within({"in", "count"})) BY <3>1
    <3>3. Cardinality(Within({"in", "count"}) \ {h}) = n - 1 BY <3>1, <3>2, FS_RemoveElement
    <3>4. Cardinality(Within({"in", "count"})') = n - 1 BY <1>6, <3>3
    <3>5. Cardinality(read) \in Nat BY <1>7, ListSize
    <3>6. Cardinality(read) + n <= Limiter!Most BY <2>2, <2>3, <2>4, <3>2 DEF InMemory
    <3> QED BY <1>9, <3>4, <3>5, <3>6, LimiterNats
  <2>9. InMemory' BY <2>5, <2>6, <2>7, <2>8 DEF InMemory
  <2> QED BY <2>2, <2>3, <2>9
<1>12. Expires'
  <2>1. \A f \in as : f.age >= 0 BY <1>9 DEF List, Fails
  <2>2. counter.left <= Window BY DEF LimiterInv
  <2> QED BY <1>3, <1>8, <2>1, <2>2, LimiterNats DEF LimiterInv, Expires
<1>13. lost' \in BOOLEAN BY <1>3
<1> QED BY <1>3, <1>6, <1>8, <1>9, <1>10, <1>11, <1>12, <1>13 DEF LimiterInv

\* A tick later the failures of the last window are older, and fewer perhaps.
LEMMA FailedAge ==
  ASSUME LimiterInv, failed' = {f \in Limiter!Aged(failed) : f.age <= Window}
  PROVE  /\ List(failed') /\ Cardinality(failed') <= Cardinality(failed)
         /\ \A f \in failed' : f.age >= 1 /\ f.age <= Window
<1>1. PICK F : F = failed OBVIOUS
<1>2. PICK A : A = Limiter!Aged(F) OBVIOUS
<1>3. List(F) /\ \A f \in F : f.age <= Window BY <1>1 DEF LimiterInv
<1>4. /\ List(A) /\ Cardinality(A) <= Cardinality(F)
      /\ \A g \in A : \E f \in F : g.age = f.age + 1 /\ g = [f EXCEPT !.age = f.age + 1]
  BY <1>2, <1>3, Older
<1>5. failed' \in SUBSET A BY <1>1, <1>2
<1>6. /\ List(failed') /\ Cardinality(failed') \in Nat /\ Cardinality(failed') <= Cardinality(A)
      /\ Cardinality(A) \in Nat /\ Cardinality(F) \in Nat
  BY <1>3, <1>4, <1>5, ListSize
<1>7. \A f \in F : f.age >= 0 BY <1>3 DEF List, Fails
<1>8. \A f \in failed' : f.age >= 1 /\ f.age <= Window
  <2>1. SUFFICES ASSUME NEW g \in failed' PROVE g.age >= 1 /\ g.age <= Window OBVIOUS
  <2>2. PICK f \in F : g.age = f.age + 1 BY <1>4, <1>5
  <2>3. f.age \in Nat BY <1>3 DEF List, Fails
  <2> QED BY <2>2, <2>3
<1> QED BY <1>1, <1>4, <1>6, <1>8

\* No more of them than there were that could grow to be so.
LEMMA NoMoreThan ==
  ASSUME LimiterInv, failed' = {f \in Limiter!Aged(failed) : f.age <= Window},
         NEW S \in SUBSET failed, NEW T \in SUBSET failed',
         \A g \in T, f \in failed : g.age = f.age + 1 => f \in S
  PROVE  Cardinality(T) \in Nat /\ Cardinality(T) <= Cardinality(S)
<1>1. PICK F : F = failed OBVIOUS
<1>2. List(F) /\ (\A f \in F : f.age <= Window) /\ S \in SUBSET F BY <1>1 DEF LimiterInv
<1>3. List(S) /\ Cardinality(S) \in Nat BY <1>2, ListSize
<1>4. PICK A : A = Limiter!Aged(S) OBVIOUS
<1>5. List(A) /\ Cardinality(A) <= Cardinality(S) BY <1>2, <1>3, <1>4, Older
<1>6. T \subseteq A
  <2>1. SUFFICES ASSUME NEW g \in T PROVE g \in A OBVIOUS
  <2>2. PICK B : B = Limiter!Aged(F) OBVIOUS
  <2>3. g \in B BY <1>1, <2>2
  <2>4. PICK f \in F : g.age = f.age + 1 /\ g = [f EXCEPT !.age = f.age + 1]
    BY <1>2, <2>2, <2>3, Older
  <2>5. f \in S BY <1>1, <2>4
  <2> QED BY <1>4, <2>4, <2>5 DEF Limiter!Aged
<1> QED BY <1>3, <1>5, <1>6, ListSize

LEMMA LimiterTicks == ASSUME LimiterInv, Limiter!Tick PROVE LimiterInv'
<1>1. PICK i : i = Limiter!Idle OBVIOUS
<1>2. i.st = "idle" BY <1>1 DEF Limiter!Idle
<1>3. /\ \A h \in Handlers : attempt[h].st = "idle"
      /\ ages' = {f \in ages : f.age > Window} \cup Limiter!Aged({f \in ages : f.age <= Window})
      /\ failed' = {f \in Limiter!Aged(failed) : f.age <= Window}
      /\ counter' = IF counter.left <= 1 THEN Limiter!Empty
                    ELSE [counter EXCEPT !.left = counter.left - 1]
      /\ quiet' = quiet + 1 /\ UNCHANGED <<reachable, attempt, lost>>
  BY <1>1, <1>2 DEF Limiter!Tick
<1>4. List(failed') /\ Cardinality(failed') <= Cardinality(failed)
      /\ \A f \in failed' : f.age >= 1 /\ f.age <= Window
  BY <1>3, FailedAge
<1>5. PICK c \in Nat, l \in 0 .. Window : counter = [count |-> c, left |-> l]
  BY DEF LimiterInv
<1>6. /\ l <= 1 => counter' = [count |-> 0, left |-> 0]
      /\ l > 1 => counter' = [count |-> c, left |-> l - 1]
  BY <1>3, <1>5 DEF Limiter!Empty
<1>7. counter' \in [count : Nat, left : 0 .. Window] BY <1>5, <1>6, LimiterNats
<1>8. \A sts : "idle" \notin sts => Cardinality(Within(sts)') = 0
  <2>1. \A sts : "idle" \notin sts => Within(sts)' = {} BY <1>3 DEF Within
  <2> QED BY <2>1, FS_EmptySet
<1>9. PICK R : R = {f \in ages : f.age <= Window} OBVIOUS
<1>10. List(R) /\ \A f \in R : f.age <= Window
  <2>1. R \in SUBSET ages BY <1>9
  <2> QED BY <1>9, <2>1, ListSize DEF LimiterInv
<1>11. PICK A : A = Limiter!Aged(R) OBVIOUS
<1>12. List(A) /\ \A g \in A : \E f \in R : g.age = f.age + 1 BY <1>10, <1>11, Older
<1>13. List(ages')
  <2>1. PICK P : P = {f \in ages : f.age > Window} OBVIOUS
  <2>2. P \in SUBSET ages BY <2>1
  <2>3. List(P) BY <2>2, ListSize DEF LimiterInv
  <2>4. ages' = P \cup A BY <1>3, <1>9, <1>11, <2>1
  <2> QED BY <1>12, <2>3, <2>4, FS_Union DEF List
<1>14. ASSUME ~lost, WithRedis PROVE InRedis'
  <2>1. InRedis /\ List(failed) BY <1>14 DEF LimiterInv
  <2>2. \A f \in failed : f.age \in Nat BY <2>1 DEF List, Fails
  <2>3. Cardinality(failed) \in Nat /\ Cardinality(failed') \in Nat /\ c <= Limiter!Most
    <3>1. c + Cardinality(Within({"in"})) <= Limiter!Most BY <1>5, <2>1 DEF InRedis
    <3> QED BY <1>4, <2>1, <3>1, ListSize, WithinIs, LimiterNats
  <2>4. \A f \in failed' : f.age \in Nat BY <1>4 DEF List, Fails
  <2>5. CASE l <= 1
    <3>1. counter'.count = 0 BY <1>6, <2>5
    <3>2. Cardinality(failed') <= Limiter!Most
      <4>1. CASE c = 0
        <5>1. Cardinality(failed) <= Limiter!Most BY <1>5, <2>1, <4>1 DEF InRedis
        <5> QED BY <1>4, <2>3, <5>1, LimiterNats
      <4>2. CASE c # 0
        <5>1. l = 1 BY <1>5, <2>5, <4>2 DEF LimiterInv, Expires
        <5>2. \A g \in failed', f \in failed : g.age = f.age + 1 => f \in Young
          BY <1>4, <1>5, <2>2, <5>1, LimiterNats DEF Young
        <5>3. Young \in SUBSET failed BY DEF Young
        <5>4. Cardinality(failed') <= Cardinality(Young) BY <1>3, <5>2, <5>3, NoMoreThan
        <5>5. Cardinality(Young) <= c /\ Cardinality(Young) \in Nat
          BY <1>5, <2>1, <4>2, <5>3, ListSize DEF InRedis
        <5> QED BY <2>3, <5>4, <5>5, LimiterNats
      <4> QED BY <4>1, <4>2
    <3> QED BY <1>3, <1>4, <1>8, <3>1, <3>2, LimiterNats DEF InRedis
  <2>6. CASE l > 1
    <3>1. counter'.count = c /\ counter'.left = l - 1 BY <1>6, <2>6
    <3>2. c > 0 BY <1>5, <2>6 DEF LimiterInv, Expires
    <3>3. Young \in SUBSET failed /\ Old \in SUBSET failed
          /\ Young' \in SUBSET failed' /\ Old' \in SUBSET failed'
      BY DEF Young, Old
    <3>4. \A g \in Young', f \in failed : g.age = f.age + 1 => f \in Young
      BY <1>5, <2>2, <3>1, LimiterNats DEF Young
    <3>5. \A g \in Old', f \in failed : g.age = f.age + 1 => f \in Old
      BY <1>5, <2>2, <3>1, LimiterNats DEF Old
    <3>6. PICK Y, O : Y = Young' /\ O = Old' OBVIOUS
    <3>7. Cardinality(Y) \in Nat /\ Cardinality(Y) <= Cardinality(Young)
      BY <1>3, <3>3, <3>4, <3>6, NoMoreThan
    <3>8. Cardinality(O) \in Nat /\ Cardinality(O) <= Cardinality(Old)
      BY <1>3, <3>3, <3>5, <3>6, NoMoreThan
    <3>9. /\ Cardinality(Young) <= c /\ Cardinality(Old) <= Limiter!Most
          /\ Cardinality(Young) \in Nat /\ Cardinality(Old) \in Nat
      BY <1>5, <2>1, <3>2, <3>3, ListSize DEF InRedis
    <3>10. Cardinality(Young') <= c /\ Cardinality(Old') <= Limiter!Most
      BY <3>6, <3>7, <3>8, <3>9, LimiterNats
    <3> QED BY <1>3, <1>8, <2>3, <3>1, <3>2, <3>10, LimiterNats DEF InRedis
  <2> QED BY <2>5, <2>6
<1>15. ASSUME ~lost, ~WithRedis PROVE InMemory'
  <2>1. InMemory BY <1>15 DEF LimiterInv
  <2>2. failed = R BY <1>9, <2>1 DEF InMemory, Limiter!Recent
  <2>3. failed' = {f \in A : f.age <= Window} BY <1>3, <1>11, <2>2
  <2>4. ages' = {f \in ages : f.age > Window} \cup A BY <1>3, <1>9, <1>11
  <2>5. \A f \in ages : f.age \in Nat BY DEF LimiterInv, List, Fails
  <2>6. Limiter!Recent(ages)' = failed' BY <2>3, <2>4, <2>5, LimiterNats DEF Limiter!Recent
  <2>7. Cardinality(failed) \in Nat /\ Cardinality(failed') \in Nat
    BY <1>4, ListSize DEF LimiterInv
  <2>8. Cardinality(failed) + Cardinality(Within({"in", "count"})) <= Limiter!Most
    BY <2>1 DEF InMemory
  <2>9. Cardinality(failed') <= Limiter!Most BY <1>4, <2>7, <2>8, WithinIs, LimiterNats
  <2> QED BY <1>8, <2>6, <2>7, <2>9, LimiterNats DEF InMemory
<1>16. Expires'
  <2>1. \A f \in ages : f.age \in Nat BY DEF LimiterInv, List, Fails
  <2>2. \A f \in R : f.age \in Nat /\ (f.age >= quiet \/ f.age > Window)
    BY <1>9, <2>1 DEF LimiterInv, Expires
  <2>3. \A g \in A : g.age >= quiet + 1 \/ g.age > Window
    BY <1>9, <1>12, <2>1, <2>2, LimiterNats DEF LimiterInv
  <2>4. \A f \in ages' : f.age >= quiet' \/ f.age > Window BY <1>3, <1>9, <1>11, <2>3
  <2> QED BY <1>3, <1>5, <1>6, <2>4, LimiterNats DEF LimiterInv, Expires
<1>17. \A h \in Handlers : AttemptFits(attempt[h])' BY <1>3 DEF LimiterInv, AttemptFits
<1>18. ~WithRedis => counter'.count = 0 BY <1>5, <1>6 DEF LimiterInv
<1> QED BY <1>3, <1>4, <1>7, <1>13, <1>14, <1>15, <1>16, <1>17, <1>18 DEF LimiterInv

\* What is claimed no longer once a count was lost: the failures that were seen.
LEMMA LimiterLoses ==
  ASSUME LimiterInv, lost' = TRUE, failed' = {}, UNCHANGED <<counter, quiet>>,
         reachable' \in BOOLEAN, ~WithRedis => reachable' = reachable, ages' = ages \/ ages' = {},
         DOMAIN attempt' = Handlers, \A h \in Handlers : AttemptFits(attempt'[h])
  PROVE  LimiterInv'
<1>1. List({}) BY FS_EmptySet DEF List
<1>2. Expires' BY DEF LimiterInv, Expires
<1>3. List(ages') BY <1>1 DEF LimiterInv
<1> QED BY <1>1, <1>2, <1>3 DEF LimiterInv

LEMMA LimiterNext == ASSUME LimiterInv, [Limiter!Next]_OfLimiter PROVE LimiterInv'
<1>1. CASE UNCHANGED OfLimiter
  BY <1>1 DEF OfLimiter, LimiterInv, AttemptFits, Expires, InRedis, InMemory, Within, Young, Old,
              Limiter!Recent
<1>2. CASE \E h \in Handlers : \/ Limiter!LetIn(h) \/ Limiter!Clear(h) \/ Limiter!CountThere(h)
                              \/ Limiter!BeginCount(h) \/ Limiter!Count(h)
  BY <1>2, LimiterLets, LimiterClears, LimiterCountsThere, LimiterBegins, LimiterCounts
<1>3. CASE Limiter!Switch
  <2>1. /\ WithRedis /\ reachable' \in BOOLEAN /\ lost' = TRUE /\ failed' = {}
        /\ UNCHANGED <<counter, ages, attempt, quiet>>
    BY <1>3 DEF Limiter!Switch, LimiterInv
  <2> QED BY <2>1, LimiterLoses DEF LimiterInv
<1>4. CASE Limiter!Restart
  <2>1. PICK i : i = Limiter!Idle OBVIOUS
  <2>2. i.st = "idle" BY <2>1 DEF Limiter!Idle
  <2>3. /\ ages' = {} /\ attempt' = [h \in Handlers |-> i] /\ lost' = TRUE /\ failed' = {}
        /\ UNCHANGED <<reachable, counter, quiet>>
    BY <1>4, <2>1 DEF Limiter!Restart
  <2>4. \A h \in Handlers : AttemptFits(attempt'[h]) BY <2>2, <2>3 DEF AttemptFits
  <2> QED BY <2>3, <2>4, LimiterLoses DEF LimiterInv
<1> QED BY <1>1, <1>2, <1>3, <1>4, LimiterTicks DEF Limiter!Next

LEMMA LimiterFollows ==
  ASSUME LimiterInv
  PROVE  Limiter!AttemptsAreBounded /\ Limiter!BlockEnds /\ Limiter!TypeOK
<1>1. Limiter!BlockEnds
  <2>1. SUFFICES ASSUME quiet > Window PROVE ~Limiter!Blocked BY DEF Limiter!BlockEnds
  <2>2. counter.count = 0
    <3>1. counter.count \in Nat /\ counter.left \in Nat /\ quiet \in Nat
      BY DEF LimiterInv
    <3> QED BY <2>1, <3>1, LimiterNats DEF LimiterInv, Expires
  <2>3. Limiter!Recent(ages) = {}
    <3>1. \A f \in ages : f.age \in Nat BY DEF LimiterInv, List, Fails
    <3> QED BY <2>1, <3>1, LimiterNats DEF LimiterInv, Expires, Limiter!Recent
  <2>4. Limiter!Cardinality(Limiter!Recent(ages)) = 0 BY <2>3, LimiterNats, FS_EmptySet
  <2> QED BY <2>2, <2>4, LimiterNats DEF Limiter!Blocked
<1>2. Limiter!AttemptsAreBounded
  <2>1. SUFFICES ASSUME ~lost
                 PROVE  /\ counter.count <= Limiter!Most
                        /\ Cardinality(failed) <= IF WithRedis THEN 2 * Limiter!Most ELSE Limiter!Most
    BY LimiterNats DEF Limiter!AttemptsAreBounded
  <2>2. counter.count \in Nat /\ Cardinality(failed) \in Nat BY ListSize DEF LimiterInv
  <2>3. CASE ~WithRedis
    <3>1. InMemory /\ counter.count = 0 BY <2>1, <2>3 DEF LimiterInv
    <3>2. Cardinality(failed) + Cardinality(Within({"in", "count"})) <= Limiter!Most
      BY <3>1 DEF InMemory
    <3> QED BY <2>2, <2>3, <3>1, <3>2, WithinIs, LimiterNats
  <2>4. CASE WithRedis
    <3>1. InRedis BY <2>1, <2>4 DEF LimiterInv
    <3>2. counter.count <= Limiter!Most
      <4>1. counter.count + Cardinality(Within({"in"})) <= Limiter!Most BY <3>1 DEF InRedis
      <4> QED BY <2>2, <4>1, WithinIs, LimiterNats
    <3>3. Cardinality(failed) <= 2 * Limiter!Most
      <4>1. CASE counter.count = 0
        <5>1. Cardinality(failed) <= Limiter!Most BY <3>1, <4>1 DEF InRedis
        <5> QED BY <2>2, <5>1, LimiterNats
      <4>2. CASE counter.count # 0
        <5>1. Young \in SUBSET failed /\ Old \in SUBSET failed BY DEF Young, Old
        <5>2. /\ IsFiniteSet(Young) /\ IsFiniteSet(Old) /\ Cardinality(Young) \in Nat
              /\ Cardinality(Old) \in Nat
          BY <5>1, ListSize DEF LimiterInv, List
        <5>3. failed = Young \cup Old
          <6>1. \A f \in failed : f.age \in Nat BY DEF LimiterInv, List, Fails
          <6>2. counter.left \in Nat BY DEF LimiterInv
          <6> QED BY <6>1, <6>2, LimiterNats DEF Young, Old
        <5>4. IsFiniteSet(Young \cap Old) BY <5>2, FS_Subset
        <5>5. Cardinality(Young \cap Old) \in Nat BY <5>4, FS_CardinalityType
        <5>6. Cardinality(failed) = Cardinality(Young) + Cardinality(Old) - Cardinality(Young \cap Old)
          BY <5>2, <5>3, FS_Union
        <5>7. Cardinality(Young) <= counter.count /\ Cardinality(Old) <= Limiter!Most
          BY <2>2, <3>1, <4>2 DEF InRedis
        <5> QED BY <2>2, <3>2, <5>2, <5>5, <5>6, <5>7, LimiterNats
      <4> QED BY <4>1, <4>2
    <3> QED BY <2>4, <3>2, <3>3
  <2> QED BY <2>3, <2>4, LimiterNats
<1>3. Limiter!TypeOK BY DEF LimiterInv, List, Fails, Limiter!TypeOK, Limiter!Ages
<1> QED BY <1>1, <1>2, <1>3

----------------------------------------------------------------------------
(* Cost alerts *)

AlertT == [budget : Budgets, version : 1 .. MaxVersion, on : BOOLEAN]
HitT   == Thresholds \X {"actual", "forecast"}
KeyT   == [period : 1 .. MaxPeriods, threshold : Thresholds, kind : {"actual", "forecast"},
           version : 1 .. MaxVersion]
SweepT == [st : {"sweep", "flushed"}, hit : SUBSET HitT, todo : SUBSET HitT,
           period : 1 .. MaxPeriods, budget : Budgets, version : 1 .. MaxVersion,
           at : HitT \cup {<<>>}]
EventT == [key : KeyT, budget : Budgets]

KeyFor(p, x, v) == [period |-> p, threshold |-> x[1], kind |-> x[2], version |-> v]

Sweeps(s) == /\ s \in SweepT /\ s.todo \subseteq s.hit
             /\ s.st = "flushed" => s.at \in HitT

\* A change of the budget is a version of its own.
EditFits(e) == e.st = "edit" =>
  /\ e.read \in AlertT /\ e.new \in AlertT
  /\ e.new # e.read => e.new.version = e.read.version + 1

\* The event that is flushed: its owner was told, and it is not committed yet.
InFlight(k) == sweep.st = "flushed" /\ k = KeyFor(sweep.period, sweep.at, sweep.version)

ToldOnce == \A k \in KeyT :
  /\ alerted[k] <= died + 1
  /\ alerted[k] > died => k \in Cost!Recorded \/ InFlight(k)

Handled(s, x) ==
  \/ x \in s.todo \/ (s.st = "flushed" /\ x = s.at)
  \/ \E e \in events : e.budget = s.budget /\ e.key = KeyFor(s.period, x, e.key.version)

\* What holds unless edits crossed: an event is of the budget its version had.
Followed ==
  /\ \A e \in events : /\ e.key.version <= alert.version
                       /\ e.key.version = alert.version => e.budget = alert.budget
  /\ sweep.st # "idle" => /\ sweep.version = alert.version /\ sweep.budget = alert.budget
                          /\ \A x \in sweep.hit : Handled(sweep, x)

CostInv ==
  /\ alert \in AlertT /\ spent \in [period : 1 .. MaxPeriods, sum : 0 .. MaxSpend]
  /\ edited \in BOOLEAN /\ died \in 0 .. MaxCrashes
  /\ events \subseteq EventT /\ alerted \in [KeyT -> Nat]
  /\ sweep.st = "idle" \/ Sweeps(sweep)
  /\ DOMAIN edit = Solo /\ \A h \in Solo : EditFits(edit[h])
  /\ ToldOnce /\ (~edited => Followed)

LEMMA CostNats ==
  /\ MaxSpend \in Nat /\ MaxCrashes \in Nat /\ MaxPeriods \in Nat \ {0} /\ MaxVersion \in Nat \ {0}
  /\ Cost!Keys = KeyT /\ Cost!Kinds = {"actual", "forecast"}
BY CostParameters DEF Cost!ParametersAssumption, Cost!Keys, Cost!Kinds, KeyT

LEMMA CostInit == ASSUME Cost!Init PROVE CostInv
<1>1. /\ alert \in [budget : Budgets, version : {1}, on : {TRUE}]
      /\ spent = [period |-> 1, sum |-> 0] /\ events = {} /\ alerted = [k \in KeyT |-> 0]
      /\ edit = [h \in Solo |-> Cost!NoEdit] /\ edited = FALSE /\ died = 0
  BY CostNats DEF Cost!Init
<1>2. sweep.st = "idle" BY DEF Cost!Init, Cost!NoSweep
<1>3. PICK i : i = Cost!NoEdit OBVIOUS
<1>4. i.st = "idle" BY <1>3 DEF Cost!NoEdit
<1>5. DOMAIN edit = Solo /\ \A h \in Solo : EditFits(edit[h]) BY <1>1, <1>3, <1>4 DEF EditFits
<1>6. alert \in AlertT /\ spent \in [period : 1 .. MaxPeriods, sum : 0 .. MaxSpend]
  <2>1. 1 \in 1 .. MaxVersion /\ 1 \in 1 .. MaxPeriods /\ 0 \in 0 .. MaxSpend BY CostNats
  <2> QED BY <1>1, <2>1 DEF AlertT
<1>7. ToldOnce BY <1>1 DEF ToldOnce
<1>8. Followed BY <1>1, <1>2 DEF Followed
<1>9. alerted \in [KeyT -> Nat] /\ events \subseteq EventT BY <1>1
<1>10. died \in 0 .. MaxCrashes
  <2>1. 0 \in 0 .. MaxCrashes BY CostNats
  <2> QED BY <1>1, <2>1
<1>11. edited \in BOOLEAN BY <1>1
<1> QED BY <1>2, <1>5, <1>6, <1>7, <1>8, <1>9, <1>10, <1>11 DEF CostInv

\* A sweep is begun or given up: nothing is in flight.
LEMMA SweepTurns ==
  ASSUME CostInv, UNCHANGED <<alert, spent, events, alerted, edit, edited>>,
         died' \in 0 .. MaxCrashes, died' = died \/ died' = died + 1,
         sweep.st = "flushed" => died' = died + 1,
         sweep'.st = "idle" \/ Sweeps(sweep'), sweep'.st # "flushed",
         sweep'.st # "idle" => /\ sweep'.version = alert.version /\ sweep'.budget = alert.budget
                               /\ sweep'.todo = sweep'.hit
  PROVE  CostInv'
<1>1. ToldOnce'
  <2>1. SUFFICES ASSUME NEW k \in KeyT
                 PROVE  /\ alerted[k] <= died' + 1
                        /\ alerted[k] > died' => k \in Cost!Recorded
    BY DEF ToldOnce, Cost!Recorded
  <2>2. alerted[k] \in Nat /\ died \in Nat BY DEF CostInv
  <2>3. /\ alerted[k] <= died + 1
        /\ alerted[k] > died => k \in Cost!Recorded \/ InFlight(k)
    BY DEF CostInv, ToldOnce
  <2>4. InFlight(k) => died' = died + 1 BY DEF InFlight
  <2> QED BY <2>2, <2>3, <2>4
<1>2. ~edited => Followed'
  <2>1. ASSUME NEW x \in sweep'.hit, sweep'.st # "idle" PROVE Handled(sweep, x)'
    BY <2>1 DEF Handled
  <2> QED BY <2>1 DEF CostInv, Followed
<1> QED BY <1>1, <1>2 DEF CostInv

LEMMA CostBegins == ASSUME CostInv, Cost!BeginSweep PROVE CostInv'
<1>1. PICK f \in 0 .. 2 :
        /\ sweep = Cost!NoSweep
        /\ sweep' = [st |-> "sweep", hit |-> Cost!Hits(f), todo |-> Cost!Hits(f),
                     period |-> spent.period, budget |-> alert.budget,
                     version |-> alert.version, at |-> <<>>]
        /\ UNCHANGED <<alert, spent, events, alerted, edit, edited, died>>
  BY DEF Cost!BeginSweep
<1>2. PICK hit \in SUBSET HitT : hit = Cost!Hits(f)
  <2>1. Cost!Hits(f) \subseteq HitT BY CostNats DEF Cost!Hits, HitT
  <2> QED BY <2>1
<1>3. PICK p \in 1 .. MaxPeriods, b \in Budgets, v \in 1 .. MaxVersion :
        p = spent.period /\ b = alert.budget /\ v = alert.version
  BY DEF CostInv, AlertT
<1>4. [st |-> "sweep", hit |-> hit, todo |-> hit, period |-> p, budget |-> b, version |-> v,
       at |-> <<>>] \in SweepT
  BY DEF SweepT
<1>5. PICK s \in SweepT : s = [st |-> "sweep", hit |-> hit, todo |-> hit, period |-> p,
                               budget |-> b, version |-> v, at |-> <<>>]
  BY <1>4
<1>6. sweep' = s BY <1>1, <1>2, <1>3, <1>5
<1>7. s.st = "sweep" /\ s.todo = s.hit /\ s.version = v /\ s.budget = b BY <1>5
<1>8. Sweeps(s) BY <1>5, <1>7 DEF Sweeps
<1>9. sweep.st = "idle" BY <1>1 DEF Cost!NoSweep
<1>10. died \in 0 .. MaxCrashes BY DEF CostInv
<1> QED BY <1>1, <1>3, <1>6, <1>7, <1>8, <1>9, <1>10, SweepTurns

LEMMA CostEnds == ASSUME CostInv, Cost!EndSweep \/ Cost!SweepDies PROVE CostInv'
<1>1. sweep'.st = "idle" BY DEF Cost!EndSweep, Cost!SweepDies, Cost!NoSweep
<1>2. /\ UNCHANGED <<alert, spent, events, alerted, edit, edited>>
      /\ died' = died \/ (died' = died + 1 /\ died < MaxCrashes)
      /\ sweep.st = "flushed" => died' = died + 1
  BY DEF Cost!EndSweep, Cost!SweepDies
<1>3. died' \in 0 .. MaxCrashes BY <1>2, CostNats DEF CostInv
<1> QED BY <1>1, <1>2, <1>3, SweepTurns

\* Steps that leave the sweep, the events and who was told as they are.
LEMMA CostRests ==
  ASSUME CostInv, UNCHANGED <<sweep, events, alerted, died>>,
         alert' \in AlertT, spent' \in [period : 1 .. MaxPeriods, sum : 0 .. MaxSpend],
         edited' \in BOOLEAN, DOMAIN edit' = Solo, \A h \in Solo : EditFits(edit'[h]),
         ~edited' => /\ ~edited
                     /\ \/ alert'.version = alert.version /\ alert'.budget = alert.budget
                        \/ alert'.version = alert.version + 1 /\ sweep.st = "idle"
  PROVE  CostInv'
<1>1. ToldOnce'
  <2>1. \A k : InFlight(k)' = InFlight(k) BY DEF InFlight
  <2>2. Cost!Recorded' = Cost!Recorded BY DEF Cost!Recorded
  <2> QED BY <2>1, <2>2 DEF CostInv, ToldOnce
<1>2. ASSUME ~edited' PROVE Followed'
  <2>1. Followed BY <1>2 DEF CostInv
  <2>2. \A x : Handled(sweep, x) => Handled(sweep, x)' BY DEF Handled
  <2>3. CASE alert'.version = alert.version /\ alert'.budget = alert.budget
    BY <2>1, <2>2, <2>3 DEF Followed
  <2>4. CASE alert'.version = alert.version + 1 /\ sweep.st = "idle"
    <3>1. alert.version \in Nat BY DEF CostInv, AlertT
    <3>2. \A e \in events : e.key.version \in Nat BY DEF CostInv, EventT, KeyT
    <3> QED BY <2>1, <2>4, <3>1, <3>2 DEF Followed
  <2> QED BY <1>2, <2>3, <2>4
<1>3. sweep'.st = "idle" \/ Sweeps(sweep') BY DEF CostInv
<1> QED BY <1>1, <1>2, <1>3 DEF CostInv

LEMMA KeyIs ==
  ASSUME NEW s, Sweeps(s), NEW x \in HitT
  PROVE  KeyFor(s.period, x, s.version) \in KeyT
BY DEF KeyFor, KeyT, Sweeps, SweepT, HitT

\* What was handled is, when nothing that could have handled it goes.
LEMMA CostFires == ASSUME CostInv, Cost!Fire PROVE CostInv'
<1>1. sweep.st = "sweep" BY DEF Cost!Fire
<1>2. PICK s \in SweepT : s = sweep /\ Sweeps(s) BY <1>1 DEF CostInv, Sweeps
<1>3. PICK x \in s.todo : LET k == Cost!KeyOf(x, s.version) IN
        IF Cost!IsNew(k)
        THEN /\ alerted' = [alerted EXCEPT ![k] = @ + 1]
             /\ sweep' = [s EXCEPT !.st = "flushed", !.todo = @ \ {x}, !.at = x]
        ELSE /\ sweep' = [s EXCEPT !.todo = @ \ {x}] /\ UNCHANGED alerted
  BY <1>2 DEF Cost!Fire
<1>4. UNCHANGED <<alert, spent, events, edit, edited, died>> BY DEF Cost!Fire
<1>5. x \in HitT /\ x \in s.hit BY <1>2 DEF Sweeps, SweepT
<1>6. PICK k \in KeyT : k = KeyFor(s.period, x, s.version) BY <1>2, <1>5, KeyIs
<1>7. Cost!KeyOf(x, s.version) = k BY <1>2, <1>6 DEF Cost!KeyOf, KeyFor
<1>8. PICK u \in SweepT : u = [s EXCEPT !.todo = s.todo \ {x}]
  <2>1. [s EXCEPT !.todo = s.todo \ {x}] \in SweepT BY DEF SweepT
  <2> QED BY <2>1
<1>9. /\ u.todo = s.todo \ {x} /\ u.hit = s.hit /\ u.st = "sweep" /\ u.period = s.period
      /\ u.budget = s.budget /\ u.version = s.version
  BY <1>1, <1>2, <1>8 DEF SweepT
<1>10. Cost!Recorded' = Cost!Recorded BY <1>4 DEF Cost!Recorded
<1>11. CASE Cost!IsNew(k)
  <2>1. alerted' = [alerted EXCEPT ![k] = alerted[k] + 1] BY <1>3, <1>7, <1>11
  <2>2. PICK w \in SweepT : w = [u EXCEPT !.st = "flushed"]
    <3>1. [u EXCEPT !.st = "flushed"] \in SweepT BY DEF SweepT
    <3> QED BY <3>1
  <2>3. PICK t \in SweepT : t = [w EXCEPT !.at = x]
    <3>1. [w EXCEPT !.at = x] \in SweepT BY <1>5 DEF SweepT
    <3> QED BY <3>1
  <2>4. /\ t.todo = s.todo \ {x} /\ t.hit = s.hit /\ t.st = "flushed" /\ t.at = x
        /\ t.period = s.period /\ t.budget = s.budget /\ t.version = s.version
    BY <1>9, <2>2, <2>3 DEF SweepT
  <2>5. sweep' = t
    <3>1. sweep' = [s EXCEPT !.st = "flushed", !.todo = s.todo \ {x}, !.at = x]
      BY <1>3, <1>7, <1>11
    <3> QED BY <1>8, <2>2, <2>3, <3>1 DEF SweepT
  <2>6. Sweeps(t) BY <1>2, <1>5, <2>4 DEF Sweeps
  <2>7. ToldOnce'
    <3>1. SUFFICES ASSUME NEW j \in KeyT
                   PROVE  /\ alerted'[j] <= died + 1
                          /\ alerted'[j] > died => j \in Cost!Recorded \/ InFlight(j)'
      BY <1>4, <1>10 DEF ToldOnce
    <3>2. alerted[j] \in Nat /\ died \in Nat BY DEF CostInv
    <3>3. alerted[j] <= died + 1 /\ (alerted[j] > died => j \in Cost!Recorded)
      BY <1>1 DEF CostInv, ToldOnce, InFlight
    <3>4. CASE j = k
      <4>1. alerted[k] <= died BY <1>11, <3>2, <3>3, <3>4 DEF Cost!IsNew
      <4>2. alerted'[k] = alerted[k] + 1 BY <2>1 DEF CostInv
      <4>3. InFlight(k)' BY <1>6, <2>4, <2>5 DEF InFlight
      <4> QED BY <3>2, <3>4, <4>1, <4>2, <4>3
    <3>5. CASE j # k
      <4>1. alerted'[j] = alerted[j] BY <2>1, <3>5 DEF CostInv
      <4> QED BY <3>3, <4>1
    <3> QED BY <3>4, <3>5
  <2>8. ASSUME ~edited PROVE Followed'
    <3>1. Followed BY <2>8 DEF CostInv
    <3>2. ASSUME NEW y \in t.hit PROVE Handled(t, y)'
      <4>1. Handled(s, y) BY <1>1, <1>2, <2>4, <3>1, <3>2 DEF Followed
      <4> QED BY <1>1, <1>2, <1>4, <2>4, <4>1 DEF Handled
    <3> QED BY <1>1, <1>2, <1>4, <2>4, <2>5, <3>1, <3>2 DEF Followed
  <2>9. alerted' \in [KeyT -> Nat] BY <2>1 DEF CostInv
  <2> QED BY <1>4, <2>5, <2>6, <2>7, <2>8, <2>9 DEF CostInv
<1>12. CASE ~Cost!IsNew(k)
  <2>1. alerted' = alerted /\ sweep' = u BY <1>3, <1>7, <1>8, <1>12
  <2>2. Sweeps(u) BY <1>2, <1>8, <1>9 DEF Sweeps
  <2>3. ToldOnce'
    <3>1. \A j : ~InFlight(j) BY <1>1 DEF InFlight
    <3> QED BY <1>4, <1>10, <2>1, <3>1 DEF CostInv, ToldOnce
  <2>4. ASSUME ~edited PROVE Followed'
    <3>1. Followed BY <2>4 DEF CostInv
    <3>2. PICK e \in events : e.key = k BY <1>12 DEF Cost!IsNew, Cost!Recorded
    <3>3. k.version = s.version BY <1>6 DEF KeyFor
    <3>4. e.budget = s.budget BY <1>1, <1>2, <3>1, <3>2, <3>3 DEF Followed
    <3>5. ASSUME NEW y \in u.hit PROVE Handled(u, y)'
      <4>1. CASE y = x BY <1>4, <1>6, <1>9, <3>2, <3>3, <3>4, <4>1 DEF Handled
      <4>2. CASE y # x
        <5>1. Handled(s, y) BY <1>1, <1>2, <1>9, <3>1, <3>5 DEF Followed
        <5> QED BY <1>1, <1>2, <1>4, <1>9, <4>2, <5>1 DEF Handled
      <4> QED BY <4>1, <4>2
    <3> QED BY <1>1, <1>2, <1>4, <1>9, <2>1, <3>1, <3>5 DEF Followed
  <2> QED BY <1>4, <2>1, <2>2, <2>3, <2>4 DEF CostInv
<1> QED BY <1>11, <1>12

LEMMA CostCommits == ASSUME CostInv, Cost!CommitEvent PROVE CostInv'
<1>1. sweep.st = "flushed" BY DEF Cost!CommitEvent
<1>2. PICK s \in SweepT : s = sweep /\ Sweeps(s) BY <1>1 DEF CostInv, Sweeps
<1>3. s.at \in HitT BY <1>1, <1>2 DEF Sweeps
<1>4. PICK k \in KeyT : k = KeyFor(s.period, s.at, s.version) BY <1>2, <1>3, KeyIs
<1>5. Cost!KeyOf(sweep.at, sweep.version) = k BY <1>2, <1>4 DEF Cost!KeyOf, KeyFor
<1>6. PICK n \in EventT : n = [key |-> k, budget |-> s.budget]
  <2>1. [key |-> k, budget |-> s.budget] \in EventT BY DEF EventT, SweepT
  <2> QED BY <2>1
<1>7. events' = events \cup {n} BY <1>2, <1>5, <1>6 DEF Cost!CommitEvent
<1>8. PICK v \in 1 .. MaxVersion : v = alert.version BY DEF CostInv, AlertT
<1>9. PICK u \in SweepT : u = [s EXCEPT !.st = "sweep"]
  <2>1. [s EXCEPT !.st = "sweep"] \in SweepT BY DEF SweepT
  <2> QED BY <2>1
<1>10. PICK w \in SweepT : w = [u EXCEPT !.version = v]
  <2>1. [u EXCEPT !.version = v] \in SweepT BY DEF SweepT
  <2> QED BY <2>1
<1>11. PICK t \in SweepT : t = [w EXCEPT !.at = <<>>]
  <2>1. [w EXCEPT !.at = <<>>] \in SweepT BY DEF SweepT
  <2> QED BY <2>1
<1>12. /\ t.todo = s.todo /\ t.hit = s.hit /\ t.st = "sweep" /\ t.period = s.period
       /\ t.budget = s.budget /\ t.version = v
  BY <1>9, <1>10, <1>11 DEF SweepT
<1>13. /\ sweep' = t /\ UNCHANGED <<alert, spent, alerted, edit, edited, died>>
  <2>1. sweep' = [s EXCEPT !.st = "sweep", !.version = v, !.at = <<>>]
    BY <1>2, <1>8 DEF Cost!CommitEvent
  <2>2. sweep' = t BY <1>9, <1>10, <1>11, <2>1 DEF SweepT
  <2> QED BY <2>2 DEF Cost!CommitEvent
<1>14. Sweeps(t) BY <1>2, <1>12 DEF Sweeps
<1>15. n.key = k /\ n.budget = s.budget /\ k.version = s.version BY <1>4, <1>6 DEF KeyFor
<1>16. ToldOnce'
  <2>1. SUFFICES ASSUME NEW j \in KeyT
                 PROVE  /\ alerted[j] <= died + 1
                        /\ alerted[j] > died => j \in Cost!Recorded'
    BY <1>13 DEF ToldOnce
  <2>2. Cost!Recorded' = Cost!Recorded \cup {k} BY <1>7, <1>15 DEF Cost!Recorded
  <2>3. InFlight(j) => j = k BY <1>2, <1>4 DEF InFlight
  <2> QED BY <2>2, <2>3 DEF CostInv, ToldOnce
<1>17. ASSUME ~edited PROVE Followed'
  <2>1. Followed BY <1>17 DEF CostInv
  <2>2. s.version = v /\ s.budget = alert.budget BY <1>1, <1>2, <1>8, <2>1 DEF Followed
  <2>3. ASSUME NEW y \in t.hit PROVE Handled(t, y)'
    <3>1. Handled(s, y) BY <1>1, <1>2, <1>12, <2>1, <2>3 DEF Followed
    <3>2. CASE y = s.at BY <1>4, <1>7, <1>12, <1>15, <3>2 DEF Handled
    <3>3. CASE y # s.at BY <1>7, <1>12, <3>1, <3>3 DEF Handled
    <3> QED BY <3>2, <3>3
  <2>4. ASSUME NEW e \in events'
        PROVE  /\ e.key.version <= alert.version
               /\ e.key.version = alert.version => e.budget = alert.budget
    <3>1. CASE e \in events BY <2>1, <3>1 DEF Followed
    <3>2. CASE e = n BY <1>8, <1>15, <2>2, <3>2
    <3> QED BY <1>7, <3>1, <3>2
  <2> QED BY <1>8, <1>12, <1>13, <2>2, <2>3, <2>4 DEF Followed
<1> QED BY <1>7, <1>13, <1>14, <1>16, <1>17 DEF CostInv

LEMMA BumpedIs ==
  ASSUME NEW a \in AlertT, NEW b \in Budgets, Cost!Bumped(a, b).version <= MaxVersion
  PROVE  /\ Cost!Bumped(a, b) \in AlertT
         /\ Cost!Bumped(a, b) # a => Cost!Bumped(a, b).version = a.version + 1
<1>1. CASE a.budget = b BY <1>1 DEF Cost!Bumped
<1>2. CASE a.budget # b
  <2>1. PICK u \in AlertT : u = [a EXCEPT !.budget = b]
    <3>1. [a EXCEPT !.budget = b] \in AlertT BY DEF AlertT
    <3> QED BY <3>1
  <2>2. PICK n \in Nat : n = a.version /\ u.version = n BY <2>1 DEF AlertT
  <2>3. Cost!Bumped(a, b) = [u EXCEPT !.version = n + 1] BY <1>2, <2>1, <2>2 DEF Cost!Bumped, AlertT
  <2>4. Cost!Bumped(a, b).version = n + 1 BY <2>3 DEF AlertT
  <2>5. n + 1 \in 1 .. MaxVersion BY <2>4, CostNats
  <2>6. [u EXCEPT !.version = n + 1] \in AlertT BY <2>5 DEF AlertT
  <2> QED BY <2>2, <2>3, <2>4, <2>6
<1> QED BY <1>1, <1>2

LEMMA CostEdits ==
  ASSUME CostInv, NEW h \in Solo, Cost!BeginEdit(h)
  PROVE  CostInv'
<1>1. PICK b \in Budgets :
        /\ Cost!Bumped(alert, b).version <= MaxVersion
        /\ edit' = [edit EXCEPT ![h] = [st |-> "edit", read |-> alert, new |-> Cost!Bumped(alert, b)]]
        /\ UNCHANGED <<alert, spent, events, alerted, sweep, edited, died>>
  BY DEF Cost!BeginEdit
<1>2. PICK e : e = [st |-> "edit", read |-> alert, new |-> Cost!Bumped(alert, b)] OBVIOUS
<1>3. e.read = alert /\ e.new = Cost!Bumped(alert, b) BY <1>2
<1>4. EditFits(e) BY <1>1, <1>3, BumpedIs DEF EditFits, CostInv
<1>5. DOMAIN edit' = Solo /\ \A g \in Solo : EditFits(edit'[g])
  BY <1>1, <1>2, <1>4 DEF CostInv
<1>6. alert' \in AlertT /\ spent' = spent /\ edited' = edited BY <1>1 DEF CostInv
<1> QED BY <1>1, <1>5, <1>6, CostRests DEF CostInv

LEMMA CostCommitsEdit ==
  ASSUME CostInv, NEW h \in Solo, Cost!CommitEdit(h)
  PROVE  CostInv'
<1>1. PICK a \in AlertT : a = alert BY DEF CostInv
<1>2. PICK r \in AlertT, n \in AlertT : /\ r = edit[h].read /\ n = edit[h].new
                                        /\ n # r => n.version = r.version + 1
  BY DEF CostInv, EditFits, Cost!CommitEdit
<1>3. /\ alert' = [c \in DOMAIN a |-> IF n[c] = r[c] THEN a[c] ELSE n[c]]
      /\ edit' = [edit EXCEPT ![h] = Cost!NoEdit]
      /\ edited' = (edited \/ (n # r /\ (a # r \/ sweep.st \in {"sweep", "flushed"})))
      /\ UNCHANGED <<spent, events, alerted, sweep, died>>
  BY <1>1, <1>2 DEF Cost!CommitEdit
<1>4. PICK b \in Budgets, v \in 1 .. MaxVersion, on2 \in BOOLEAN :
        /\ b = IF n.budget = r.budget THEN a.budget ELSE n.budget
        /\ v = IF n.version = r.version THEN a.version ELSE n.version
        /\ on2 = IF n.on = r.on THEN a.on ELSE n.on
  BY DEF AlertT
<1>5. alert' = [budget |-> b, version |-> v, on |-> on2]
  BY <1>3, <1>4 DEF AlertT
<1>6. alert' \in AlertT /\ alert'.budget = b /\ alert'.version = v BY <1>5 DEF AlertT
<1>7. PICK i : i = Cost!NoEdit OBVIOUS
<1>8. EditFits(i) BY <1>7 DEF EditFits, Cost!NoEdit
<1>9. DOMAIN edit' = Solo /\ \A g \in Solo : EditFits(edit'[g])
  BY <1>3, <1>7, <1>8 DEF CostInv
<1>10. edited' \in BOOLEAN BY <1>3
<1>11. ASSUME ~edited'
       PROVE  /\ ~edited
              /\ \/ alert'.version = alert.version /\ alert'.budget = alert.budget
                 \/ alert'.version = alert.version + 1 /\ sweep.st = "idle"
  <2>1. ~edited /\ (n = r \/ (a = r /\ sweep.st \notin {"sweep", "flushed"}))
    BY <1>3, <1>11, Zenon
  <2>2. CASE n = r BY <1>1, <1>4, <1>6, <2>1, <2>2
  <2>3. CASE n # r
    <3>1. a = r /\ n.version = a.version + 1 /\ a.version \in Nat BY <1>2, <2>1, <2>3 DEF AlertT
    <3>2. v = a.version + 1 BY <1>4, <3>1
    <3>3. sweep.st = "idle" BY <2>1, <2>3 DEF CostInv, Sweeps, SweepT
    <3> QED BY <1>1, <1>6, <2>1, <3>2, <3>3
  <2> QED BY <2>2, <2>3
<1>12. spent' \in [period : 1 .. MaxPeriods, sum : 0 .. MaxSpend] BY <1>3 DEF CostInv
<1> QED BY <1>3, <1>6, <1>9, <1>10, <1>11, <1>12, CostRests

LEMMA CostNext == ASSUME CostInv, [Cost!Next]_OfCost PROVE CostInv'
<1>1. CASE UNCHANGED OfCost BY <1>1, CostRests DEF OfCost, CostInv
<1>2. CASE Cost!Switch
  <2>1. alert' \in AlertT /\ alert'.version = alert.version /\ alert'.budget = alert.budget
    BY <1>2 DEF Cost!Switch, CostInv, AlertT
  <2>2. UNCHANGED <<spent, events, alerted, sweep, edit, edited, died>> BY <1>2 DEF Cost!Switch
  <2> QED BY <2>1, <2>2, CostRests DEF CostInv
<1>3. CASE Cost!Spend \/ Cost!NextPeriod
  <2>1. spent' \in [period : 1 .. MaxPeriods, sum : 0 .. MaxSpend]
    BY <1>3, CostNats DEF Cost!Spend, Cost!NextPeriod, CostInv
  <2>2. UNCHANGED <<alert, events, alerted, sweep, edit, edited, died>>
    BY <1>3 DEF Cost!Spend, Cost!NextPeriod
  <2> QED BY <2>1, <2>2, CostRests DEF CostInv
<1>4. CASE \E h \in Solo : Cost!BeginEdit(h) \/ Cost!CommitEdit(h)
  BY <1>4, CostEdits, CostCommitsEdit
<1> QED BY <1>1, <1>2, <1>3, <1>4, CostBegins, CostFires, CostCommits, CostEnds DEF Cost!Next

LEMMA CostFollows == ASSUME CostInv PROVE Cost!AlertsAreTold /\ Cost!TypeOK
<1>1. ASSUME NEW k \in KeyT PROVE alerted[k] <= 1 + died
  <2>1. alerted[k] \in Nat /\ died \in Nat /\ alerted[k] <= died + 1 BY DEF CostInv, ToldOnce
  <2> QED BY <2>1
<1>2. ASSUME sweep.st = "sweep", sweep.todo = {}, ~edited, NEW x \in sweep.hit
      PROVE  \E e \in events : e.budget = sweep.budget /\ e.key = Cost!KeyOf(x, e.key.version)
  <2>1. Handled(sweep, x) BY <1>2 DEF CostInv, Followed
  <2> QED BY <1>2, <2>1 DEF Handled, Cost!KeyOf, KeyFor
<1>3. Cost!TypeOK BY CostNats DEF CostInv, AlertT, EventT, Cost!TypeOK
<1> QED BY <1>1, <1>2, <1>3, CostNats DEF Cost!AlertsAreTold

----------------------------------------------------------------------------
(* The scheduler: reminders *)

ReminderT == [open : BOOLEAN, age : 0 .. MaxReminders + 1, sent : Nat, logged : 0 .. MaxReminders]

\* Who is in its cycle has the lock; what it counts is still to be logged.
CycleFits(w) ==
  /\ cycle[w].at \in {"off", "remind", "count", "retry"}
  /\ cycle[w].at # "off" => lock = w
  /\ cycle[w].at \in {"remind", "count"} => cycle[w].todo \subseteq Offers
  /\ cycle[w].at = "count" =>
       /\ cycle[w].on \in Offers /\ offer[cycle[w].on].logged < MaxReminders
       /\ offer[cycle[w].on].age >= offer[cycle[w].on].logged + 1

Counting(o) == \E w \in Handlers : cycle[w].at = "count" /\ cycle[w].on = o

\* What was sent is logged, but for the one that is counted and those of workers that died.
Paced(o) == /\ offer[o].logged <= offer[o].age
            /\ offer[o].sent <= offer[o].logged + crashes + 1
            /\ offer[o].sent > offer[o].logged + crashes => Counting(o)

RemindInv ==
  /\ lock \in Handlers \cup {"free"} /\ tried \in [{} -> Nat] /\ crashes \in Nat
  /\ offer \in [Offers -> ReminderT]
  /\ DOMAIN cycle = Handlers /\ \A w \in Handlers : CycleFits(w)
  /\ \A o \in Offers : Paced(o)

LEMMA RemindNats == MaxReminders \in Nat /\ "free" \notin Handlers
BY RemindParameters DEF Reminding!ParametersAssumption

LEMMA RemindInit == ASSUME Reminding!Init PROVE RemindInv
<1>1. PICK i : i = Reminding!Off OBVIOUS
<1>2. i.at = "off" BY <1>1 DEF Reminding!Off
<1>3. /\ lock = "free" /\ cycle = [w \in Handlers |-> i] /\ crashes = 0
      /\ offer = [o \in Offers |-> [open |-> TRUE, age |-> 0, sent |-> 0, logged |-> 0]]
      /\ tried = [n \in {} |-> 0]
  BY <1>1 DEF Reminding!Init
<1>4. [open |-> TRUE, age |-> 0, sent |-> 0, logged |-> 0] \in ReminderT
  BY RemindNats DEF ReminderT
<1>5. \A w \in Handlers : CycleFits(w) BY <1>2, <1>3 DEF CycleFits
<1>6. \A o \in Offers : Paced(o) BY <1>3 DEF Paced
<1> QED BY <1>3, <1>4, <1>5, <1>6 DEF RemindInv

\* While one worker has the lock and counts nothing, nothing is being counted.
LEMMA NoneCounted ==
  ASSUME RemindInv, NEW w \in Handlers, lock = w, cycle[w].at # "count", NEW o \in Offers
  PROVE  ~Counting(o) /\ offer[o].sent <= offer[o].logged + crashes
<1>1. \A v \in Handlers : v # w => cycle[v].at = "off" BY DEF RemindInv, CycleFits
<1>2. ~Counting(o) BY <1>1 DEF Counting
<1>3. offer[o].sent \in Nat /\ offer[o].logged \in Nat /\ crashes \in Nat
  BY DEF RemindInv, ReminderT
<1> QED BY <1>2, <1>3 DEF RemindInv, Paced

\* A worker that has the lock, or takes it, goes on to c, counting nothing before or after.
LEMMA CycleTurns ==
  ASSUME RemindInv, NEW w \in Handlers, NEW c, cycle' = [cycle EXCEPT ![w] = c],
         cycle[w].at # "count", c.at \in {"off", "remind", "retry"},
         c.at = "remind" => c.todo \subseteq Offers,
         lock = w \/ lock = "free", lock' = w \/ (lock' = "free" /\ c.at = "off"),
         UNCHANGED <<offer, crashes>>, tried' \in [{} -> Nat]
  PROVE  RemindInv'
<1>1. \A v \in Handlers : v # w => cycle[v].at = "off" BY RemindNats DEF RemindInv, CycleFits
<1>2. /\ DOMAIN cycle' = Handlers /\ cycle'[w] = c
      /\ \A v \in Handlers : v # w => cycle'[v] = cycle[v]
  BY DEF RemindInv
<1>3. ASSUME NEW v \in Handlers PROVE CycleFits(v)'
  <2>1. CASE v = w BY <1>2, <2>1 DEF CycleFits
  <2>2. CASE v # w BY <1>1, <1>2, <2>2 DEF CycleFits
  <2> QED BY <2>1, <2>2
<1>4. ASSUME NEW o \in Offers PROVE Paced(o)'
  <2>1. ~Counting(o) BY <1>1 DEF Counting
  <2> QED BY <2>1 DEF RemindInv, Paced
<1> QED BY <1>2, <1>3, <1>4 DEF RemindInv

LEMMA RemindSends ==
  ASSUME RemindInv, NEW w \in Handlers, Reminding!Remind(w)
  PROVE  RemindInv'
<1>1. PICK o \in cycle[w].todo :
        IF Reminding!Due(o)
        THEN /\ offer' = [offer EXCEPT ![o].sent = @ + 1]
             /\ cycle' = [cycle EXCEPT ![w] = [at |-> "count", todo |-> @.todo, on |-> o]]
        ELSE /\ cycle' = [cycle EXCEPT ![w].todo = @ \ {o}] /\ UNCHANGED offer
  BY DEF Reminding!Remind
<1>2. cycle[w].at = "remind" /\ UNCHANGED <<lock, journal, tried, crashes>> BY DEF Reminding!Remind
<1>3. lock = w /\ cycle[w].todo \subseteq Offers /\ o \in Offers
  BY <1>1, <1>2 DEF RemindInv, CycleFits
<1>4. CASE ~Reminding!Due(o)
  <2>1. PICK c : c = [cycle[w] EXCEPT !.todo = cycle[w].todo \ {o}] OBVIOUS
  <2>2. c.at = "remind" /\ c.todo \subseteq Offers
    <3>1. c.at = "remind" BY <1>2, <2>1
    <3>2. \A x \in c.todo : x \in Offers BY <1>3, <2>1
    <3> QED BY <3>1, <3>2
  <2>3. cycle' = [cycle EXCEPT ![w] = c] /\ offer' = offer BY <1>1, <1>4, <2>1
  <2> QED BY <1>2, <1>3, <2>2, <2>3, CycleTurns DEF RemindInv
<1>5. CASE Reminding!Due(o)
  <2>1. PICK r \in ReminderT : r = offer[o] BY <1>3 DEF RemindInv
  <2>2. PICK u \in ReminderT : u = [r EXCEPT !.sent = r.sent + 1]
    <3>1. [r EXCEPT !.sent = r.sent + 1] \in ReminderT BY DEF ReminderT
    <3> QED BY <3>1
  <2>3. u.sent = r.sent + 1 /\ u.logged = r.logged /\ u.age = r.age BY <2>2 DEF ReminderT
  <2>4. PICK c : c = [at |-> "count", todo |-> cycle[w].todo, on |-> o] OBVIOUS
  <2>5. offer' = [offer EXCEPT ![o] = u] /\ cycle' = [cycle EXCEPT ![w] = c]
    BY <1>1, <1>5, <2>1, <2>2, <2>4
  <2>6. offer' \in [Offers -> ReminderT] /\ offer'[o] = u
        /\ \A p \in Offers : p # o => offer'[p] = offer[p]
    BY <1>3, <2>5 DEF RemindInv
  <2>7. /\ DOMAIN cycle' = Handlers /\ cycle'[w] = c
        /\ \A v \in Handlers : v # w => cycle'[v] = cycle[v]
    BY <2>5 DEF RemindInv
  <2>8. r.logged < MaxReminders /\ r.age >= r.logged + 1 BY <1>5, <2>1 DEF Reminding!Due
  <2>9. \A v \in Handlers : v # w => cycle[v].at = "off" BY <1>3 DEF RemindInv, CycleFits
  <2>10. ASSUME NEW v \in Handlers PROVE CycleFits(v)'
    <3>1. CASE v = w BY <1>2, <1>3, <2>3, <2>4, <2>6, <2>7, <2>8, <3>1 DEF CycleFits
    <3>2. CASE v # w BY <2>7, <2>9, <3>2 DEF CycleFits
    <3> QED BY <3>1, <3>2
  <2>11. ASSUME NEW p \in Offers PROVE Paced(p)'
    <3>1. offer[p].sent <= offer[p].logged + crashes BY <1>2, <1>3, NoneCounted
    <3>2. offer[p].sent \in Nat /\ offer[p].logged \in Nat /\ offer[p].age \in Nat /\ crashes \in Nat
      BY DEF RemindInv, ReminderT
    <3>3. offer[p].logged <= offer[p].age BY DEF RemindInv, Paced
    <3>4. CASE p = o
      <4>1. Counting(o)' BY <2>4, <2>7 DEF Counting
      <4> QED BY <1>2, <2>1, <2>3, <2>6, <3>1, <3>2, <3>3, <3>4, <4>1 DEF Paced
    <3>5. CASE p # o BY <1>2, <2>6, <3>1, <3>2, <3>3, <3>5 DEF Paced
    <3> QED BY <3>4, <3>5
  <2> QED BY <1>2, <2>6, <2>7, <2>10, <2>11 DEF RemindInv
<1> QED BY <1>4, <1>5

LEMMA RemindCounts ==
  ASSUME RemindInv, NEW w \in Handlers, Reminding!CountIt(w)
  PROVE  RemindInv'
<1>1. PICK o \in Offers : /\ o = cycle[w].on /\ offer[o].logged < MaxReminders
                          /\ offer[o].age >= offer[o].logged + 1
  BY DEF RemindInv, CycleFits, Reminding!CountIt
<1>2. PICK todo : todo = cycle[w].todo OBVIOUS
<1>3. PICK r \in ReminderT : r = offer[o] BY DEF RemindInv
<1>4. PICK u \in ReminderT : u = [r EXCEPT !.logged = r.logged + 1]
  <2>1. r.logged + 1 \in 0 .. MaxReminders BY <1>1, <1>3, RemindNats DEF ReminderT
  <2>2. [r EXCEPT !.logged = r.logged + 1] \in ReminderT BY <2>1 DEF ReminderT
  <2> QED BY <2>2
<1>5. u.sent = r.sent /\ u.logged = r.logged + 1 /\ u.age = r.age BY <1>4 DEF ReminderT
<1>6. PICK c : c = [at |-> "remind", todo |-> todo \ {o}] OBVIOUS
<1>7. /\ cycle[w].at = "count" /\ offer' = [offer EXCEPT ![o] = u]
      /\ cycle' = [cycle EXCEPT ![w] = c] /\ UNCHANGED <<lock, journal, tried, crashes>>
  BY <1>1, <1>2, <1>3, <1>4, <1>6 DEF Reminding!CountIt
<1>8. lock = w /\ todo \subseteq Offers BY <1>2, <1>7 DEF RemindInv, CycleFits
<1>9. c.at = "remind" /\ c.todo \subseteq Offers BY <1>6, <1>8
<1>10. /\ offer' \in [Offers -> ReminderT] /\ offer'[o] = u
       /\ \A p \in Offers : p # o => offer'[p] = offer[p]
  BY <1>7 DEF RemindInv
<1>11. /\ DOMAIN cycle' = Handlers /\ cycle'[w] = c
       /\ \A v \in Handlers : v # w => cycle'[v] = cycle[v]
  BY <1>7 DEF RemindInv
<1>12. \A v \in Handlers : v # w => cycle[v].at = "off" BY <1>8 DEF RemindInv, CycleFits
<1>13. ASSUME NEW v \in Handlers PROVE CycleFits(v)'
  <2>1. CASE v = w BY <1>7, <1>8, <1>9, <1>11, <2>1 DEF CycleFits
  <2>2. CASE v # w BY <1>11, <1>12, <2>2 DEF CycleFits
  <2> QED BY <2>1, <2>2
<1>14. ASSUME NEW p \in Offers PROVE Paced(p)'
  <2>1. offer[p].sent \in Nat /\ offer[p].logged \in Nat /\ offer[p].age \in Nat /\ crashes \in Nat
    BY DEF RemindInv, ReminderT
  <2>2. Paced(p) BY DEF RemindInv
  <2>3. CASE p = o
    <3>1. offer'[p].sent <= offer'[p].logged + crashes
      BY <1>3, <1>5, <1>10, <2>1, <2>2, <2>3 DEF Paced
    <3>2. offer'[p].logged <= offer'[p].age BY <1>1, <1>3, <1>5, <1>10, <2>3
    <3>3. offer'[p].logged \in Nat /\ offer'[p].sent \in Nat BY <1>10 DEF ReminderT
    <3> QED BY <1>7, <2>1, <3>1, <3>2, <3>3 DEF Paced
  <2>4. CASE p # o
    <3>1. ~Counting(p) BY <1>1, <1>12, <2>4 DEF Counting
    <3> QED BY <1>7, <1>10, <2>1, <2>2, <2>4, <3>1 DEF Paced
  <2> QED BY <2>3, <2>4
<1> QED BY <1>7, <1>8, <1>10, <1>11, <1>13, <1>14 DEF RemindInv

\* A worker that dies may have sent what it did not log.
LEMMA RemindDies ==
  ASSUME RemindInv, NEW w \in Handlers, Reminding!Dies(w)
  PROVE  RemindInv'
<1>1. PICK c : c = Reminding!Off OBVIOUS
<1>2. c.at = "off" BY <1>1 DEF Reminding!Off
<1>3. /\ cycle' = [cycle EXCEPT ![w] = c] /\ lock' = (IF lock = w THEN "free" ELSE lock)
      /\ crashes' = crashes + 1 /\ UNCHANGED <<offer, journal, tried>>
  BY <1>1 DEF Reminding!Dies
<1>4. /\ DOMAIN cycle' = Handlers /\ cycle'[w] = c
      /\ \A v \in Handlers : v # w => cycle'[v] = cycle[v]
  BY <1>3 DEF RemindInv
<1>5. ASSUME NEW v \in Handlers PROVE CycleFits(v)'
  <2>1. CASE v = w BY <1>2, <1>4, <2>1 DEF CycleFits
  <2>2. CASE v # w
    <3>1. CycleFits(v) BY DEF RemindInv
    <3>2. lock = v => lock' = v BY <1>3, <2>2
    <3> QED BY <1>3, <1>4, <2>2, <3>1, <3>2 DEF CycleFits
  <2> QED BY <2>1, <2>2
<1>6. ASSUME NEW o \in Offers PROVE Paced(o)'
  <2>1. offer[o].sent \in Nat /\ offer[o].logged \in Nat /\ crashes \in Nat
    BY DEF RemindInv, ReminderT
  <2> QED BY <1>3, <2>1 DEF RemindInv, Paced
<1> QED BY <1>3, <1>4, <1>5, <1>6 DEF RemindInv

\* Time passes, or the offer is answered.
LEMMA OfferAges ==
  ASSUME RemindInv, NEW o \in Offers, NEW u \in ReminderT, offer' = [offer EXCEPT ![o] = u],
         u.sent = offer[o].sent, u.logged = offer[o].logged, u.age >= offer[o].age,
         UNCHANGED <<lock, cycle, tried, crashes>>
  PROVE  RemindInv'
<1>1. /\ offer' \in [Offers -> ReminderT] /\ offer'[o] = u
      /\ \A p \in Offers : p # o => offer'[p] = offer[p]
  BY DEF RemindInv
<1>2. \A p \in Offers : /\ offer'[p].sent = offer[p].sent /\ offer'[p].logged = offer[p].logged
                        /\ offer'[p].age >= offer[p].age
                        /\ offer[p].age \in Nat /\ offer'[p].age \in Nat /\ offer[p].logged \in Nat
  BY <1>1 DEF RemindInv, ReminderT
<1>3. ASSUME NEW w \in Handlers PROVE CycleFits(w)'
  <2>1. CycleFits(w) BY DEF RemindInv
  <2> QED BY <1>2, <2>1 DEF CycleFits
<1>4. ASSUME NEW p \in Offers PROVE Paced(p)'
  <2>1. Paced(p) BY DEF RemindInv
  <2>2. Counting(p)' = Counting(p) BY DEF Counting
  <2> QED BY <1>2, <2>1, <2>2 DEF Paced
<1> QED BY <1>1, <1>3, <1>4 DEF RemindInv

LEMMA RemindNext == ASSUME RemindInv, [Reminding!Next]_OfScheduler PROVE RemindInv'
<1>1. CASE UNCHANGED OfScheduler
  BY <1>1 DEF OfScheduler, RemindInv, CycleFits, Paced, Counting
<1>2. ASSUME NEW o \in Offers, Reminding!Ages(o) PROVE RemindInv'
  <2>1. PICK r \in ReminderT : r = offer[o] BY DEF RemindInv
  <2>2. r.age <= MaxReminders BY <1>2, <2>1 DEF Reminding!Ages
  <2>3. PICK u \in ReminderT : u = [r EXCEPT !.age = r.age + 1]
    <3>1. [r EXCEPT !.age = r.age + 1] \in ReminderT BY <2>2, RemindNats DEF ReminderT
    <3> QED BY <3>1
  <2>4. u.sent = r.sent /\ u.logged = r.logged /\ u.age >= r.age BY <2>3 DEF ReminderT
  <2>5. offer' = [offer EXCEPT ![o] = u] /\ UNCHANGED <<lock, cycle, tried, crashes>>
    BY <1>2, <2>1, <2>3 DEF Reminding!Ages
  <2> QED BY <2>1, <2>4, <2>5, OfferAges
<1>3. ASSUME NEW o \in Offers, Reminding!Answered(o) PROVE RemindInv'
  <2>1. PICK r \in ReminderT : r = offer[o] BY DEF RemindInv
  <2>2. PICK u \in ReminderT : u = [r EXCEPT !.open = FALSE]
    <3>1. [r EXCEPT !.open = FALSE] \in ReminderT BY DEF ReminderT
    <3> QED BY <3>1
  <2>3. u.sent = r.sent /\ u.logged = r.logged /\ u.age >= r.age BY <2>2 DEF ReminderT
  <2>4. offer' = [offer EXCEPT ![o] = u] /\ UNCHANGED <<lock, cycle, tried, crashes>>
    BY <1>3, <2>1, <2>2 DEF Reminding!Answered
  <2> QED BY <2>1, <2>3, <2>4, OfferAges
<1>4. ASSUME NEW w \in Handlers, Reminding!Start(w) PROVE RemindInv'
  <2>1. PICK c : c = [at |-> "remind",
                      todo |-> {o \in Offers : offer[o].open /\ offer[o].age >= 1}]
    OBVIOUS
  <2>2. c.at = "remind" /\ c.todo \subseteq Offers BY <2>1
  <2>3. PICK i : i = Reminding!Off OBVIOUS
  <2>4. i.at = "off" BY <2>3 DEF Reminding!Off
  <2>5. /\ cycle[w] = i /\ lock = "free" /\ lock' = w /\ cycle' = [cycle EXCEPT ![w] = c]
        /\ UNCHANGED <<offer, tried, crashes>>
    BY <1>4, <2>1, <2>3 DEF Reminding!Start, Reminding!MayRun
  <2> QED BY <2>2, <2>4, <2>5, CycleTurns DEF RemindInv
<1>5. ASSUME NEW w \in Handlers, Reminding!Signal(w) PROVE RemindInv'
  <2>1. PICK c : c = [cycle[w] EXCEPT !.at = "retry"] OBVIOUS
  <2>2. /\ cycle[w].at = "remind" /\ cycle' = [cycle EXCEPT ![w] = c]
        /\ UNCHANGED <<lock, offer, tried, crashes>>
    BY <1>5, <2>1 DEF Reminding!Signal
  <2>3. c.at = "retry"
    <3>1. "at" \in DOMAIN cycle[w] \/ "at" \notin DOMAIN cycle[w] OBVIOUS
    <3> QED BY <2>1, <2>2
  <2>4. lock = w BY <2>2 DEF RemindInv, CycleFits
  <2> QED BY <2>2, <2>3, <2>4, CycleTurns DEF RemindInv
<1>6. ASSUME NEW w \in Handlers, Reminding!Retry(w) PROVE RemindInv'
  <2>1. PICK c : c = Reminding!Off OBVIOUS
  <2>2. c.at = "off" BY <2>1 DEF Reminding!Off
  <2>3. /\ cycle[w].at = "retry" /\ cycle' = [cycle EXCEPT ![w] = c] /\ lock' = "free"
        /\ UNCHANGED <<offer, crashes>> /\ tried' \in [{} -> Nat]
    BY <1>6, <2>1 DEF Reminding!Retry
  <2>4. lock = w BY <2>3 DEF RemindInv, CycleFits
  <2> QED BY <2>2, <2>3, <2>4, CycleTurns
<1> QED
  BY <1>1, <1>2, <1>3, <1>4, <1>5, <1>6, RemindSends, RemindCounts, RemindDies DEF Reminding!Next

LEMMA RemindFollows ==
  ASSUME RemindInv
  PROVE  Reminding!RemindersArePaced /\ Reminding!TypeOK
<1>1. ASSUME NEW o \in Offers
      PROVE  offer[o].sent <= offer[o].age + crashes /\ offer[o].sent <= MaxReminders + crashes
  <2>1. /\ offer[o].sent \in Nat /\ offer[o].logged \in 0 .. MaxReminders /\ offer[o].age \in Nat
        /\ crashes \in Nat
    BY DEF RemindInv, ReminderT
  <2>2. Paced(o) BY DEF RemindInv
  <2>3. CASE Counting(o)
    <3>1. offer[o].logged < MaxReminders /\ offer[o].age >= offer[o].logged + 1
      BY <2>3 DEF Counting, RemindInv, CycleFits
    <3> QED BY <2>1, <2>2, <3>1, RemindNats DEF Paced
  <2>4. CASE ~Counting(o) BY <2>1, <2>2, <2>4, RemindNats DEF Paced
  <2> QED BY <2>3, <2>4
<1>2. \A w \in Handlers : cycle[w].at \in {"off", "remind", "count", "retry"}
  BY DEF RemindInv, CycleFits
<1>3. Reminding!TypeOK BY <1>2 DEF Reminding!TypeOK, RemindInv, ReminderT
<1> QED BY <1>1, <1>3 DEF Reminding!RemindersArePaced

----------------------------------------------------------------------------
(* The scheduler: signals and retries *)

Lines(s)  == {s[i] : i \in DOMAIN s}
Once(s)   == \A i, j \in DOMAIN s : s[i] = s[j] => i = j
Few(s)    == Cardinality(Lines(s)) <= LogWindow
JournalT  == [signal : Seq(Walks), failed : Seq(Notices), retried : Seq(Notices)]
Refusals(n, s) == {i \in DOMAIN s : s[i] = n}

\* What was retried had been refused twice at most, as what is still to be retried is.
RetryFits(n) == LET refused == Cardinality(Refusals(n, journal.failed))
                IN /\ tried[n] <= refused /\ tried[n] <= 2
                   /\ n \notin Lines(journal.retried) => tried[n] = 0 /\ refused <= 2

\* While the log window holds all that the hour told, it is told once.
RecoverInv ==
  /\ lock \in Handlers \cup {"free"} /\ tried \in [Notices -> Nat] /\ journal \in JournalT
  /\ DOMAIN cycle = Handlers
  /\ \A w \in Handlers : cycle[w].at \in {"off", "remind", "count", "retry"}
  /\ Few(journal.signal) => Once(journal.signal)
  /\ Few(journal.retried) => Once(journal.retried) /\ \A n \in Notices : RetryFits(n)

LEMMA RecoverNats ==
  /\ LogWindow \in Nat /\ RetryBatch \in Nat /\ IsFiniteSet(Walks)
  /\ \A S : Recovering!Cardinality(S) = Cardinality(S)
<1>1. LogWindow \in Nat /\ RetryBatch \in Nat /\ IsFiniteSet(Walks)
  BY RecoverParameters DEF Recovering!ParametersAssumption, Recovering!IsFiniteSet, IsFiniteSet
<1>2. \A S : Recovering!Cardinality(S) = Cardinality(S)
  BY DEF Recovering!Cardinality, Cardinality, Recovering!IsFiniteSet, IsFiniteSet
<1> QED BY <1>1, <1>2

\* What has each of its lines once has as many lines as it is long.
LEMMA LinesOf ==
  ASSUME NEW S, NEW s \in Seq(S)
  PROVE  /\ IsFiniteSet(Lines(s)) /\ Cardinality(Lines(s)) \in Nat /\ Lines(s) \subseteq S
         /\ Once(s) => Cardinality(Lines(s)) = Len(s)
<1>1. /\ Len(s) \in Nat /\ DOMAIN s = 1 .. Len(s) /\ s \in [1 .. Len(s) -> S] BY LenProperties
<1>2. IsFiniteSet(1 .. Len(s)) /\ Cardinality(1 .. Len(s)) = Len(s) BY <1>1, FS_Interval
<1>3. s \in Surjection(1 .. Len(s), Lines(s)) BY <1>1 DEF Surjection, Lines
<1>4. Once(s) => s \in Injection(1 .. Len(s), Lines(s))
  BY <1>1, <1>3 DEF Surjection, Injection, IsInjective, Once
<1>5. IsFiniteSet(Lines(s)) BY <1>2, <1>3, FS_Surjection
<1>6. Once(s) => Cardinality(Lines(s)) = Len(s) BY <1>2, <1>3, <1>4, FS_Surjection
<1> QED BY <1>1, <1>5, <1>6, FS_CardinalityType DEF Lines

\* One list after the other.
LEMMA ListsJoin ==
  ASSUME NEW S, NEW s \in Seq(S), NEW t \in Seq(S)
  PROVE  /\ s \o t \in Seq(S) /\ Lines(s \o t) = Lines(s) \cup Lines(t)
         /\ Once(s) /\ Once(t) /\ Lines(s) \cap Lines(t) = {} => Once(s \o t)
<1> DEFINE u == s \o t
<1>1. /\ Len(s) \in Nat /\ Len(t) \in Nat /\ DOMAIN s = 1 .. Len(s) /\ DOMAIN t = 1 .. Len(t)
      /\ u \in Seq(S) /\ Len(u) = Len(s) + Len(t) /\ DOMAIN u = 1 .. Len(s) + Len(t)
      /\ \A i \in 1 .. Len(s) + Len(t) : u[i] = IF i <= Len(s) THEN s[i] ELSE t[i - Len(s)]
  BY LenProperties, ConcatProperties
<1> HIDE DEF u
<1>2. ASSUME NEW i \in DOMAIN s PROVE i \in DOMAIN u /\ u[i] = s[i] BY <1>1
<1>3. ASSUME NEW i \in DOMAIN t PROVE i + Len(s) \in DOMAIN u /\ u[i + Len(s)] = t[i] BY <1>1
<1>4. ASSUME NEW i \in DOMAIN u, i \notin DOMAIN s
      PROVE  i - Len(s) \in DOMAIN t /\ u[i] = t[i - Len(s)]
  BY <1>1, <1>4
<1>5. Lines(u) = Lines(s) \cup Lines(t)
  <2>1. ASSUME NEW x \in Lines(u) PROVE x \in Lines(s) \cup Lines(t)
    <3>1. PICK i \in DOMAIN u : x = u[i] BY DEF Lines
    <3>2. CASE i \in DOMAIN s BY <1>2, <3>1, <3>2 DEF Lines
    <3>3. CASE i \notin DOMAIN s BY <1>4, <3>1, <3>3 DEF Lines
    <3> QED BY <3>2, <3>3
  <2>2. ASSUME NEW x \in Lines(s) PROVE x \in Lines(u) BY <1>2 DEF Lines
  <2>3. ASSUME NEW x \in Lines(t) PROVE x \in Lines(u) BY <1>3 DEF Lines
  <2> QED BY <2>1, <2>2, <2>3
<1>6. ASSUME Once(s), Once(t), Lines(s) \cap Lines(t) = {} PROVE Once(u)
  <2>1. SUFFICES ASSUME NEW i \in DOMAIN u, NEW j \in DOMAIN u, u[i] = u[j] PROVE i = j
    BY DEF Once
  <2>2. \A k \in DOMAIN s, l \in DOMAIN t : s[k] # t[l] BY <1>6 DEF Lines
  <2>3. CASE i \in DOMAIN s /\ j \in DOMAIN s BY <1>2, <1>6, <2>1, <2>3 DEF Once
  <2>4. CASE i \in DOMAIN s /\ j \notin DOMAIN s BY <1>2, <1>4, <2>1, <2>2, <2>4
  <2>5. CASE i \notin DOMAIN s /\ j \in DOMAIN s BY <1>2, <1>4, <2>1, <2>2, <2>5
  <2>6. CASE i \notin DOMAIN s /\ j \notin DOMAIN s
    <3>1. i - Len(s) = j - Len(s) BY <1>4, <1>6, <2>1, <2>6 DEF Once
    <3> QED BY <1>1, <3>1
  <2> QED BY <2>3, <2>4, <2>5, <2>6
<1>7. u \in Seq(S) /\ Lines(u) = Lines(s) \cup Lines(t) BY <1>1, <1>5
<1> QED BY <1>6, <1>7 DEF u

\* Whose n are in the first are in both; and they are all, where the other has no n.
LEMMA RefusalsJoin ==
  ASSUME NEW S, NEW s \in Seq(S), NEW t \in Seq(S), NEW n
  PROVE  /\ Refusals(n, s) \subseteq Refusals(n, s \o t)
         /\ n \notin Lines(t) => Refusals(n, s \o t) = Refusals(n, s)
<1> DEFINE u == s \o t
<1>1. /\ Len(s) \in Nat /\ Len(t) \in Nat /\ DOMAIN s = 1 .. Len(s) /\ DOMAIN t = 1 .. Len(t)
      /\ DOMAIN u = 1 .. Len(s) + Len(t)
      /\ \A i \in 1 .. Len(s) + Len(t) : u[i] = IF i <= Len(s) THEN s[i] ELSE t[i - Len(s)]
  BY LenProperties, ConcatProperties
<1> HIDE DEF u
<1>2. \A i \in DOMAIN s : i \in DOMAIN u /\ u[i] = s[i] BY <1>1
<1>3. ASSUME NEW i \in DOMAIN u, i \notin DOMAIN s PROVE u[i] \in Lines(t)
  <2>1. i - Len(s) \in DOMAIN t /\ u[i] = t[i - Len(s)] BY <1>1, <1>3
  <2> QED BY <2>1 DEF Lines
<1>4. Refusals(n, s) \subseteq Refusals(n, u) BY <1>2 DEF Refusals
<1>5. ASSUME n \notin Lines(t) PROVE Refusals(n, u) \subseteq Refusals(n, s)
  BY <1>2, <1>3, <1>5 DEF Refusals
<1>6. n \notin Lines(t) => Refusals(n, u) = Refusals(n, s) BY <1>4, <1>5
<1> QED BY <1>4, <1>6 DEF u

\* The log window holds all there is, while what is there is told once and fits.
LEMMA RecentIs ==
  ASSUME NEW S, NEW s \in Seq(S), Few(s), Once(s)
  PROVE  Recovering!Recent(s) = Lines(s)
<1>1. Len(s) \in Nat /\ Len(s) <= LogWindow /\ DOMAIN s = 1 .. Len(s)
  BY LinesOf, LenProperties DEF Few
<1>2. Recovering!Max(1, Len(s) - LogWindow + 1) = 1 BY <1>1, RecoverNats DEF Recovering!Max
<1> QED BY <1>1, <1>2 DEF Recovering!Recent, Recovering!LastOf, Lines

\* What is put in some order has every member once.
LEMMA OrderIs ==
  ASSUME NEW S, IsFiniteSet(S), NEW f \in Recovering!InSomeOrder(S)
  PROVE  f \in Seq(S) /\ Once(f) /\ Lines(f) = S
<1>1. PICK k \in Nat : k = Cardinality(S) BY FS_CardinalityType
<1>2. f \in [1 .. k -> S] /\ \A i, j \in DOMAIN f : f[i] = f[j] => i = j
  BY <1>1, RecoverNats DEF Recovering!InSomeOrder
<1>3. f \in Seq(S) BY <1>2, Mapped
<1>4. f \in Injection(1 .. k, S) BY <1>2 DEF Injection, IsInjective
<1>5. Cardinality(1 .. k) = k BY FS_Interval
<1>6. f \in Surjection(1 .. k, S) BY <1>1, <1>4, <1>5, FS_Injection
<1>7. Lines(f) = S BY <1>2, <1>6 DEF Surjection, Lines
<1> QED BY <1>2, <1>3, <1>7 DEF Once

\* Where there are few in the end there were few before.
LEMMA FewBefore ==
  ASSUME NEW S, NEW s \in Seq(S), NEW u \in Seq(S), Lines(s) \subseteq Lines(u), Few(u)
  PROVE  Few(s)
<1>1. Cardinality(Lines(s)) <= Cardinality(Lines(u)) BY LinesOf, FS_Subset
<1> QED BY <1>1, LinesOf, RecoverNats DEF Few

LEMMA RefusalsAre ==
  ASSUME NEW S, NEW s \in Seq(S), NEW n
  PROVE  IsFiniteSet(Refusals(n, s)) /\ Cardinality(Refusals(n, s)) \in Nat
<1>1. Len(s) \in Nat /\ DOMAIN s = 1 .. Len(s) BY LenProperties
<1>2. IsFiniteSet(1 .. Len(s)) BY <1>1, FS_Interval
<1>3. Refusals(n, s) \subseteq 1 .. Len(s) BY <1>1 DEF Refusals
<1> QED BY <1>2, <1>3, FS_Subset, FS_CardinalityType

LEMMA RecoverInit == ASSUME Recovering!Init PROVE RecoverInv
<1>1. PICK i : i = Recovering!Off OBVIOUS
<1>2. i.at = "off" BY <1>1 DEF Recovering!Off
<1>3. /\ lock = "free" /\ cycle = [w \in Handlers |-> i] /\ tried = [n \in Notices |-> 0]
      /\ journal = [signal |-> <<>>, failed |-> <<>>, retried |-> <<>>]
  BY <1>1 DEF Recovering!Init
<1>4. PICK e : e = <<>> OBVIOUS
<1>5. \A S : e \in Seq(S) BY <1>4, EmptySeq
<1>6. DOMAIN e = {} BY <1>4
<1>7. Once(e) BY <1>6 DEF Once
<1>8. \A n : Refusals(n, e) = {} BY <1>6 DEF Refusals
<1>9. journal.signal = e /\ journal.failed = e /\ journal.retried = e /\ journal \in JournalT
  BY <1>3, <1>4, <1>5 DEF JournalT
<1>10. ASSUME NEW n \in Notices PROVE RetryFits(n)
  BY <1>3, <1>8, <1>9, FS_EmptySet DEF RetryFits
<1> QED BY <1>2, <1>3, <1>7, <1>9, <1>10 DEF RecoverInv

\* A worker goes on, and the log is as it was.
LEMMA RecoverTurns ==
  ASSUME RecoverInv, NEW w \in Handlers, NEW c, cycle' = [cycle EXCEPT ![w] = c],
         c.at \in {"off", "remind", "count", "retry"}, lock' \in Handlers \cup {"free"},
         UNCHANGED <<journal, tried>>
  PROVE  RecoverInv'
<1>1. /\ DOMAIN cycle' = Handlers
      /\ \A v \in Handlers : cycle'[v].at \in {"off", "remind", "count", "retry"}
  BY DEF RecoverInv
<1>2. \A n \in Notices : RetryFits(n)' = RetryFits(n) BY DEF RetryFits
<1> QED BY <1>1, <1>2 DEF RecoverInv

LEMMA OnePlus ==
  ASSUME NEW S, IsFiniteSet(S), NEW x
  PROVE  Cardinality(S \cup {x}) <= Cardinality(S) + 1
<1>1. PICK n \in Nat : n = Cardinality(S) BY FS_CardinalityType
<1>2. Cardinality(S \cup {x}) = n \/ Cardinality(S \cup {x}) = n + 1 BY <1>1, FS_AddElement
<1> QED BY <1>1, <1>2

LEMMA RecoverFails ==
  ASSUME RecoverInv, NEW n \in Notices, Recovering!Fails(n)
  PROVE  RecoverInv'
<1>1. PICK s \in Seq(Notices) : s = journal.failed BY DEF RecoverInv, JournalT
<1>2. PICK u : u = Append(s, n) OBVIOUS
<1>3. /\ u \in Seq(Notices) /\ Len(s) \in Nat /\ DOMAIN s = 1 .. Len(s) /\ u[Len(s) + 1] = n
      /\ DOMAIN u = 1 .. Len(s) + 1 /\ \A i \in 1 .. Len(s) : u[i] = s[i]
  BY <1>2, AppendProperties, LenProperties
<1>4. Recovering!Failures(n) = Refusals(n, s) BY <1>1 DEF Recovering!Failures, Refusals
<1>5. /\ tried[n] = 0 /\ Cardinality(Refusals(n, s)) < 2
      /\ journal' = [journal EXCEPT !.failed = u] /\ UNCHANGED <<lock, cycle, tried>>
  BY <1>1, <1>2, <1>4, RecoverNats DEF Recovering!Fails
<1>6. /\ journal' \in JournalT /\ journal'.failed = u /\ journal'.signal = journal.signal
      /\ journal'.retried = journal.retried
  BY <1>3, <1>5 DEF RecoverInv, JournalT
<1>7. /\ Cardinality(Refusals(n, u)) <= 2 /\ Cardinality(Refusals(n, u)) \in Nat
      /\ Cardinality(Refusals(n, u)) >= Cardinality(Refusals(n, s))
  <2>1. PICK k : k = Len(s) + 1 OBVIOUS
  <2>2. Refusals(n, u) = Refusals(n, s) \cup {k} BY <1>3, <2>1 DEF Refusals
  <2>3. IsFiniteSet(Refusals(n, s)) /\ Cardinality(Refusals(n, s)) \in Nat BY RefusalsAre
  <2>4. Cardinality(Refusals(n, u)) <= Cardinality(Refusals(n, s)) + 1
    <3>1. PICK A : A = Refusals(n, s) OBVIOUS
    <3>2. IsFiniteSet(A) /\ Cardinality(A) \in Nat BY <2>3, <3>1
    <3>3. Cardinality(A \cup {k}) <= Cardinality(A) + 1 BY <3>2, OnePlus
    <3> QED BY <2>2, <3>1, <3>3
  <2>5. IsFiniteSet(Refusals(n, u)) /\ Cardinality(Refusals(n, u)) \in Nat BY <1>3, RefusalsAre
  <2>6. Cardinality(Refusals(n, s)) <= Cardinality(Refusals(n, u)) BY <2>2, <2>5, FS_Subset
  <2> QED BY <1>5, <2>3, <2>4, <2>5, <2>6
<1>8. \A m \in Notices : m # n => Refusals(m, u) = Refusals(m, s)
  BY <1>3 DEF Refusals
<1>9. ASSUME NEW m \in Notices, RetryFits(m) PROVE RetryFits(m)'
  <2>1. CASE m = n
    <3>1. Cardinality(Refusals(n, s)) \in Nat /\ tried[m] = 0 BY <1>5, <2>1, RefusalsAre
    <3> QED BY <1>5, <1>6, <1>7, <1>9, <2>1, <3>1 DEF RetryFits
  <2>2. CASE m # n BY <1>1, <1>5, <1>6, <1>8, <1>9, <2>2 DEF RetryFits
  <2> QED BY <2>1, <2>2
<1> QED BY <1>5, <1>6, <1>9 DEF RecoverInv

LEMMA RecoverSignals ==
  ASSUME RecoverInv, NEW w \in Handlers, Recovering!Signal(w)
  PROVE  RecoverInv'
<1>1. PICK waiting \in SUBSET Walks :
        LET new == waiting \ Recovering!Recent(journal.signal)
        IN \E order \in Recovering!InSomeOrder(new) :
             journal' = [journal EXCEPT !.signal = @ \o order]
  BY DEF Recovering!Signal
<1>2. PICK s \in Seq(Walks) : s = journal.signal BY DEF RecoverInv, JournalT
<1>3. PICK new \in SUBSET Walks : new = waiting \ Recovering!Recent(s) OBVIOUS
<1>4. PICK order \in Recovering!InSomeOrder(new) : journal' = [journal EXCEPT !.signal = s \o order]
  BY <1>1, <1>2, <1>3
<1>5. order \in Seq(new) /\ Once(order) /\ Lines(order) = new
  BY RecoverNats, FS_Subset, OrderIs
<1>6. PICK u : u = s \o order OBVIOUS
<1>7. order \in Seq(Walks) BY <1>5
<1>8. /\ u \in Seq(Walks) /\ Lines(u) = Lines(s) \cup new
      /\ Once(s) /\ Lines(s) \cap new = {} => Once(u)
  <2>1. /\ u \in Seq(Walks) /\ Lines(u) = Lines(s) \cup Lines(order)
        /\ Once(s) /\ Lines(s) \cap Lines(order) = {} => Once(u)
    BY <1>5, <1>6, <1>7, ListsJoin
  <2> QED BY <1>5, <2>1
<1>9. ASSUME Few(u) PROVE Once(u)
  <2>1. Few(s) BY <1>8, <1>9, FewBefore
  <2>2. Once(s) BY <1>2, <2>1 DEF RecoverInv
  <2>3. Recovering!Recent(s) = Lines(s) BY <2>1, <2>2, RecentIs
  <2> QED BY <1>3, <1>8, <2>2, <2>3
<1>10. /\ journal' \in JournalT /\ journal'.signal = u /\ journal'.failed = journal.failed
       /\ journal'.retried = journal.retried
  BY <1>4, <1>6, <1>8 DEF RecoverInv, JournalT
<1>11. PICK c : c = [cycle[w] EXCEPT !.at = "retry"] OBVIOUS
<1>12. /\ cycle[w].at = "remind" /\ cycle' = [cycle EXCEPT ![w] = c]
       /\ UNCHANGED <<lock, tried>>
  BY <1>11 DEF Recovering!Signal
<1>13. c.at = "retry" BY <1>11, <1>12
<1>14. /\ DOMAIN cycle' = Handlers
       /\ \A v \in Handlers : cycle'[v].at \in {"off", "remind", "count", "retry"}
  BY <1>12, <1>13 DEF RecoverInv
<1>15. \A n \in Notices : RetryFits(n)' = RetryFits(n) BY <1>10, <1>12 DEF RetryFits
<1> QED BY <1>9, <1>10, <1>12, <1>14, <1>15 DEF RecoverInv

\* What is retried was refused, and lately not retried.
LEMMA RefusedAre ==
  ASSUME RecoverInv, NEW todo, todo = {journal.failed[i] : i \in Recovering!Refused}
  PROVE  /\ IsFiniteSet(todo) /\ todo \subseteq Notices
         /\ todo \cap Recovering!Recent(journal.retried) = {}
         /\ \A n \in Notices : /\ Recovering!Refused \cap Refusals(n, journal.failed)
                                    \subseteq Refusals(n, journal.failed)
                               /\ n \notin todo =>
                                    Recovering!Refused \cap Refusals(n, journal.failed) = {}
<1>1. PICK s \in Seq(Notices) : s = journal.failed BY DEF RecoverInv, JournalT
<1>2. Len(s) \in Nat /\ DOMAIN s = 1 .. Len(s) /\ \A i \in DOMAIN s : s[i] \in Notices
  BY LenProperties, ElementOfSeq
<1>3. PICK R \in SUBSET DOMAIN s : R = Recovering!Refused BY <1>1 DEF Recovering!Refused
<1>4. \A i \in R : s[i] \notin Recovering!Recent(journal.retried)
  BY <1>1, <1>3 DEF Recovering!Refused
<1>5. todo \subseteq Notices /\ todo \cap Recovering!Recent(journal.retried) = {}
  BY <1>1, <1>2, <1>3, <1>4
<1>6. IsFiniteSet(todo)
  <2>1. IsFiniteSet(R)
    <3>1. IsFiniteSet(1 .. Len(s)) BY <1>2, FS_Interval
    <3> QED BY <1>2, <3>1, FS_Subset
  <2>2. PICK f : f = [i \in R |-> s[i]] OBVIOUS
  <2>3. f \in Surjection(R, todo) BY <1>1, <1>3, <2>2 DEF Surjection
  <2> QED BY <2>1, <2>3, FS_Surjection
<1>7. \A n \in Notices : n \notin todo => R \cap Refusals(n, s) = {} BY <1>1, <1>3 DEF Refusals
<1> QED BY <1>1, <1>3, <1>5, <1>6, <1>7

LEMMA RecoverRetries ==
  ASSUME RecoverInv, NEW w \in Handlers, Recovering!Retry(w)
  PROVE  RecoverInv'
<1>1. PICK s \in Seq(Notices) : s = journal.failed BY DEF RecoverInv, JournalT
<1>2. PICK r \in Seq(Notices) : r = journal.retried BY DEF RecoverInv, JournalT
<1>3. PICK R : R = Recovering!Refused OBVIOUS
<1>4. PICK todo : todo = {journal.failed[i] : i \in Recovering!Refused} OBVIOUS
<1>5. PICK done \in Recovering!InSomeOrder(todo), again \in SUBSET todo :
        \E more \in Recovering!InSomeOrder(again) :
          journal' = [journal EXCEPT !.retried = @ \o done, !.failed = @ \o more]
  BY <1>4 DEF Recovering!Retry
<1>6. PICK more \in Recovering!InSomeOrder(again) :
        journal' = [journal EXCEPT !.retried = r \o done, !.failed = s \o more]
  BY <1>1, <1>2, <1>5
<1>7. /\ IsFiniteSet(todo) /\ todo \subseteq Notices /\ todo \cap Recovering!Recent(r) = {}
      /\ \A n \in Notices : n \notin todo => R \cap Refusals(n, s) = {}
  BY <1>1, <1>2, <1>3, <1>4, RefusedAre
<1>8. done \in Seq(todo) /\ Once(done) /\ Lines(done) = todo BY <1>7, OrderIs
<1>9. more \in Seq(again) /\ Lines(more) = again
  <2>1. IsFiniteSet(again) BY <1>7, FS_Subset
  <2> QED BY <2>1, OrderIs
<1>10. done \in Seq(Notices) /\ more \in Seq(Notices) BY <1>7, <1>8, <1>9
<1>11. PICK p : p = r \o done OBVIOUS
<1>12. PICK u : u = s \o more OBVIOUS
<1>13. /\ p \in Seq(Notices) /\ Lines(p) = Lines(r) \cup todo
       /\ Once(r) /\ Lines(r) \cap todo = {} => Once(p)
  BY <1>8, <1>10, <1>11, ListsJoin
<1>14. u \in Seq(Notices) BY <1>10, <1>12, ListsJoin
<1>15. /\ journal' \in JournalT /\ journal'.retried = p /\ journal'.failed = u
       /\ journal'.signal = journal.signal
  <2>1. PICK k \in JournalT : k = [journal EXCEPT !.retried = p]
    <3>1. [journal EXCEPT !.retried = p] \in JournalT BY <1>13 DEF RecoverInv, JournalT
    <3> QED BY <3>1
  <2>2. journal' = [k EXCEPT !.failed = u] BY <1>6, <1>11, <1>12, <2>1
  <2>3. k.retried = p /\ k.signal = journal.signal BY <2>1 DEF RecoverInv, JournalT
  <2> QED BY <1>14, <2>1, <2>2, <2>3 DEF JournalT
<1>16. PICK c : c = Recovering!Off OBVIOUS
<1>17. c.at = "off" BY <1>16 DEF Recovering!Off
<1>18. cycle' = [cycle EXCEPT ![w] = c] /\ lock' = "free" BY <1>16 DEF Recovering!Retry
<1>19. tried' = [n \in Notices |-> tried[n] + Cardinality(R \cap Refusals(n, s))]
  <2>1. tried' = [n \in Notices |->
                    tried[n] + Cardinality(Recovering!Refused \cap Recovering!Failures(n))]
    BY RecoverNats DEF Recovering!Retry
  <2>2. \A n \in Notices : Recovering!Failures(n) = Refusals(n, s)
    BY <1>1 DEF Recovering!Failures, Refusals
  <2> QED BY <1>3, <2>1, <2>2
<1>20. ASSUME NEW n \in Notices
       PROVE  /\ IsFiniteSet(Refusals(n, s)) /\ Cardinality(Refusals(n, s)) \in Nat
              /\ Cardinality(R \cap Refusals(n, s)) \in Nat
              /\ Cardinality(R \cap Refusals(n, s)) <= Cardinality(Refusals(n, s))
              /\ Cardinality(Refusals(n, s)) <= Cardinality(Refusals(n, u))
              /\ Cardinality(Refusals(n, u)) \in Nat
              /\ n \notin todo => Refusals(n, u) = Refusals(n, s)
  <2>1. IsFiniteSet(Refusals(n, s)) /\ Cardinality(Refusals(n, s)) \in Nat BY RefusalsAre
  <2>2. R \cap Refusals(n, s) \subseteq Refusals(n, s) OBVIOUS
  <2>3. /\ IsFiniteSet(R \cap Refusals(n, s))
        /\ Cardinality(R \cap Refusals(n, s)) <= Cardinality(Refusals(n, s))
    BY <2>1, <2>2, FS_Subset
  <2>4. IsFiniteSet(Refusals(n, u)) /\ Cardinality(Refusals(n, u)) \in Nat BY <1>14, RefusalsAre
  <2>5. Refusals(n, s) \subseteq Refusals(n, u) /\ (n \notin todo => Refusals(n, u) = Refusals(n, s))
    BY <1>9, <1>10, <1>12, RefusalsJoin
  <2>6. Cardinality(Refusals(n, s)) <= Cardinality(Refusals(n, u)) BY <2>4, <2>5, FS_Subset
  <2> QED BY <2>1, <2>3, <2>4, <2>5, <2>6, FS_CardinalityType
<1>21. tried' \in [Notices -> Nat]
  <2>1. ASSUME NEW n \in Notices PROVE tried[n] + Cardinality(R \cap Refusals(n, s)) \in Nat
    <3>1. tried[n] \in Nat BY DEF RecoverInv
    <3>2. PICK k \in Nat : k = Cardinality(R \cap Refusals(n, s)) BY <1>20
    <3> QED BY <3>1, <3>2
  <2> QED BY <1>19, <2>1
<1>22. ASSUME Few(p) PROVE Once(p) /\ \A n \in Notices : RetryFits(n)'
  <2>1. Few(r) BY <1>13, <1>22, FewBefore
  <2>2. Once(r) /\ \A n \in Notices : RetryFits(n) BY <1>2, <2>1 DEF RecoverInv
  <2>3. Lines(r) \cap todo = {} BY <1>7, <2>1, <2>2, RecentIs
  <2>4. Once(p) BY <1>13, <2>2, <2>3
  <2>5. ASSUME NEW n \in Notices PROVE RetryFits(n)'
    <3>1. RetryFits(n) /\ tried[n] \in Nat BY <2>2 DEF RecoverInv
    <3>2. tried'[n] = tried[n] + Cardinality(R \cap Refusals(n, s)) BY <1>19
    <3>3. CASE n \in todo
      <4>1. tried[n] = 0 /\ Cardinality(Refusals(n, s)) <= 2
        BY <1>1, <1>2, <2>3, <3>1, <3>3 DEF RetryFits
      <4> QED BY <1>13, <1>15, <1>20, <3>2, <3>3, <4>1 DEF RetryFits
    <3>4. CASE n \notin todo
      <4>1. Cardinality(R \cap Refusals(n, s)) = 0 BY <1>7, <3>4, FS_EmptySet
      <4>2. tried'[n] = tried[n] BY <3>1, <3>2, <4>1
      <4>3. Refusals(n, u) = Refusals(n, s) BY <1>20, <3>4
      <4> QED BY <1>1, <1>2, <1>13, <1>15, <3>1, <3>4, <4>2, <4>3 DEF RetryFits
    <3> QED BY <3>3, <3>4
  <2> QED BY <2>4, <2>5
<1>23. /\ DOMAIN cycle' = Handlers
       /\ \A v \in Handlers : cycle'[v].at \in {"off", "remind", "count", "retry"}
  BY <1>17, <1>18 DEF RecoverInv
<1> QED BY <1>15, <1>18, <1>21, <1>22, <1>23 DEF RecoverInv

LEMMA RecoverNext == ASSUME RecoverInv, [Recovering!Next]_OfScheduler PROVE RecoverInv'
<1>1. CASE UNCHANGED OfScheduler
  <2>1. UNCHANGED <<lock, cycle, journal, tried>> BY <1>1 DEF OfScheduler
  <2>2. \A n \in Notices : RetryFits(n)' = RetryFits(n) BY <2>1 DEF RetryFits
  <2> QED BY <2>1, <2>2 DEF RecoverInv
<1>2. ASSUME NEW w \in Handlers, Recovering!Start(w) PROVE RecoverInv'
  <2>1. PICK c : c = [at |-> "remind", todo |-> {o \in {} : offer[o].open /\ offer[o].age >= 1}]
    OBVIOUS
  <2>2. c.at = "remind" BY <2>1
  <2>3. lock' = w /\ cycle' = [cycle EXCEPT ![w] = c] /\ UNCHANGED <<journal, tried>>
    BY <1>2, <2>1 DEF Recovering!Start
  <2> QED BY <2>2, <2>3, RecoverTurns
<1>3. ASSUME NEW w \in Handlers, Recovering!Remind(w) PROVE RecoverInv'
  <2>1. PICK o \in cycle[w].todo :
          IF Recovering!Due(o)
          THEN cycle' = [cycle EXCEPT ![w] = [at |-> "count", todo |-> @.todo, on |-> o]]
          ELSE cycle' = [cycle EXCEPT ![w].todo = @ \ {o}]
    BY <1>3 DEF Recovering!Remind
  <2>2. cycle[w].at = "remind" /\ UNCHANGED <<lock, journal, tried>> BY <1>3 DEF Recovering!Remind
  <2>3. CASE Recovering!Due(o)
    <3>1. PICK c : c = [at |-> "count", todo |-> cycle[w].todo, on |-> o] OBVIOUS
    <3>2. c.at = "count" /\ cycle' = [cycle EXCEPT ![w] = c] BY <2>1, <2>3, <3>1
    <3> QED BY <2>2, <3>2, RecoverTurns DEF RecoverInv
  <2>4. CASE ~Recovering!Due(o)
    <3>1. PICK c : c = [cycle[w] EXCEPT !.todo = cycle[w].todo \ {o}] OBVIOUS
    <3>2. c.at = "remind" BY <2>2, <3>1
    <3>3. cycle' = [cycle EXCEPT ![w] = c] BY <2>1, <2>4, <3>1
    <3> QED BY <2>2, <3>2, <3>3, RecoverTurns DEF RecoverInv
  <2> QED BY <2>3, <2>4
<1>4. ASSUME NEW w \in Handlers, Recovering!CountIt(w) PROVE RecoverInv'
  <2>1. PICK c : c = [at |-> "remind", todo |-> cycle[w].todo \ {cycle[w].on}] OBVIOUS
  <2>2. c.at = "remind" BY <2>1
  <2>3. cycle' = [cycle EXCEPT ![w] = c] /\ UNCHANGED <<lock, journal, tried>>
    BY <1>4, <2>1 DEF Recovering!CountIt
  <2> QED BY <2>2, <2>3, RecoverTurns DEF RecoverInv
<1>5. ASSUME NEW w \in Handlers, Recovering!Dies(w) PROVE RecoverInv'
  <2>1. PICK c : c = Recovering!Off OBVIOUS
  <2>2. c.at = "off" BY <2>1 DEF Recovering!Off
  <2>3. /\ cycle' = [cycle EXCEPT ![w] = c] /\ lock' = (IF lock = w THEN "free" ELSE lock)
        /\ UNCHANGED <<journal, tried>>
    BY <1>5, <2>1 DEF Recovering!Dies
  <2>4. lock' \in Handlers \cup {"free"} BY <2>3 DEF RecoverInv
  <2> QED BY <2>2, <2>3, <2>4, RecoverTurns
<1> QED
  BY <1>1, <1>2, <1>3, <1>4, <1>5, RecoverFails, RecoverSignals, RecoverRetries
     DEF Recovering!Next

LEMMA RecoverFollows ==
  ASSUME RecoverInv
  PROVE  Recovering!SignalledOnce /\ Recovering!RetriedOnce /\ Recovering!TypeOK
<1>1. PICK s \in Seq(Walks) : s = journal.signal BY DEF RecoverInv, JournalT
<1>2. PICK r \in Seq(Notices) : r = journal.retried BY DEF RecoverInv, JournalT
<1>3. Few(s) => Once(s) BY <1>1 DEF RecoverInv
<1>4. Few(r) => \A n \in Notices : RetryFits(n) BY <1>2 DEF RecoverInv
<1>5. Recovering!SignalledOnce
  <2>1. Cardinality(Lines(s)) \in Nat BY LinesOf
  <2>2. ~Few(s) => Cardinality(Lines(s)) > LogWindow BY <2>1, RecoverNats DEF Few
  <2> QED BY <1>1, <1>3, <2>2, RecoverNats DEF Recovering!SignalledOnce, Once, Lines
<1>6. Recovering!RetriedOnce
  <2>1. SUFFICES ASSUME Few(r), NEW n \in Notices
                 PROVE  tried[n] <= Recovering!Cardinality(Recovering!Failures(n)) /\ tried[n] <= 2
    BY <1>2, RecoverNats DEF Recovering!RetriedOnce, Few, Lines
  <2>2. RetryFits(n) BY <1>4, <2>1
  <2>3. Recovering!Failures(n) = Refusals(n, journal.failed)
    BY DEF Recovering!Failures, Refusals
  <2> QED BY <2>2, <2>3, RecoverNats DEF RetryFits
<1>7. Recovering!TypeOK BY DEF Recovering!TypeOK, RecoverInv
<1> QED BY <1>5, <1>6, <1>7

----------------------------------------------------------------------------
(* The theorems *)

\* A step of one part leaves the others as they are.
LEMMA PartsNext ==
  ASSUME [Next]_vars
  PROVE  /\ [Races!Next]_OfRaces /\ [Config!Next]_OfConfig /\ [Scope!Next]_OfScope
         /\ [Notified!Next]_OfNotified /\ [Chat!Next]_OfChat /\ [Support!Next]_OfSupport
         /\ [Limiter!Next]_OfLimiter /\ [Tracking!Next]_OfTracking
         /\ [Emergency!Next]_OfEmergency /\ [Cost!Next]_OfCost
BY Zenon DEF Next, Rest, vars

\* The scheduler runs its reminders alone or its signals and retries alone.
LEMMA SchedulerNext ==
  ASSUME [Next]_vars
  PROVE  /\ UNCHANGED part
         /\ part = "reminding" => [Reminding!Next]_OfScheduler
         /\ part # "reminding" => [Recovering!Next]_OfScheduler
<1>1. CASE UNCHANGED vars BY <1>1 DEF vars
<1>2. ASSUME Next PROVE UNCHANGED part BY <1>2, Zenon DEF Next, Rest
<1>3. ASSUME Next, part = "reminding" PROVE [Reminding!Next]_OfScheduler
  BY <1>3 DEF Next
<1>4. ASSUME Next, part # "reminding" PROVE [Recovering!Next]_OfScheduler
  <2>1. CASE part = "recovering" BY <1>4, <2>1 DEF Next
  <2>2. CASE part # "recovering"
    <3>1. \E p : p \notin {"reminding", "recovering"} /\ Rest(p)
      BY <1>4, <2>2 DEF Next
    <3> QED BY <3>1 DEF Rest
  <2> QED BY <2>1, <2>2
<1> QED BY <1>1, <1>2, <1>3, <1>4

\* OfferRaces: whom a walk is given to was asked, however requests cross; and unless one wrote
\* over what it had not read, the walk and its offers tell the same, nobody is asked twice and
\* no more are asked than the walk allows.
THEOREM OffersTellTheWalk == Spec => []OffersAgree
<1>1. Init => RacesInv BY RacesInit DEF Init
<1>2. RacesInv /\ [Next]_vars => RacesInv' BY PartsNext, RacesNext
<1>3. RacesInv => OffersAgree BY RacesFollows DEF OffersAgree
<1> QED BY <1>1, <1>2, <1>3, PTL DEF Spec

\* TenantScope: a transaction works under the tenant its request was last given, and a process
\* remembers an answer for one life of its cache.  ConfigCache: no configuration is served
\* that was superseded longer ago than a life in the cache, the read before it and the lag.
THEOREM TenantsAreCurrent == Spec => []TenantIsCurrent
<1>1. Init => ScopeInv /\ ConfigInv BY ScopeInit, ConfigInit DEF Init
<1>2. ScopeInv /\ ConfigInv /\ [Next]_vars => (ScopeInv /\ ConfigInv)'
  BY PartsNext, ScopeNext, ConfigNext
<1>3. ScopeInv /\ ConfigInv => TenantIsCurrent
  BY ScopeFollows, ConfigFollows DEF TenantIsCurrent
<1> QED BY <1>1, <1>2, <1>3, PTL DEF Spec

PeopleInv == /\ InboxInv /\ ChatInv /\ SupportInv /\ TrackingInv /\ EmergencyInv /\ LimiterInv

LEMMA PeopleInit == ASSUME Init PROVE PeopleInv
BY InboxInit, ChatInit, SupportInit, TrackingInit, EmergencyInit, LimiterInit DEF Init, PeopleInv

LEMMA PeopleNext == ASSUME PeopleInv, [Next]_vars PROVE PeopleInv'
BY PartsNext, InboxNext, ChatNext, SupportNext, TrackingNext, EmergencyNext, LimiterNext
   DEF PeopleInv

\* Inbox: a push rings for whom it is addressed to unless the device changed hands, the chat's
\* for what was kept, and who told that they use a device is reached there.  Conversations:
\* what is marked read was seen.  SupportTickets: an answer is told.  LiveTracking: the app
\* misses no position but those that came late, and nobody sees home.  EmergencyCalls: both
\* the tutor and the staff are told of a call.  RateLimiter: guesses are bounded, and who was
\* turned away is let in again.
THEOREM PeopleServed == Spec => []PeopleAreServed
<1>1. Init => PeopleInv BY PeopleInit
<1>2. PeopleInv /\ [Next]_vars => PeopleInv' BY PeopleNext
<1>3. PeopleInv => PeopleAreServed
  BY InboxFollows, ChatFollows, SupportFollows, TrackingFollows, EmergencyFollows, LimiterFollows
     DEF PeopleInv, PeopleAreServed
<1> QED BY <1>1, <1>2, <1>3, PTL DEF Spec

TasksInv == /\ CostInv
            /\ part = "reminding" => RemindInv
            /\ part # "reminding" => RecoverInv

LEMMA TasksInit == ASSUME Init PROVE TasksInv
<1>1. CostInv BY CostInit DEF Init
<1>2. part = "reminding" => RemindInv BY RemindInit DEF Init
<1>3. part # "reminding" => RecoverInv BY RecoverInit DEF Init
<1> QED BY <1>1, <1>2, <1>3 DEF TasksInv

LEMMA TasksNext == ASSUME TasksInv, [Next]_vars PROVE TasksInv'
<1>1. CostInv' BY PartsNext, CostNext DEF TasksInv
<1>2. part = "reminding" => RemindInv' BY SchedulerNext, RemindNext DEF TasksInv
<1>3. part # "reminding" => RecoverInv' BY SchedulerNext, RecoverNext DEF TasksInv
<1> QED BY <1>1, <1>2, <1>3, SchedulerNext DEF TasksInv

\* Scheduler: an offer gets no more reminders than it waited for, but for workers that died;
\* a walk is signalled once and a push retried once, while the log window holds what the hour
\* told.  CostAlerts: what was crossed is told, and once but for sweeps that died.
THEOREM TasksDoneOnce == Spec => []TasksAreDoneOnce
<1>1. Init => TasksInv BY TasksInit
<1>2. TasksInv /\ [Next]_vars => TasksInv' BY TasksNext
<1>3. TasksInv => TasksAreDoneOnce
  BY RemindFollows, RecoverFollows, CostFollows DEF TasksInv, TasksAreDoneOnce
<1> QED BY <1>1, <1>2, <1>3, PTL DEF Spec

\* The state of every component has its type.
THEOREM TypeCorrect == Spec => []TypeOK
<1> DEFINE Inv == RacesInv /\ ConfigInv /\ ScopeInv /\ PeopleInv /\ TasksInv
<1>1. Init => Inv
  BY RacesInit, ConfigInit, ScopeInit, PeopleInit, TasksInit DEF Init
<1>2. Inv /\ [Next]_vars => Inv'
  BY PartsNext, RacesNext, ConfigNext, ScopeNext, PeopleNext, TasksNext
<1>3. Inv => TypeOK
  <2>1. ASSUME Inv
        PROVE  /\ Races!TypeOK /\ Config!TypeOK /\ Scope!TypeOK
               /\ Notified!TypeOK /\ Chat!TypeOK /\ Support!TypeOK /\ Limiter!TypeOK
               /\ Tracking!TypeOK /\ Emergency!TypeOK
    BY <2>1, RacesFollows, InboxFollows, ChatFollows, SupportFollows, LimiterFollows,
       TrackingFollows, EmergencyFollows DEF ConfigInv, ScopeInv, PeopleInv
  <2>2. ASSUME Inv
        PROVE  /\ Cost!TypeOK /\ (part = "reminding" => Reminding!TypeOK)
               /\ part = "recovering" => Recovering!TypeOK
    BY <2>2, CostFollows, RemindFollows, RecoverFollows DEF TasksInv
  <2> QED BY <2>1, <2>2 DEF TypeOK
<1> QED BY <1>1, <1>2, <1>3, PTL DEF Spec
=============================================================================
