---------------------------- MODULE OfficeProofs ----------------------------
(*****************************************************************************)
(* The invariants of Office, for any requests in flight, people, texts,      *)
(* plans and limits: an inductive invariant of each component, and then one  *)
(* theorem for each property of Office.                                      *)
(*****************************************************************************)
EXTENDS Office, FiniteSetTheorems, SequenceTheorems, TLAPS

----------------------------------------------------------------------------
(* Sequences *)

LEMMA SeqFacts ==
  ASSUME NEW S, NEW s \in Seq(S)
  PROVE  /\ Len(s) \in Nat /\ DOMAIN s = 1 .. Len(s)
         /\ \A i \in DOMAIN s : s[i] \in S
OBVIOUS

LEMMA AppendFacts ==
  ASSUME NEW S, NEW s \in Seq(S), NEW x \in S
  PROVE  /\ Append(s, x) \in Seq(S) /\ Len(Append(s, x)) = Len(s) + 1
         /\ DOMAIN Append(s, x) = 1 .. Len(s) + 1
         /\ \A i \in DOMAIN s : Append(s, x)[i] = s[i]
         /\ Append(s, x)[Len(s) + 1] = x
BY AppendProperties, SeqFacts

LEMMA FunctionIsSeq ==
  ASSUME NEW S, NEW k \in Nat, NEW f \in [1 .. k -> S]
  PROVE  f \in Seq(S) /\ Len(f) = k /\ DOMAIN f = 1 .. k
<1>1. f \in Seq(S) BY SeqDef
<1> QED BY <1>1, LenProperties

----------------------------------------------------------------------------
(* Background checks *)

\* What a clerk that nobody overtook has read is what there is.
ReadIsNow(h) == clerk[h].op = "cert" /\ ~clerk[h].stale =>
                  clerk[h].read = cert /\ clerk[h].was = seal.st

BackgroundInv ==
  /\ Background!TypeOK /\ Background!SealIsCurrent
  /\ clerk \in [Handlers -> {Background!Vacant} \cup
       [op : {"cert"}, type : Required, to : {"pending", "validated", "rejected", "expired"},
        read : [Required -> {"missing", "pending", "validated", "rejected", "expired"}],
        was : {"none", "submitted", "partial", "verified", "flagged"}, stale : BOOLEAN]]
  /\ \A h \in Handlers : ReadIsNow(h)

LEMMA AggregateType ==
  ASSUME NEW c
  PROVE  Background!Aggregate(c) \in {"none", "submitted", "partial", "verified", "flagged"}
BY DEF Background!Aggregate

LEMMA BackgroundInit == ASSUME Background!Init PROVE BackgroundInv
<1> USE DEF Background!Init
<1>1. Background!Aggregate(cert) = "none"
  BY DEF Background!Aggregate
<1> QED BY <1>1 DEF BackgroundInv, Background!TypeOK, Background!SealIsCurrent, ReadIsNow,
               Background!Vacant

LEMMA BackgroundBegins ==
  ASSUME BackgroundInv, NEW h \in Handlers, NEW t \in Required,
         NEW st \in {"pending", "validated", "rejected", "expired"}, Background!Begin(h, t, st)
  PROVE  BackgroundInv'
<1> USE DEF BackgroundInv, Background!Begin
<1>1. Background!TypeOK' /\ Background!SealIsCurrent'
  BY DEF Background!TypeOK, Background!SealIsCurrent, Background!Aggregate
<1>2. [op |-> "cert", type |-> t, to |-> st, read |-> cert, was |-> seal.st, stale |-> FALSE]
        \in [op : {"cert"}, type : Required, to : {"pending", "validated", "rejected", "expired"},
             read : [Required -> {"missing", "pending", "validated", "rejected", "expired"}],
             was : {"none", "submitted", "partial", "verified", "flagged"}, stale : BOOLEAN]
  BY DEF Background!TypeOK
<1>3. \A g \in Handlers : ReadIsNow(g)' BY DEF ReadIsNow
<1> QED BY <1>1, <1>2, <1>3

\* The requests that are left are marked as overtaken.
LEMMA OvertakenClerks ==
  ASSUME BackgroundInv, NEW H,
         clerk' = [g \in Handlers |-> IF g \in H \/ clerk[g] = Background!Vacant THEN Background!Vacant
                                      ELSE [clerk[g] EXCEPT !.stale = TRUE]]
  PROVE  /\ (\A h \in Handlers : ReadIsNow(h))'
         /\ clerk' \in [Handlers -> {Background!Vacant} \cup
              [op : {"cert"}, type : Required, to : {"pending", "validated", "rejected", "expired"},
               read : [Required -> {"missing", "pending", "validated", "rejected", "expired"}],
               was : {"none", "submitted", "partial", "verified", "flagged"}, stale : BOOLEAN]]
<1>1. \A g \in Handlers : clerk[g] # Background!Vacant => [clerk[g] EXCEPT !.stale = TRUE] \in
        [op : {"cert"}, type : Required, to : {"pending", "validated", "rejected", "expired"},
         read : [Required -> {"missing", "pending", "validated", "rejected", "expired"}],
         was : {"none", "submitted", "partial", "verified", "flagged"}, stale : BOOLEAN]
  BY DEF BackgroundInv
<1>2. \A g \in Handlers : clerk'[g].op = "cert" => clerk'[g].stale = TRUE
  BY DEF BackgroundInv, Background!Vacant
<1> QED BY <1>1, <1>2 DEF ReadIsNow

LEMMA BackgroundCommits ==
  ASSUME BackgroundInv, NEW h \in Handlers, Background!Commit(h)
  PROVE  BackgroundInv'
<1>1. clerk' = [g \in Handlers |-> IF g \in {h} \/ clerk[g] = Background!Vacant THEN Background!Vacant
                                   ELSE [clerk[g] EXCEPT !.stale = TRUE]]
  BY DEF Background!Commit, Background!Overtake
<1> DEFINE new == Background!Aggregate(Background!Seen(clerk[h]))
<1>2. /\ cert' = [cert EXCEPT ![clerk[h].type] = clerk[h].to]
      /\ seal' = [st |-> IF new = clerk[h].was THEN seal.st ELSE new,
                  split |-> seal.split \/ clerk[h].stale]
  BY DEF Background!Commit
<1>3. /\ clerk[h].op = "cert" /\ clerk[h].type \in Required /\ clerk[h].stale \in BOOLEAN
      /\ clerk[h].to \in {"pending", "validated", "rejected", "expired"}
  BY DEF Background!Commit, BackgroundInv, Background!Vacant
<1>4. Background!TypeOK'
  <2>1. new \in {"none", "submitted", "partial", "verified", "flagged"} BY AggregateType
  <2> HIDE DEF new
  <2> QED BY <1>2, <1>3, <2>1 DEF BackgroundInv, Background!TypeOK
<1>5. Background!SealIsCurrent'
  <2> SUFFICES ASSUME ~seal'.split PROVE seal'.st = Background!Aggregate(cert')
    BY DEF Background!SealIsCurrent, Background!Aggregate
  <2>1. ~clerk[h].stale /\ ~seal.split BY <1>2
  <2>2. clerk[h].read = cert /\ clerk[h].was = seal.st
    BY <1>3, <2>1 DEF BackgroundInv, ReadIsNow
  <2>3. Background!Seen(clerk[h]) = cert' BY <1>2, <2>2 DEF Background!Seen
  <2>4. new = Background!Aggregate(cert') BY <2>3
  <2> HIDE DEF new
  <2> QED BY <1>2, <2>2, <2>4
<1> QED BY <1>1, <1>4, <1>5, OvertakenClerks DEF BackgroundInv

LEMMA BackgroundExpires ==
  ASSUME BackgroundInv, NEW old \in SUBSET Required, Background!Expire(old)
  PROVE  BackgroundInv'
<1>0. PICK H : H = {} OBVIOUS
<1>1. clerk' = [g \in Handlers |-> IF g \in H \/ clerk[g] = Background!Vacant THEN Background!Vacant
                                   ELSE [clerk[g] EXCEPT !.stale = TRUE]]
  BY <1>0 DEF Background!Expire
<1>2. /\ cert' = [t \in Required |-> IF t \in old THEN "expired" ELSE cert[t]]
      /\ seal' = [seal EXCEPT !.st = Background!Aggregate(cert')]
  BY DEF Background!Expire
<1>3. Background!Aggregate(cert') \in {"none", "submitted", "partial", "verified", "flagged"}
  BY AggregateType
<1>4. Background!TypeOK' BY <1>2, <1>3 DEF BackgroundInv, Background!TypeOK
<1>5. seal'.st = Background!Aggregate(cert') BY <1>2 DEF BackgroundInv, Background!TypeOK
<1>6. Background!SealIsCurrent' BY <1>5 DEF Background!SealIsCurrent, Background!Aggregate
<1>7. /\ (\A h \in Handlers : ReadIsNow(h))'
      /\ clerk' \in [Handlers -> {Background!Vacant} \cup
           [op : {"cert"}, type : Required, to : {"pending", "validated", "rejected", "expired"},
            read : [Required -> {"missing", "pending", "validated", "rejected", "expired"}],
            was : {"none", "submitted", "partial", "verified", "flagged"}, stale : BOOLEAN]]
  BY <1>1, OvertakenClerks
<1> QED BY <1>4, <1>6, <1>7 DEF BackgroundInv

LEMMA BackgroundNext ==
  ASSUME BackgroundInv, [Background!Next]_OfBackground
  PROVE  BackgroundInv'
<1>1. CASE UNCHANGED OfBackground
  BY <1>1 DEF OfBackground, BackgroundInv, Background!TypeOK, Background!SealIsCurrent,
              Background!Aggregate, ReadIsNow
<1>2. CASE Background!Look
  <2>1. Background!Aggregate(cert) \in {"none", "submitted", "partial", "verified", "flagged"}
    BY AggregateType
  <2>2. /\ seal' = [st |-> Background!Aggregate(cert), split |-> FALSE] /\ UNCHANGED <<cert, clerk>>
        /\ \A h \in Handlers : clerk[h] = Background!Vacant
    BY <1>2 DEF Background!Look
  <2>3. Background!SealIsCurrent' BY <2>2 DEF Background!SealIsCurrent, Background!Aggregate
  <2>4. Background!TypeOK' BY <2>1, <2>2 DEF BackgroundInv, Background!TypeOK
  <2>5. \A h \in Handlers : ReadIsNow(h)' BY <2>2 DEF ReadIsNow, Background!Vacant
  <2> QED BY <2>2, <2>3, <2>4, <2>5 DEF BackgroundInv
<1>3. CASE Background!Next /\ ~Background!Look
  BY <1>3, BackgroundBegins, BackgroundCommits, BackgroundExpires DEF Background!Next
<1> QED BY <1>1, <1>2, <1>3

----------------------------------------------------------------------------
(* Applications *)

Loaded == [op : {"staff", "walker"}, to : Given \cup {"submitted", "under_review"},
           works : BOOLEAN, st : Given \cup {"submitted", "under_review"}, active : BOOLEAN,
           stale : BOOLEAN]

\* A request that nobody overtook has loaded what there is, and lets the walker work on an
\* active application only; a walker's own gives neither the flag nor the status.
LoadedFits(h) ==
  desk[h] # Application!Clear =>
    /\ desk[h] \in Loaded
    /\ ~desk[h].stale => desk[h].st = profile.st /\ desk[h].active = profile.active
    /\ ~desk[h].stale /\ desk[h].works /\ ~profile.crossed => desk[h].to = "active"
    /\ desk[h].op = "walker" => /\ desk[h].works => desk[h].active
                                /\ desk[h].to = "active" => desk[h].st = "active"

ApplicationInv ==
  /\ Application!TypeOK /\ Application!OnlyActiveWorks
  /\ DOMAIN desk = Handlers /\ \A h \in Handlers : LoadedFits(h)

LEMMA ApplicationInit == ASSUME Application!Init PROVE ApplicationInv
BY DEF Application!Init, ApplicationInv, Application!TypeOK, Application!OnlyActiveWorks,
       LoadedFits, Application!Clear

LEMMA ApplicationLoads ==
  ASSUME ApplicationInv, NEW h \in Handlers, NEW who \in {"staff", "walker"},
         NEW st \in Given \cup {"submitted", "under_review"}, NEW works \in BOOLEAN,
         works /\ ~profile.crossed => st = "active",
         who = "walker" => /\ works => profile.active
                           /\ st = "active" => profile.st = "active",
         Application!Loads(h, who, st, works)
  PROVE  ApplicationInv' /\ desk'[h] # Application!Clear
<1> DEFINE d == [op |-> who, to |-> st, works |-> works, st |-> profile.st,
                 active |-> profile.active, stale |-> FALSE]
<1>1. desk' = [desk EXCEPT ![h] = d] /\ UNCHANGED <<profile, verified>>
  BY DEF Application!Loads
<1>2. d \in Loaded BY DEF Loaded, ApplicationInv, Application!TypeOK
<1>3. /\ d.op = who /\ d.to = st /\ d.works = works /\ d.st = profile.st
      /\ d.active = profile.active /\ d.stale = FALSE
  OBVIOUS
<1> HIDE DEF d
<1>4. desk'[h] = d /\ \A g \in Handlers \ {h} : desk'[g] = desk[g] BY <1>1 DEF ApplicationInv
<1>5. d # Application!Clear BY <1>2, <1>3 DEF Loaded, Application!Clear
<1>6. \A g \in Handlers : LoadedFits(g)'
  <2> SUFFICES ASSUME NEW g \in Handlers PROVE LoadedFits(g)' OBVIOUS
  <2>1. CASE g = h BY <1>1, <1>2, <1>3, <1>4, <2>1, Zenon DEF LoadedFits
  <2>2. CASE g # h BY <1>1, <1>4, <2>2 DEF LoadedFits, ApplicationInv
  <2> QED BY <2>1, <2>2
<1>7. Application!TypeOK'
  BY <1>1, <1>3, <1>4 DEF ApplicationInv, Application!TypeOK
<1> QED BY <1>1, <1>4, <1>5, <1>6, <1>7 DEF ApplicationInv, Application!OnlyActiveWorks

LEMMA ApplicationBegins ==
  ASSUME ApplicationInv, NEW h \in Handlers,
         \/ Application!BeginReapply(h) \/ Application!BeginResubmit(h)
         \/ \E st \in Given, by \in {"status", "fields", "approve"}, gate, override \in BOOLEAN :
              Application!BeginDecide(h, st, by, gate, override)
  PROVE  ApplicationInv' /\ desk'[h] # Application!Clear /\ UNCHANGED profile
<1>0. profile.st \in Given \cup {"submitted", "under_review"} /\ profile.active \in BOOLEAN
  BY DEF ApplicationInv, Application!TypeOK
<1>1. ASSUME NEW who \in {"staff", "walker"}, NEW st, NEW works, Application!Loads(h, who, st, works)
      PROVE UNCHANGED profile
  BY <1>1 DEF Application!Loads
<1>2. CASE Application!BeginResubmit(h)
  <2>1. Application!Loads(h, "walker", "under_review", profile.active)
    BY <1>2 DEF Application!BeginResubmit
  <2>2. profile.active /\ ~profile.crossed => FALSE
    BY <1>2 DEF Application!BeginResubmit, ApplicationInv, Application!OnlyActiveWorks
  <2> QED BY <1>0, <1>1, <2>1, <2>2, ApplicationLoads
<1>3. CASE Application!BeginReapply(h)
  <2>1. CASE profile.st \in {"approved", "active"}
    <3>1. Application!Loads(h, "walker", profile.st, profile.active)
      BY <1>3, <2>1 DEF Application!BeginReapply
    <3>2. profile.active /\ ~profile.crossed => profile.st = "active"
      BY DEF ApplicationInv, Application!OnlyActiveWorks
    <3> QED BY <1>0, <1>1, <3>1, <3>2, ApplicationLoads
  <2>2. CASE profile.st \notin {"approved", "active"}
    <3>1. Application!Loads(h, "walker", "submitted", FALSE)
      BY <1>3, <2>2 DEF Application!BeginReapply
    <3> QED BY <1>1, <3>1, ApplicationLoads
  <2> QED BY <2>1, <2>2
<1>4. ASSUME NEW st \in Given, NEW by, NEW gate, NEW override,
             Application!BeginDecide(h, st, by, gate, override)
      PROVE  ApplicationInv' /\ desk'[h] # Application!Clear /\ UNCHANGED profile
  <2>1. PICK works \in BOOLEAN : works <=> st = "active" OBVIOUS
  <2>2. Application!Loads(h, "staff", st, works)
    <3>1. works = Application!FlagFor(st) BY <2>1 DEF Application!FlagFor
    <3> QED BY <1>4, <3>1 DEF Application!BeginDecide
  <2> QED BY <1>1, <2>1, <2>2, ApplicationLoads
<1> QED BY <1>2, <1>3, <1>4

\* What a commit leaves of the profile, and of the requests in flight.
LEMMA CommitFacts ==
  ASSUME ApplicationInv, NEW h \in Handlers, Application!Commit(h)
  PROVE  /\ desk[h] # Application!Clear /\ desk[h] \in Loaded
         /\ profile'.st = (IF desk[h].to = desk[h].st THEN profile.st ELSE desk[h].to)
         /\ profile'.active = (IF desk[h].works = desk[h].active THEN profile.active ELSE desk[h].works)
         /\ profile'.crossed = (profile.crossed \/ desk[h].stale)
         /\ profile' \in [st : Given \cup {"submitted", "under_review"}, active : BOOLEAN,
                          crossed : BOOLEAN]
         /\ verified' = verified /\ DOMAIN desk' = Handlers
         /\ desk'[h] = Application!Clear
         /\ \A g \in Handlers \ {h} :
              IF desk[g] = Application!Clear THEN desk'[g] = Application!Clear
              ELSE /\ desk'[g] \in Loaded /\ desk'[g] = [desk[g] EXCEPT !.stale = TRUE]
                   /\ desk'[g] # Application!Clear
<1>1. desk[h] # Application!Clear /\ desk[h] \in Loaded
  BY DEF Application!Commit, ApplicationInv, LoadedFits
<1>2. /\ profile' = [st |-> Application!Changed(desk[h].to, desk[h].st, profile.st),
                     active |-> Application!Changed(desk[h].works, desk[h].active, profile.active),
                     crossed |-> profile.crossed \/ desk[h].stale]
      /\ desk' = [g \in Handlers |-> IF g = h \/ desk[g] = Application!Clear THEN Application!Clear
                                     ELSE [desk[g] EXCEPT !.stale = TRUE]]
      /\ UNCHANGED verified
  BY DEF Application!Commit
<1>3. /\ profile'.st = (IF desk[h].to = desk[h].st THEN profile.st ELSE desk[h].to)
      /\ profile'.active = (IF desk[h].works = desk[h].active THEN profile.active ELSE desk[h].works)
      /\ profile'.crossed = (profile.crossed \/ desk[h].stale)
  BY <1>2, Zenon DEF Application!Changed
<1>4. profile' \in [st : Given \cup {"submitted", "under_review"}, active : BOOLEAN,
                    crossed : BOOLEAN]
  <2>1. profile \in [st : Given \cup {"submitted", "under_review"}, active : BOOLEAN,
                     crossed : BOOLEAN]
    BY DEF ApplicationInv, Application!TypeOK
  <2>2. profile'.st \in Given \cup {"submitted", "under_review"} BY <1>1, <1>3, <2>1 DEF Loaded
  <2>3. profile'.active \in BOOLEAN
    <3>1. profile.active \in BOOLEAN /\ desk[h].works \in BOOLEAN BY <1>1, <2>1 DEF Loaded
    <3> QED BY <1>3, <3>1
  <2>4. profile'.crossed \in BOOLEAN BY <1>3
  <2>5. PICK a, b, c : profile' = [st |-> a, active |-> b, crossed |-> c] BY <1>2, Zenon
  <2>6. profile'.st = a /\ profile'.active = b /\ profile'.crossed = c BY <2>5
  <2> QED BY <2>2, <2>3, <2>4, <2>5, <2>6
<1>5. ASSUME NEW g \in Handlers \ {h}, desk[g] # Application!Clear
      PROVE  /\ desk'[g] \in Loaded /\ desk'[g] = [desk[g] EXCEPT !.stale = TRUE]
             /\ desk'[g] # Application!Clear
  <2>1. desk[g] \in Loaded BY <1>5 DEF ApplicationInv, LoadedFits
  <2>2. desk'[g] = [desk[g] EXCEPT !.stale = TRUE] BY <1>2, <1>5
  <2>3. desk'[g] \in Loaded BY <2>1, <2>2 DEF Loaded
  <2> QED BY <2>2, <2>3 DEF Loaded, Application!Clear
<1> QED BY <1>1, <1>2, <1>3, <1>4, <1>5

LEMMA ApplicationCommits ==
  ASSUME ApplicationInv, NEW h \in Handlers, Application!Commit(h)
  PROVE  ApplicationInv'
<1>1. Application!TypeOK'
  <2>1. ASSUME NEW g \in Handlers PROVE desk'[g].op \in {"idle", "staff", "walker"}
    <3>1. desk'[g] = Application!Clear \/ desk'[g] \in Loaded BY CommitFacts
    <3> QED BY <3>1 DEF Loaded, Application!Clear
  <2> QED BY <2>1, CommitFacts DEF ApplicationInv, Application!TypeOK
<1>2. Application!OnlyActiveWorks'
  <2> SUFFICES ASSUME profile'.active, ~profile'.crossed PROVE profile'.st = "active"
    BY DEF Application!OnlyActiveWorks
  <2>1. ~profile.crossed /\ ~desk[h].stale BY CommitFacts
  <2>2. /\ desk[h].st = profile.st /\ desk[h].active = profile.active
        /\ desk[h].works => desk[h].to = "active"
    BY <2>1, CommitFacts DEF ApplicationInv, LoadedFits
  <2>3. desk[h].works
    <3>1. desk[h].works \in BOOLEAN /\ desk[h].active \in BOOLEAN BY CommitFacts DEF Loaded
    <3> QED BY <2>2, <3>1, CommitFacts
  <2> QED BY <2>2, <2>3, CommitFacts
<1>3. ASSUME NEW g \in Handlers PROVE LoadedFits(g)'
  <2>1. CASE g = h \/ desk[g] = Application!Clear BY <2>1, CommitFacts DEF LoadedFits
  <2>2. CASE g # h /\ desk[g] # Application!Clear
    <3>1. /\ desk[g] \in Loaded
          /\ desk[g].op = "walker" => /\ desk[g].works => desk[g].active
                                      /\ desk[g].to = "active" => desk[g].st = "active"
      BY <2>2 DEF ApplicationInv, LoadedFits
    <3>2. desk'[g] \in Loaded /\ desk'[g] = [desk[g] EXCEPT !.stale = TRUE] BY <2>2, CommitFacts
    <3>3. /\ desk'[g].stale = TRUE /\ desk'[g].op = desk[g].op /\ desk'[g].to = desk[g].to
          /\ desk'[g].works = desk[g].works /\ desk'[g].active = desk[g].active
          /\ desk'[g].st = desk[g].st
      BY <3>1, <3>2 DEF Loaded
    <3> QED BY <3>1, <3>2, <3>3, Zenon DEF LoadedFits
  <2> QED BY <2>1, <2>2
<1> QED BY <1>1, <1>2, <1>3, CommitFacts DEF ApplicationInv

LEMMA ApplicationNext ==
  ASSUME ApplicationInv, [Application!Next]_OfApplication
  PROVE  ApplicationInv'
<1>1. CASE UNCHANGED OfApplication
  BY <1>1 DEF OfApplication, ApplicationInv, Application!TypeOK, Application!OnlyActiveWorks, LoadedFits
<1>2. CASE Application!Verify
  BY <1>2 DEF Application!Verify, ApplicationInv, Application!TypeOK, Application!OnlyActiveWorks, LoadedFits
<1>3. CASE Application!Next /\ ~Application!Verify
  BY <1>3, ApplicationBegins, ApplicationCommits DEF Application!Next
<1> QED BY <1>1, <1>2, <1>3

\* A step that ends a walker's request gives it nothing.
LEMMA WalkerGivesNothing ==
  ASSUME ApplicationInv, [Application!Next]_OfApplication, NEW h \in Handlers,
         desk[h].op = "walker", desk'[h] = Application!Clear
  PROVE  /\ profile'.active => profile.active
         /\ profile'.st = "active" => profile.st = "active"
<1>1. CASE UNCHANGED profile BY <1>1
<1>2. CASE \E g \in Handlers : Application!Commit(g)
  <2>1. PICK g \in Handlers : Application!Commit(g) BY <1>2
  <2>2. desk[h] # Application!Clear BY DEF Application!Clear
  <2>3. g = h BY <2>1, <2>2, CommitFacts
  <2>4. /\ desk[h] \in Loaded
        /\ desk[h].works => desk[h].active
        /\ desk[h].to = "active" => desk[h].st = "active"
    BY <2>2 DEF ApplicationInv, LoadedFits
  <2>5. desk[h].works \in BOOLEAN /\ desk[h].active \in BOOLEAN BY <2>4 DEF Loaded
  <2>6. /\ profile'.st = (IF desk[h].to = desk[h].st THEN profile.st ELSE desk[h].to)
        /\ profile'.active = (IF desk[h].works = desk[h].active THEN profile.active ELSE desk[h].works)
    BY <2>1, <2>3, CommitFacts
  <2>7. profile'.active => profile.active BY <2>4, <2>5, <2>6
  <2> QED BY <2>4, <2>6, <2>7
<1> QED BY <1>1, <1>2, ApplicationBegins DEF Application!Next, Application!Verify, OfApplication

----------------------------------------------------------------------------
(* The network *)

Links == [st : Network!LinkStatus, excl : BOOLEAN, met : BOOLEAN, cleared : BOOLEAN]

\* Requirements count as met only where staff said so or there were none.
NetworkInv ==
  /\ Network!TypeOK /\ DOMAIN network = {"exists", "to", "served"}
  /\ answer \in [Solo -> Tenants \cup {Network!Nobody}]
  /\ \A t \in Tenants : link[t].met => link[t].cleared

\* A step changes one link, by a row that is well typed and meets what it says.
LEMMA LinkChanges ==
  ASSUME NetworkInv, NEW t, NEW l \in Links, l.met => l.cleared, link' = [link EXCEPT ![t] = l]
  PROVE  /\ link' \in [Tenants -> Links]
         /\ \A s \in Tenants : link'[s].met => link'[s].cleared
<1>1. link \in [Tenants -> Links] BY DEF NetworkInv, Network!TypeOK, Links
<1>2. \A s \in Tenants : link'[s] = IF s = t THEN l ELSE link[s] BY <1>1
<1> QED BY <1>1, <1>2 DEF NetworkInv

\* The profile and the requirements after it.
LEMMA NetworkHolds ==
  ASSUME NetworkInv,
         link' \in [Tenants -> Links], \A s \in Tenants : link'[s].met => link'[s].cleared,
         DOMAIN network' = {"exists", "to", "served"}, network'.to \in Tenants \cup {Network!Nobody},
         demands' \subseteq Tenants, answer' \in [Solo -> Tenants \cup {Network!Nobody}]
  PROVE  NetworkInv'
BY DEF NetworkInv, Network!TypeOK, Links

LEMMA NetworkInit == ASSUME Network!Init PROVE NetworkInv
BY DEF Network!Init, NetworkInv, Network!TypeOK, Network!LinkStatus, Network!Nobody

LEMMA NetworkLinks ==
  ASSUME NetworkInv, NEW t \in Tenants, NEW st \in Network!LinkStatus, NEW excl \in BOOLEAN,
         \/ Network!LinkTo(t, st, excl) \/ Network!Update(t, st) \/ Network!Retype(t, st, excl)
  PROVE  NetworkInv'
<1>1. link[t] \in Links /\ (link[t].met => link[t].cleared)
  BY DEF NetworkInv, Network!TypeOK, Links
<1>2. [link[t] EXCEPT !.st = st] \in Links /\ [link[t] EXCEPT !.st = st, !.excl = excl] \in Links
  BY <1>1 DEF Links
<1>3. /\ [link[t] EXCEPT !.st = st].met = link[t].met
      /\ [link[t] EXCEPT !.st = st].cleared = link[t].cleared
      /\ [link[t] EXCEPT !.st = st, !.excl = excl].met = link[t].met
      /\ [link[t] EXCEPT !.st = st, !.excl = excl].cleared = link[t].cleared
  BY <1>1 DEF Links
<1>4. PICK l \in Links : link' = [link EXCEPT ![t] = l] /\ (l.met => l.cleared)
  <2>1. CASE Network!LinkTo(t, st, excl)
    <3>1. CASE link[t].st = "none"
      <4>1. PICK b \in BOOLEAN : b = (t \notin demands) OBVIOUS
      <4>2. PICK l : l = [st |-> st, excl |-> excl, met |-> b, cleared |-> b] OBVIOUS
      <4>3. link' = [link EXCEPT ![t] = l]
        BY <2>1, <3>1, <4>1, <4>2 DEF Network!LinkTo, Network!MetAt
      <4>4. l \in Links /\ (l.met => l.cleared) BY <4>2 DEF Links
      <4> QED BY <4>3, <4>4
    <3>2. CASE link[t].st # "none"
      <4>1. link' = [link EXCEPT ![t] = [link[t] EXCEPT !.st = st, !.excl = excl]]
        BY <2>1, <3>2 DEF Network!LinkTo
      <4> QED BY <1>1, <1>2, <1>3, <4>1
    <3> QED BY <3>1, <3>2
  <2>2. CASE Network!Update(t, st)
    <3>1. link' = [link EXCEPT ![t] = [link[t] EXCEPT !.st = st]] BY <2>2 DEF Network!Update
    <3> QED BY <1>1, <1>2, <1>3, <3>1
  <2>3. CASE Network!Retype(t, st, excl)
    <3>1. link' = [link EXCEPT ![t] = [link[t] EXCEPT !.st = st, !.excl = excl]]
      BY <2>3, <1>1 DEF Network!Retype, NetworkInv, Network!TypeOK, Links
    <3> QED BY <1>1, <1>2, <1>3, <3>1
  <2> QED BY <2>1, <2>2, <2>3
<1>5. /\ DOMAIN network' = {"exists", "to", "served"}
      /\ network'.to \in Tenants \cup {Network!Nobody}
      /\ UNCHANGED <<demands, answer>>
  <2>1. CASE Network!LinkTo(t, st, excl)
    BY <2>1 DEF Network!LinkTo, NetworkInv, Network!TypeOK
  <2>2. CASE Network!Update(t, st) BY <2>2 DEF Network!Update, NetworkInv, Network!TypeOK
  <2>3. CASE Network!Retype(t, st, excl)
    <3>1. network' = [exists |-> TRUE, served |-> Network!CountSeen,
                      to |-> IF excl THEN t ELSE IF network.to = t THEN Network!Nobody ELSE network.to]
      BY <2>3 DEF Network!Retype
    <3> QED BY <2>3, <3>1 DEF Network!Retype, NetworkInv, Network!TypeOK
  <2> QED BY <2>1, <2>2, <2>3
<1> QED BY <1>4, <1>5, LinkChanges, NetworkHolds DEF NetworkInv, Network!TypeOK

LEMMA NetworkAnswers ==
  ASSUME NetworkInv,
         \/ \E t \in Tenants : Network!Decline(t) \/ \E on \in BOOLEAN : Network!Clears(t, on)
         \/ \E h \in Solo : Network!Accept(h)
         \/ Network!ApproveHome
  PROVE  NetworkInv'
<1>0. \A t \in Tenants : link[t] \in Links /\ (link[t].met => link[t].cleared)
  BY DEF NetworkInv, Network!TypeOK, Links
<1>1. \E t : \E l \in Links : link' = [link EXCEPT ![t] = l] /\ (l.met => l.cleared)
  <2>1. ASSUME NEW t \in Tenants, NEW on \in BOOLEAN, Network!Decline(t) \/ Network!Clears(t, on)
        PROVE \E l \in Links : link' = [link EXCEPT ![t] = l] /\ (l.met => l.cleared)
    <3>1. CASE Network!Decline(t)
      <4>1. link' = [link EXCEPT ![t] = [link[t] EXCEPT !.st = "declined"]]
        BY <3>1 DEF Network!Decline
      <4>2. PICK l : l = [link[t] EXCEPT !.st = "declined"] OBVIOUS
      <4>3. l \in Links /\ (l.met => l.cleared)
        BY <1>0, <4>2 DEF Links, Network!LinkStatus
      <4> QED BY <4>1, <4>2, <4>3
    <3>2. CASE Network!Clears(t, on)
      <4>1. PICK l : l = [link[t] EXCEPT !.met = on, !.cleared = on] OBVIOUS
      <4>2. link' = [link EXCEPT ![t] = l]
        BY <3>2, <1>0, <4>1 DEF Network!Clears, NetworkInv, Network!TypeOK, Links
      <4>3. l \in Links /\ (l.met => l.cleared) BY <1>0, <4>1 DEF Links
      <4> QED BY <4>2, <4>3
    <3> QED BY <2>1, <3>1, <3>2
  <2>2. ASSUME NEW h \in Solo, Network!Accept(h)
        PROVE \E t : \E l \in Links : link' = [link EXCEPT ![t] = l] /\ (l.met => l.cleared)
    <3>1. PICK t : t = answer[h] OBVIOUS
    <3>2. t \in Tenants BY <2>2, <3>1 DEF Network!Accept, NetworkInv
    <3>3. PICK b \in BOOLEAN : b = (t \notin demands) OBVIOUS
    <3>4. PICK l : l = [link[t] EXCEPT !.st = "active", !.met = b, !.cleared = b] OBVIOUS
    <3>5. link' = [link EXCEPT ![t] = l]
      BY <2>2, <3>1, <3>2, <3>3, <3>4, <1>0
         DEF Network!Accept, Network!MetAt, NetworkInv, Network!TypeOK, Links
    <3>6. l \in Links /\ (l.met => l.cleared)
      BY <1>0, <3>2, <3>4 DEF Links, Network!LinkStatus
    <3> QED BY <3>5, <3>6
  <2>3. ASSUME Network!ApproveHome
        PROVE \E l \in Links : link' = [link EXCEPT ![Home] = l] /\ (l.met => l.cleared)
    <3>1. CASE Home \notin Tenants
      <4>1. link' = link BY <2>3, <3>1 DEF Network!ApproveHome, NetworkInv, Network!TypeOK
      <4>2. PICK l : l = [st |-> "active", excl |-> TRUE, met |-> TRUE, cleared |-> TRUE] OBVIOUS
      <4>3. link' = [link EXCEPT ![Home] = l]
        BY <4>1, <3>1 DEF NetworkInv, Network!TypeOK
      <4>4. l \in Links /\ (l.met => l.cleared) BY <4>2 DEF Links, Network!LinkStatus
      <4> QED BY <4>3, <4>4
    <3>2. CASE Home \in Tenants
      <4>1. PICK l : l = IF link[Home].st = "none"
                         THEN [st |-> "active", excl |-> TRUE, met |-> TRUE, cleared |-> TRUE]
                         ELSE [link[Home] EXCEPT !.st = "active"]
        OBVIOUS
      <4>2. link' = [link EXCEPT ![Home] = l] BY <2>3, <4>1 DEF Network!ApproveHome
      <4>3. l \in Links /\ (l.met => l.cleared)
        BY <1>0, <3>2, <4>1 DEF Links, Network!LinkStatus
      <4> QED BY <4>2, <4>3
    <3> QED BY <3>1, <3>2
  <2> QED BY <2>1, <2>2, <2>3
<1>2. /\ DOMAIN network' = {"exists", "to", "served"}
      /\ network'.to \in Tenants \cup {Network!Nobody}
      /\ demands' \subseteq Tenants /\ answer' \in [Solo -> Tenants \cup {Network!Nobody}]
  BY DEF Network!Decline, Network!Clears, Network!Accept, Network!ApproveHome, NetworkInv,
         Network!TypeOK
<1>3. PICK t : \E l \in Links : link' = [link EXCEPT ![t] = l] /\ (l.met => l.cleared) BY <1>1
<1>4. PICK l \in Links : link' = [link EXCEPT ![t] = l] /\ (l.met => l.cleared) BY <1>3
<1> QED BY <1>2, <1>4, LinkChanges, NetworkHolds

LEMMA NetworkNext ==
  ASSUME NetworkInv, [Network!Next]_OfNetwork
  PROVE  NetworkInv'
<1>1. CASE UNCHANGED OfNetwork BY <1>1 DEF OfNetwork, NetworkInv, Network!TypeOK
<1>2. CASE Network!Seed \/ \E t \in Tenants, on \in BOOLEAN : Network!Requires(t, on)
  BY <1>2 DEF Network!Seed, Network!Requires, NetworkInv, Network!TypeOK
<1>3. ASSUME NEW t \in Tenants, NEW h \in Solo, Network!BeginAccept(h, t) PROVE NetworkInv'
  BY <1>3 DEF Network!BeginAccept, NetworkInv, Network!TypeOK
<1> QED BY <1>1, <1>2, <1>3, NetworkLinks, NetworkAnswers DEF Network!Next

LEMMA NetworkFollows == ASSUME NetworkInv PROVE Network!PoolMeetsRequirements
BY DEF NetworkInv, Network!PoolMeetsRequirements, Network!InPool

----------------------------------------------------------------------------
(* Training *)

Row == [passed : BOOLEAN, best : 0 .. Training!Pass]

\* A quiz in flight goes by a row that was there; what it saw of the others is still so;
\* and if no other of its version was committed since, it saw them all.
GradedFits(q) ==
  /\ q.v \in Manuals /\ q.t \in Topics(q.v) /\ q.s \in {1, Training!Pass} /\ q.read \in Row
  /\ q.read.passed => score[q.v][q.t].passed

FlushedFits(q) ==
  /\ DOMAIN q = {"op", "v", "t", "new", "was", "seen", "alone"}
  /\ q.v \in Manuals /\ q.t \in Topics(q.v) /\ q.new \in Row /\ q.was \in Row
  /\ q.was.passed => q.new.passed /\ score[q.v][q.t].passed
  /\ q.t \in q.seen => q.new.passed
  /\ q.seen \subseteq Training!PassedIn(q.v) \cup {q.t}
  /\ q.alone => q.seen = (Training!PassedIn(q.v) \ {q.t}) \cup (IF q.new.passed THEN {q.t} ELSE {})

TrainingInv ==
  /\ Training!TypeOK /\ Training!PassedAllIsMarked
  /\ DOMAIN score = Manuals /\ DOMAIN diploma = {"version", "of"} /\ DOMAIN quiz = Handlers
  /\ diploma.version \in Manuals =>
       Training!PassedIn(diploma.version) = Topics(diploma.version)
  /\ \A h \in Handlers : /\ quiz[h].op = "graded"  => GradedFits(quiz[h])
                         /\ quiz[h].op = "flushed" => FlushedFits(quiz[h])

LEMMA TrainingInit == ASSUME Training!Init PROVE TrainingInv
<1> USE DEF Training!Init
<1>1. \A v \in Manuals : Training!PassedIn(v) = {} BY DEF Training!PassedIn
<1>2. Training!TypeOK BY DEF Training!TypeOK, Training!Pass
<1>3. Training!PassedAllIsMarked
  BY <1>1, TrainingParameters DEF Training!PassedAllIsMarked, Training!ParametersAssumption
<1>4. diploma.version \notin Manuals
  BY TrainingParameters DEF Training!ParametersAssumption
<1>5. \A h \in Handlers : quiz[h].op = "idle" BY DEF Training!NoQuiz
<1> QED BY <1>2, <1>3, <1>4, <1>5 DEF TrainingInv

LEMMA TrainingGrades ==
  ASSUME TrainingInv, NEW h \in Handlers, NEW t, NEW s \in {1, Training!Pass},
         Training!Grade(h, t, s)
  PROVE  TrainingInv'
<1>1. /\ UNCHANGED <<manual, score, diploma>> /\ t \in Topics(manual) /\ manual \in Manuals
      /\ quiz' = [quiz EXCEPT ![h] = [op |-> "graded", v |-> manual, t |-> t, s |-> s,
                                      read |-> score[manual][t]]]
  BY DEF Training!Grade, TrainingInv, Training!TypeOK
<1>2. \A v : Training!PassedIn(v)' = Training!PassedIn(v) BY <1>1 DEF Training!PassedIn
<1>3. score[manual][t] \in Row BY <1>1 DEF TrainingInv, Training!TypeOK, Row
<1>4. ASSUME NEW g \in Handlers
      PROVE  /\ quiz'[g].op = "graded"  => GradedFits(quiz[g])'
             /\ quiz'[g].op = "flushed" => FlushedFits(quiz[g])'
  <2>1. CASE g = h
    <3>1. /\ quiz'[h].op = "graded" /\ quiz'[h].v = manual /\ quiz'[h].t = t /\ quiz'[h].s = s
          /\ quiz'[h].read = score[manual][t]
      BY <1>1 DEF TrainingInv
    <3> QED BY <1>1, <1>3, <2>1, <3>1 DEF GradedFits, Training!Pass
  <2>2. CASE g # h
    <3>1. quiz'[g] = quiz[g] BY <1>1, <2>2 DEF TrainingInv
    <3> QED BY <1>1, <1>2, <3>1 DEF TrainingInv, GradedFits, FlushedFits
  <2> QED BY <2>1, <2>2
<1>5. Training!TypeOK' /\ Training!PassedAllIsMarked'
  BY <1>1, <1>2 DEF TrainingInv, Training!TypeOK, Training!PassedAllIsMarked
<1> QED BY <1>1, <1>2, <1>4, <1>5 DEF TrainingInv

LEMMA TrainingFlushes ==
  ASSUME TrainingInv, NEW h \in Handlers, Training!Flush(h)
  PROVE  TrainingInv'
<1>1. PICK q : q = quiz[h] OBVIOUS
<1>2. q.op = "graded" /\ GradedFits(q) BY <1>1 DEF Training!Flush, TrainingInv
<1>3. PICK new : new = [passed |-> q.s >= Training!Pass \/ q.read.passed,
                        best   |-> IF q.s > q.read.best THEN q.s ELSE q.read.best]
  OBVIOUS
<1>4. new \in Row /\ (q.read.passed => new.passed)
  BY <1>2, <1>3 DEF GradedFits, Row, Training!Pass
<1>5. PICK seen : seen = Training!Seen(q, new.passed) OBVIOUS
<1>6. /\ UNCHANGED <<manual, score, diploma>>
      /\ quiz' = [quiz EXCEPT ![h] = [op |-> "flushed", v |-> q.v, t |-> q.t, new |-> new,
                                      was |-> q.read, seen |-> seen, alone |-> TRUE]]
  BY <1>1, <1>3, <1>5 DEF Training!Flush
<1>7. \A v : Training!PassedIn(v)' = Training!PassedIn(v) BY <1>6 DEF Training!PassedIn
<1>8. ASSUME NEW g \in Handlers
      PROVE  /\ quiz'[g].op = "graded"  => GradedFits(quiz[g])'
             /\ quiz'[g].op = "flushed" => FlushedFits(quiz[g])'
  <2>1. CASE g = h
    <3>1. /\ quiz'[h].op = "flushed" /\ quiz'[h].v = q.v /\ quiz'[h].t = q.t /\ quiz'[h].new = new
          /\ quiz'[h].was = q.read /\ quiz'[h].seen = seen
      BY <1>6 DEF TrainingInv
    <3>2. seen = (Training!PassedIn(q.v) \ {q.t}) \cup (IF new.passed THEN {q.t} ELSE {})
      BY <1>5 DEF Training!Seen
    <3>3. DOMAIN quiz'[h] = {"op", "v", "t", "new", "was", "seen", "alone"} BY <1>6 DEF TrainingInv
    <3>4. /\ q.v \in Manuals /\ q.t \in Topics(q.v) /\ q.read \in Row
          /\ q.read.passed => new.passed /\ score[q.v][q.t].passed
          /\ q.t \in seen => new.passed
          /\ seen \subseteq Training!PassedIn(q.v) \cup {q.t}
      BY <1>2, <1>4, <3>2 DEF GradedFits
    <3>5. FlushedFits(quiz[h])'
      BY <1>4, <1>6, <1>7, <3>1, <3>2, <3>3, <3>4 DEF FlushedFits
    <3> QED BY <2>1, <3>1, <3>5
  <2>2. CASE g # h
    <3>1. quiz'[g] = quiz[g] BY <1>6, <2>2 DEF TrainingInv
    <3> QED BY <1>6, <1>7, <3>1 DEF TrainingInv, GradedFits, FlushedFits
  <2> QED BY <2>1, <2>2
<1>9. Training!TypeOK' /\ Training!PassedAllIsMarked'
  BY <1>6, <1>7 DEF TrainingInv, Training!TypeOK, Training!PassedAllIsMarked
<1> QED BY <1>6, <1>7, <1>8, <1>9 DEF TrainingInv

LEMMA TrainingCommits ==
  ASSUME TrainingInv, NEW h \in Handlers, Training!Commit(h)
  PROVE  TrainingInv'
<1>1. PICK q : q = quiz[h] OBVIOUS
<1>2. q.op = "flushed" /\ FlushedFits(q) BY <1>1 DEF Training!Commit, TrainingInv
<1>3. q.v \in Manuals /\ q.t \in Topics(q.v) /\ q.new \in Row /\ q.was \in Row
  BY <1>2 DEF FlushedFits
<1>4. \A v \in Manuals : score[v] \in [Topics(v) -> Row] BY DEF TrainingInv, Training!TypeOK, Row
<1>5. PICK row : row = [passed |-> IF q.new.passed # q.was.passed THEN TRUE ELSE score[q.v][q.t].passed,
                        best   |-> IF q.new.best # q.was.best THEN q.new.best ELSE score[q.v][q.t].best]
  OBVIOUS
<1>6. /\ manual' = manual
      /\ score' = [score EXCEPT ![q.v][q.t] = row]
      /\ diploma' = IF Training!Complete(q.v, q.seen)
                    THEN [version |-> q.v, of |-> diploma.of \cup {q.v}]
                    ELSE [diploma EXCEPT !.of = IF q.alone THEN @ ELSE @ \cup {q.v}]
      /\ quiz' = [g \in Handlers |->
           IF g = h THEN Training!NoQuiz
           ELSE IF quiz[g].op = "flushed" /\ quiz[g].v = q.v THEN [quiz[g] EXCEPT !.alone = FALSE]
           ELSE quiz[g]]
  BY <1>1, <1>5 DEF Training!Commit
<1>7. row \in Row BY <1>3, <1>4, <1>5 DEF Row
<1>8. /\ DOMAIN score' = Manuals
      /\ \A v \in Manuals : v # q.v => score'[v] = score[v]
      /\ score'[q.v] \in [Topics(q.v) -> Row] /\ score'[q.v][q.t] = row
      /\ \A t \in Topics(q.v) : t # q.t => score'[q.v][t] = score[q.v][t]
  BY <1>3, <1>4, <1>6, <1>7 DEF TrainingInv
<1>9. q.new.passed \in BOOLEAN /\ q.was.passed \in BOOLEAN /\ score[q.v][q.t].passed \in BOOLEAN
  BY <1>3, <1>4 DEF Row
<1>10. /\ q.new.passed => row.passed
       /\ score[q.v][q.t].passed => row.passed
       /\ ~q.new.passed => row.passed = score[q.v][q.t].passed
  BY <1>2, <1>5, <1>9 DEF FlushedFits
<1>11. \A v \in Manuals : \A t \in Topics(v) : score[v][t].passed => score'[v][t].passed
  BY <1>3, <1>8, <1>10
<1>12. \A v \in Manuals : Training!PassedIn(v) \subseteq Training!PassedIn(v)'
  BY <1>11 DEF Training!PassedIn
<1>13. \A v \in Manuals : v # q.v => Training!PassedIn(v)' = Training!PassedIn(v)
  BY <1>8 DEF Training!PassedIn
<1>14. q.t \in Training!PassedIn(q.v)' <=> row.passed
  BY <1>3, <1>8 DEF Training!PassedIn
<1>15. \A t : t # q.t => (t \in Training!PassedIn(q.v)' <=> t \in Training!PassedIn(q.v))
  BY <1>8 DEF Training!PassedIn
<1>16. \A v : Training!PassedIn(v)' \subseteq Topics(v) BY DEF Training!PassedIn
<1>17. Training!TypeOK'
  <2>1. \A v \in Manuals : score'[v] \in [Topics(v) -> Row] BY <1>4, <1>8
  <2>2. diploma'.version \in Manuals \cup {"none"} /\ diploma'.of \subseteq Manuals
    BY <1>3, <1>6 DEF TrainingInv, Training!TypeOK
  <2> QED BY <1>6, <2>1, <2>2 DEF TrainingInv, Training!TypeOK, Row
<1>18. Training!Complete(q.v, q.seen) => Training!PassedIn(q.v)' = Topics(q.v)
  <2> SUFFICES ASSUME Training!Complete(q.v, q.seen), NEW t \in Topics(q.v)
               PROVE  t \in Training!PassedIn(q.v)'
    BY <1>16
  <2>1. t \in q.seen BY DEF Training!Complete
  <2> QED BY <1>2, <1>10, <1>14, <1>15, <2>1 DEF FlushedFits
<1>19. PICK d : d = diploma'.version OBVIOUS
<1>20. d \in Manuals => Training!PassedIn(d)' = Topics(d)
  <2>1. CASE Training!Complete(q.v, q.seen) BY <1>6, <1>18, <1>19, <2>1
  <2>2. CASE ~Training!Complete(q.v, q.seen)
    <3>1. d = diploma.version BY <1>6, <1>19, <2>2 DEF TrainingInv
    <3>2. d \in Manuals => Training!PassedIn(d) = Topics(d) BY <3>1 DEF TrainingInv
    <3> QED BY <1>12, <1>16, <3>2
  <2> QED BY <2>1, <2>2
<1>21. DOMAIN diploma' = {"version", "of"} BY <1>6 DEF TrainingInv
<1>22. Training!PassedAllIsMarked'
  <2> SUFFICES ASSUME NEW v \in Manuals, Training!PassedIn(v)' = Topics(v) PROVE v \in diploma'.of
    BY DEF Training!PassedAllIsMarked, Training!PassedIn
  <2>1. diploma.of \subseteq diploma'.of BY <1>6 DEF TrainingInv
  <2>2. CASE v # q.v BY <1>13, <2>1, <2>2 DEF TrainingInv, Training!PassedAllIsMarked
  <2>3. CASE v = q.v /\ (Training!Complete(q.v, q.seen) \/ ~q.alone)
    BY <1>6, <2>3 DEF TrainingInv
  <2>4. CASE v = q.v /\ ~Training!Complete(q.v, q.seen) /\ q.alone
    <3>1. q.seen = (Training!PassedIn(q.v) \ {q.t}) \cup (IF q.new.passed THEN {q.t} ELSE {})
      BY <1>2, <2>4 DEF FlushedFits
    <3>2. ~q.new.passed
      <4> SUFFICES ASSUME q.new.passed PROVE FALSE OBVIOUS
      <4>1. \A t \in Topics(q.v) : t \in q.seen BY <1>15, <2>4, <3>1
      <4> QED BY <1>3, <2>4, <4>1 DEF Training!Complete
    <3>3. Training!PassedIn(q.v) = Topics(q.v)
      <4>1. row.passed = score[q.v][q.t].passed BY <1>10, <3>2
      <4>2. q.t \in Training!PassedIn(q.v) BY <1>3, <1>14, <2>4, <4>1 DEF Training!PassedIn
      <4>3. \A t \in Topics(q.v) : t \in Training!PassedIn(q.v) BY <1>15, <2>4, <4>2
      <4> QED BY <4>3 DEF Training!PassedIn
    <3> QED BY <2>1, <2>4, <3>3 DEF TrainingInv, Training!PassedAllIsMarked
  <2> QED BY <2>2, <2>3, <2>4
<1>23. ASSUME NEW g \in Handlers
       PROVE  /\ quiz'[g].op = "graded"  => GradedFits(quiz[g])'
              /\ quiz'[g].op = "flushed" => FlushedFits(quiz[g])'
  <2>1. CASE g = h BY <1>6, <2>1 DEF Training!NoQuiz
  <2>2. CASE g # h /\ quiz[g].op = "graded"
    <3>1. quiz'[g] = quiz[g] BY <1>6, <2>2
    <3>2. GradedFits(quiz[g]) BY <2>2 DEF TrainingInv
    <3>3. quiz[g].read.passed => score'[quiz[g].v][quiz[g].t].passed
      BY <1>11, <3>2 DEF GradedFits
    <3> QED BY <2>2, <3>1, <3>2, <3>3 DEF GradedFits
  <2>3. CASE g # h /\ quiz[g].op = "flushed"
    <3>1. PICK r : r = quiz[g] OBVIOUS
    <3>2. PICK r1 : r1 = quiz'[g] OBVIOUS
    <3>3. FlushedFits(r) BY <2>3, <3>1 DEF TrainingInv
    <3>4. r1 = (IF r.v = q.v THEN [r EXCEPT !.alone = FALSE] ELSE r) BY <1>6, <2>3, <3>1, <3>2
    <3>5. /\ r1.v = r.v /\ r1.t = r.t /\ r1.new = r.new /\ r1.was = r.was /\ r1.seen = r.seen
          /\ r1.op = "flushed" /\ DOMAIN r1 = DOMAIN r
      BY <2>3, <3>1, <3>3, <3>4 DEF FlushedFits
    <3>6. r1.alone => r.alone /\ r.v # q.v
      <4>1. CASE r.v = q.v BY <3>3, <3>4, <4>1 DEF FlushedFits
      <4>2. CASE r.v # q.v BY <3>4, <4>2
      <4> QED BY <4>1, <4>2
    <3>7. r.v \in Manuals /\ r.t \in Topics(r.v) BY <3>3 DEF FlushedFits
    <3>8. r.was.passed => score'[r.v][r.t].passed BY <1>11, <3>3, <3>7 DEF FlushedFits
    <3>9. r.seen \subseteq Training!PassedIn(r.v)' \cup {r.t}
      BY <1>12, <3>3, <3>7 DEF FlushedFits
    <3>10. r1.alone => r.seen = (Training!PassedIn(r.v)' \ {r.t}) \cup (IF r.new.passed THEN {r.t} ELSE {})
      <4>1. r1.alone => Training!PassedIn(r.v)' = Training!PassedIn(r.v) BY <1>13, <3>6, <3>7
      <4> QED BY <3>3, <3>6, <4>1 DEF FlushedFits
    <3>11. FlushedFits(r1)'
      <4>1. /\ r1.v \in Manuals /\ r1.t \in Topics(r1.v) /\ r1.new \in Row /\ r1.was \in Row
            /\ r1.was.passed => r1.new.passed /\ score'[r1.v][r1.t].passed
            /\ r1.t \in r1.seen => r1.new.passed
        BY <3>3, <3>5, <3>8 DEF FlushedFits
      <4>2. /\ r1.seen \subseteq Training!PassedIn(r1.v)' \cup {r1.t}
            /\ r1.alone => r1.seen = (Training!PassedIn(r1.v)' \ {r1.t})
                                     \cup (IF r1.new.passed THEN {r1.t} ELSE {})
        BY <3>5, <3>9, <3>10
      <4> QED BY <3>3, <3>5, <4>1, <4>2 DEF FlushedFits
    <3> QED BY <3>2, <3>5, <3>11
  <2>4. CASE g # h /\ quiz[g].op \notin {"graded", "flushed"} BY <1>6, <2>4
  <2> QED BY <2>1, <2>2, <2>3, <2>4
<1>24. diploma'.version \in Manuals =>
         Training!PassedIn(d)' = Topics(d) /\ d = diploma'.version
  BY <1>19, <1>20
<1> QED BY <1>6, <1>8, <1>17, <1>21, <1>22, <1>23, <1>24 DEF TrainingInv

LEMMA TrainingNext ==
  ASSUME TrainingInv, [Training!Next]_OfTraining
  PROVE  TrainingInv'
<1>1. CASE UNCHANGED <<score, diploma, quiz>> /\ manual' \in Manuals
  <2>1. \A v : Training!PassedIn(v)' = Training!PassedIn(v) BY <1>1 DEF Training!PassedIn
  <2>2. Training!TypeOK' /\ Training!PassedAllIsMarked'
    BY <1>1, <2>1 DEF TrainingInv, Training!TypeOK, Training!PassedAllIsMarked
  <2>3. ASSUME NEW h \in Handlers
        PROVE  /\ quiz'[h].op = "graded"  => GradedFits(quiz[h])'
               /\ quiz'[h].op = "flushed" => FlushedFits(quiz[h])'
    BY <1>1, <2>1 DEF TrainingInv, GradedFits, FlushedFits
  <2> QED BY <1>1, <2>1, <2>2, <2>3 DEF TrainingInv
<1>2. CASE UNCHANGED OfTraining BY <1>1, <1>2 DEF OfTraining, TrainingInv, Training!TypeOK
<1>3. CASE \E v \in Manuals : Training!Deploy(v) BY <1>1, <1>3 DEF Training!Deploy
<1> QED BY <1>2, <1>3, TrainingGrades, TrainingFlushes, TrainingCommits DEF Training!Next

LEMMA TrainingFollows == ASSUME TrainingInv PROVE Training!DiplomaIsEarned
BY DEF TrainingInv, Training!TypeOK, Training!DiplomaIsEarned, Training!TrainedPassedAll,
       Training!Trained

----------------------------------------------------------------------------
(* The deletion of an account *)

Asking     == [op : {"walk", "plan", "withdraw"}]
Asked(h)   == form[h].op = "delete"
Certain(h) == Asked(h) /\ ~form[h].overtaken

\* One deletion at a time, and none once done.  Until a request overtakes it nothing blocks
\* it and the walk is what it read; done without any, there is nothing left to happen.
DeletionInv ==
  /\ Deletion!TypeOK
  /\ form \in [Handlers -> {Deletion!Blank} \cup Asking \cup
                 [op : {"delete"}, walk : [st : {"none", "live", "over"}, address : BOOLEAN],
                  overtaken : BOOLEAN]]
  /\ \A h \in Handlers : Certain(h) => ~Deletion!Blocked /\ form[h].walk = outing
  /\ account.role = "tutor" => /\ purse.earning = "none" /\ purse.payout = "none"
                               /\ \A h \in Handlers : form[h].op # "withdraw"
  /\ outing.st = "none" => ~outing.address
  /\ \A g, h \in Handlers : Asked(g) /\ Asked(h) => g = h
  /\ account.gone => \A h \in Handlers : ~Asked(h)
  /\ account.gone /\ ~account.hurried => /\ \A h \in Handlers : form[h] = Deletion!Blank
                                         /\ ~Deletion!Blocked /\ ~outing.address

LEMMA DeletionInit == ASSUME Deletion!Init PROVE DeletionInv
<1> USE DEF Deletion!Init
<1>1. ~Deletion!Blocked BY DEF Deletion!Blocked
<1>2. Deletion!TypeOK
  <2>1. PICK r \in {"tutor", "walker"} : account = [role |-> r, gone |-> FALSE, hurried |-> FALSE]
    OBVIOUS
  <2>2. outing \in [st : {"none", "live", "over"}, address : BOOLEAN] OBVIOUS
  <2>3. account \in [role : {"tutor", "walker"}, gone : BOOLEAN, hurried : BOOLEAN] BY <2>1
  <2> QED BY <2>2, <2>3 DEF Deletion!TypeOK
<1>3. \A h \in Handlers : form[h] = Deletion!Blank /\ form[h].op = "idle" BY DEF Deletion!Blank
<1> QED BY <1>1, <1>2, <1>3 DEF DeletionInv, Certain, Asked

LEMMA DeletionOpens ==
  ASSUME DeletionInv, NEW h \in Handlers, NEW op \in {"walk", "plan", "withdraw"},
         op = "withdraw" => account.role = "walker", Deletion!Opens(h, op)
  PROVE  DeletionInv'
<1>1. /\ UNCHANGED <<account, outing, recurring, purse>> /\ ~account.gone
      /\ form' = [form EXCEPT ![h] = [op |-> op]]
  BY DEF Deletion!Opens
<1>2. /\ form'[h] = [op |-> op] /\ \A g \in Handlers \ {h} : form'[g] = form[g]
      /\ [op |-> op] \in Asking /\ form'[h].op = op
  BY <1>1 DEF DeletionInv, Asking
<1>3. Deletion!Blocked' = Deletion!Blocked BY <1>1 DEF Deletion!Blocked
<1>4. \A g \in Handlers : Asked(g)' => g # h /\ Asked(g) /\ form'[g] = form[g]
  BY <1>2 DEF Asked
<1>5. \A g \in Handlers : Certain(g)' => Certain(g) /\ form'[g] = form[g]
  BY <1>4 DEF Certain
<1>6. account.role = "tutor" => \A g \in Handlers : form'[g].op # "withdraw"
  BY <1>2 DEF DeletionInv
<1>7. form' \in [Handlers -> {Deletion!Blank} \cup Asking \cup
                 [op : {"delete"}, walk : [st : {"none", "live", "over"}, address : BOOLEAN],
                  overtaken : BOOLEAN]]
  BY <1>1, <1>2 DEF DeletionInv
<1>8. Deletion!TypeOK' BY <1>1 DEF DeletionInv, Deletion!TypeOK
<1> QED BY <1>1, <1>3, <1>4, <1>5, <1>6, <1>7, <1>8 DEF DeletionInv

\* A request that ends overtakes the deletion in flight, and is none itself.
LEMMA Overtaken ==
  ASSUME DeletionInv, NEW h \in Handlers, form[h].op \in {"walk", "plan", "withdraw"},
         Deletion!Closes(h)
  PROVE  /\ form' \in [Handlers -> {Deletion!Blank} \cup Asking \cup
                 [op : {"delete"}, walk : [st : {"none", "live", "over"}, address : BOOLEAN],
                  overtaken : BOOLEAN]]
         /\ \A g \in Handlers : (Asked(g)' => Asked(g)) /\ ~Certain(g)'
         /\ \A g \in Handlers : form'[g].op = "withdraw" => form[g].op = "withdraw"
         /\ form[h] # Deletion!Blank
<1>1. form' = [g \in Handlers |-> IF g = h THEN Deletion!Blank
                 ELSE IF form[g].op = "delete" THEN [form[g] EXCEPT !.overtaken = TRUE] ELSE form[g]]
  BY DEF Deletion!Closes
<1>2. ASSUME NEW g \in Handlers
      PROVE  /\ form'[g] \in {Deletion!Blank} \cup Asking \cup
                 [op : {"delete"}, walk : [st : {"none", "live", "over"}, address : BOOLEAN],
                  overtaken : BOOLEAN]
             /\ form'[g].op = "delete" => form[g].op = "delete" /\ form'[g].overtaken = TRUE
             /\ form'[g].op = "withdraw" => form[g].op = "withdraw"
  <2>1. CASE g = h BY <1>1, <2>1 DEF Deletion!Blank
  <2>2. CASE g # h /\ form[g].op = "delete"
    <3>1. form[g] \in [op : {"delete"}, walk : [st : {"none", "live", "over"}, address : BOOLEAN],
                       overtaken : BOOLEAN]
      BY <2>2 DEF DeletionInv, Asking, Deletion!Blank
    <3>2. form'[g] = [form[g] EXCEPT !.overtaken = TRUE] BY <1>1, <2>2
    <3> QED BY <3>1, <3>2
  <2>3. CASE g # h /\ form[g].op # "delete" BY <1>1, <2>3 DEF DeletionInv
  <2> QED BY <2>1, <2>2, <2>3
<1>3. DOMAIN form' = Handlers /\ form' = [g \in Handlers |-> form'[g]] BY <1>1
<1>4. \A g \in Handlers : Asked(g)' => Asked(g) BY <1>2 DEF Asked
<1>5. \A g \in Handlers : ~Certain(g)' BY <1>2 DEF Asked, Certain
<1>6. form[h] # Deletion!Blank BY DEF Deletion!Blank
<1>7. form' \in [Handlers -> {Deletion!Blank} \cup Asking \cup
                 [op : {"delete"}, walk : [st : {"none", "live", "over"}, address : BOOLEAN],
                  overtaken : BOOLEAN]]
  BY <1>2, <1>3
<1> QED BY <1>2, <1>4, <1>5, <1>6, <1>7

LEMMA DeletionBooks ==
  ASSUME DeletionInv, NEW h \in Handlers,
         Deletion!Books(h) \/ Deletion!Subscribes(h) \/ Deletion!Withdraws(h)
  PROVE  DeletionInv'
<1>1. form[h].op \in {"walk", "plan", "withdraw"} /\ Deletion!Closes(h) /\ account' = account
  BY DEF Deletion!Books, Deletion!Subscribes, Deletion!Withdraws
<1>2. account.gone => account.hurried BY <1>1, Overtaken DEF DeletionInv
<1>3. Deletion!TypeOK'
  <2>1. CASE Deletion!Books(h)
    <3>1. PICK b \in BOOLEAN : b = (account.role = "tutor") OBVIOUS
    <3>2. outing' = [st |-> "live", address |-> b] BY <2>1, <3>1 DEF Deletion!Books
    <3> QED BY <2>1, <3>2 DEF DeletionInv, Deletion!TypeOK, Deletion!Books
  <2>2. CASE Deletion!Subscribes(h) BY <2>2 DEF DeletionInv, Deletion!TypeOK, Deletion!Subscribes
  <2>3. CASE Deletion!Withdraws(h) BY <2>3 DEF DeletionInv, Deletion!TypeOK, Deletion!Withdraws
  <2> QED BY <2>1, <2>2, <2>3
<1>4. outing'.st = "none" => ~outing'.address
  BY DEF DeletionInv, Deletion!Books, Deletion!Subscribes, Deletion!Withdraws
<1>5. account.role = "tutor" => purse'.earning = "none" /\ purse'.payout = "none"
  BY DEF DeletionInv, Deletion!Books, Deletion!Subscribes, Deletion!Withdraws
<1> QED BY <1>1, <1>2, <1>3, <1>4, <1>5, Overtaken DEF DeletionInv

LEMMA DeletionRefuses ==
  ASSUME DeletionInv, NEW h \in Handlers, Deletion!Refused(h)
  PROVE  DeletionInv'
<1>1. /\ UNCHANGED <<account, outing, recurring, purse>>
      /\ form' = [form EXCEPT ![h] = Deletion!Blank]
  BY DEF Deletion!Refused
<1>2. /\ form'[h] = Deletion!Blank /\ \A g \in Handlers \ {h} : form'[g] = form[g]
  BY <1>1 DEF DeletionInv
<1>3. Deletion!Blocked' = Deletion!Blocked BY <1>1 DEF Deletion!Blocked
<1>4. \A g \in Handlers : Asked(g)' => Asked(g) /\ form'[g] = form[g]
  BY <1>2 DEF Asked, Deletion!Blank
<1>5. \A g \in Handlers : Certain(g)' => Certain(g) /\ form'[g] = form[g]
  BY <1>4 DEF Certain
<1>6. account.role = "tutor" => \A g \in Handlers : form'[g].op # "withdraw"
  BY <1>2 DEF DeletionInv, Deletion!Blank
<1>7. form' \in [Handlers -> {Deletion!Blank} \cup Asking \cup
                 [op : {"delete"}, walk : [st : {"none", "live", "over"}, address : BOOLEAN],
                  overtaken : BOOLEAN]]
  BY <1>1, <1>2 DEF DeletionInv
<1>8. Deletion!TypeOK' BY <1>1 DEF DeletionInv, Deletion!TypeOK
<1>9. \A g \in Handlers : form[g] = Deletion!Blank => form'[g] = Deletion!Blank BY <1>2
<1> QED BY <1>1, <1>3, <1>4, <1>5, <1>6, <1>7, <1>8, <1>9 DEF DeletionInv

LEMMA DeletionAsks ==
  ASSUME DeletionInv, NEW h \in Handlers, Deletion!AsksDeletion(h)
  PROVE  DeletionInv'
<1>1. PICK d : d = [op |-> "delete", walk |-> outing, overtaken |-> FALSE] OBVIOUS
<1>2. /\ UNCHANGED <<account, outing, recurring, purse>> /\ ~account.gone /\ ~Deletion!Blocked
      /\ form' = [form EXCEPT ![h] = d] /\ \A g \in Handlers : form[g].op # "delete"
  BY <1>1 DEF Deletion!AsksDeletion
<1>3. /\ d \in [op : {"delete"}, walk : [st : {"none", "live", "over"}, address : BOOLEAN],
                overtaken : BOOLEAN]
      /\ d.op = "delete" /\ d.walk = outing
  BY <1>1 DEF DeletionInv, Deletion!TypeOK
<1>4. form'[h] = d /\ \A g \in Handlers \ {h} : form'[g] = form[g] BY <1>2 DEF DeletionInv
<1>5. Deletion!Blocked' = Deletion!Blocked BY <1>2 DEF Deletion!Blocked
<1>6. \A g \in Handlers : Asked(g)' => g = h BY <1>2, <1>4 DEF Asked
<1>7. \A g \in Handlers : Certain(g)' => form'[g].walk = outing' BY <1>2, <1>3, <1>4, <1>6 DEF Certain
<1>8. account.role = "tutor" => \A g \in Handlers : form'[g].op # "withdraw"
  BY <1>3, <1>4 DEF DeletionInv
<1>9. form' \in [Handlers -> {Deletion!Blank} \cup Asking \cup
                 [op : {"delete"}, walk : [st : {"none", "live", "over"}, address : BOOLEAN],
                  overtaken : BOOLEAN]]
  BY <1>2, <1>3, <1>4 DEF DeletionInv
<1>10. Deletion!TypeOK' BY <1>2 DEF DeletionInv, Deletion!TypeOK
<1> QED BY <1>2, <1>5, <1>6, <1>7, <1>8, <1>9, <1>10 DEF DeletionInv

LEMMA DeletionDeletes ==
  ASSUME DeletionInv, NEW h \in Handlers, Deletion!Deletes(h)
  PROVE  DeletionInv'
<1>1. PICK hurried \in BOOLEAN :
        hurried = (form[h].overtaken \/ \E g \in Handlers \ {h} : form[g] # Deletion!Blank)
  OBVIOUS
<1>2. /\ account' = [account EXCEPT !.gone = TRUE, !.hurried = hurried]
      /\ outing' = Deletion!Scrubbed(form[h].walk)
      /\ form' = [form EXCEPT ![h] = Deletion!Blank] /\ UNCHANGED <<recurring, purse>>
      /\ form[h].op = "delete"
  BY <1>1 DEF Deletion!Deletes
<1>3. /\ account' \in [role : {"tutor", "walker"}, gone : BOOLEAN, hurried : BOOLEAN]
      /\ account'.role = account.role /\ account'.gone = TRUE /\ account'.hurried = hurried
  BY <1>2 DEF DeletionInv, Deletion!TypeOK
<1>4. /\ outing' \in [st : {"none", "live", "over"}, address : BOOLEAN] /\ outing'.st = outing.st
      /\ outing'.address => outing.address
      /\ form[h].walk.st # "none" => ~outing'.address
  BY <1>2 DEF DeletionInv, Deletion!TypeOK, Deletion!Scrubbed
<1>5. form'[h] = Deletion!Blank /\ \A g \in Handlers \ {h} : form'[g] = form[g]
  BY <1>2 DEF DeletionInv
<1>6. \A g \in Handlers : ~Asked(g)'
  BY <1>2, <1>5 DEF DeletionInv, Asked, Deletion!Blank
<1>7. Deletion!Blocked' = Deletion!Blocked BY <1>2, <1>3, <1>4 DEF Deletion!Blocked
<1>8. ~hurried => /\ \A g \in Handlers : form'[g] = Deletion!Blank
                  /\ ~Deletion!Blocked /\ ~outing'.address
  <2> SUFFICES ASSUME ~hurried
               PROVE  /\ \A g \in Handlers : form'[g] = Deletion!Blank
                      /\ ~Deletion!Blocked /\ ~outing'.address
    OBVIOUS
  <2>1. \A g \in Handlers \ {h} : form[g] = Deletion!Blank BY <1>1
  <2>2. Certain(h) BY <1>1, <1>2 DEF Certain, Asked
  <2>3. ~Deletion!Blocked /\ form[h].walk = outing BY <2>2 DEF DeletionInv
  <2>4. ~outing'.address BY <1>4, <2>3 DEF DeletionInv
  <2> QED BY <1>5, <2>1, <2>3, <2>4
<1>9. form' \in [Handlers -> {Deletion!Blank} \cup Asking \cup
                 [op : {"delete"}, walk : [st : {"none", "live", "over"}, address : BOOLEAN],
                  overtaken : BOOLEAN]]
  BY <1>2 DEF DeletionInv
<1>10. account.role = "tutor" => \A g \in Handlers : form'[g].op # "withdraw"
  BY <1>5 DEF DeletionInv, Deletion!Blank
<1>11. Deletion!TypeOK' BY <1>2, <1>3, <1>4 DEF DeletionInv, Deletion!TypeOK
<1> QED BY <1>2, <1>3, <1>4, <1>6, <1>7, <1>8, <1>9, <1>10, <1>11 DEF DeletionInv, Certain

\* What happens by itself happens only to who is blocked.
LEMMA DeletionLives ==
  ASSUME DeletionInv,
         \/ \E ok \in BOOLEAN : Deletion!Ends(ok) \/ Deletion!Transfers(ok)
         \/ Deletion!Matures
         \/ \E to \in {"active", "overdue", "cancelled"} : Deletion!Bills(to)
  PROVE  DeletionInv'
<1>1. UNCHANGED <<account, form>> /\ Deletion!TypeOK'
  <2>1. ASSUME NEW ok \in BOOLEAN, Deletion!Ends(ok) PROVE UNCHANGED <<account, form>> /\ Deletion!TypeOK'
    BY <2>1 DEF Deletion!Ends, DeletionInv, Deletion!TypeOK
  <2>2. ASSUME NEW ok \in BOOLEAN, Deletion!Transfers(ok)
        PROVE UNCHANGED <<account, form>> /\ Deletion!TypeOK'
    BY <2>2 DEF Deletion!Transfers, DeletionInv, Deletion!TypeOK
  <2>3. CASE Deletion!Matures BY <2>3 DEF Deletion!Matures, DeletionInv, Deletion!TypeOK
  <2>4. ASSUME NEW to \in {"active", "overdue", "cancelled"}, Deletion!Bills(to)
        PROVE UNCHANGED <<account, form>> /\ Deletion!TypeOK'
    BY <2>4 DEF Deletion!Bills, DeletionInv, Deletion!TypeOK
  <2> QED BY <2>1, <2>2, <2>3, <2>4
<1>2. Deletion!Blocked
  BY DEF DeletionInv, Deletion!TypeOK, Deletion!Ends, Deletion!Transfers, Deletion!Matures,
         Deletion!Bills, Deletion!Blocked
<1>3. /\ account.role = "tutor" => purse'.earning = "none" /\ purse'.payout = "none"
      /\ outing'.st = "none" => ~outing'.address
  BY DEF DeletionInv, Deletion!TypeOK, Deletion!Ends, Deletion!Transfers, Deletion!Matures,
         Deletion!Bills
<1>4. \A h \in Handlers : ~Certain(h)' /\ (Asked(h)' <=> Asked(h))
  BY <1>1, <1>2 DEF DeletionInv, Certain, Asked
<1>5. account.gone => account.hurried BY <1>2 DEF DeletionInv
<1> QED BY <1>1, <1>3, <1>4, <1>5 DEF DeletionInv

LEMMA DeletionNext ==
  ASSUME DeletionInv, [Deletion!Next]_OfDeletion
  PROVE  DeletionInv'
<1>1. CASE UNCHANGED OfDeletion
  BY <1>1 DEF OfDeletion, DeletionInv, Deletion!TypeOK, Certain, Asked, Deletion!Blocked
<1>2. ASSUME NEW h \in Handlers,
             Deletion!AsksWalk(h) \/ Deletion!AsksPlan(h) \/ Deletion!AsksWithdraw(h)
      PROVE  DeletionInv'
  BY <1>2, DeletionOpens DEF Deletion!AsksWalk, Deletion!AsksPlan, Deletion!AsksWithdraw
<1> QED BY <1>1, <1>2, DeletionBooks, DeletionRefuses, DeletionAsks, DeletionDeletes, DeletionLives
        DEF Deletion!Next

LEMMA DeletionFollows == ASSUME DeletionInv PROVE Deletion!DeletionIsComplete
BY DEF DeletionInv, Deletion!TypeOK, Deletion!DeletionIsComplete, Deletion!DeletedLeavesNothing,
       Deletion!AddressIsGone, Deletion!Blocked

----------------------------------------------------------------------------
(* The terms *)

Texts == [version : 1 .. MaxTexts, active : BOOLEAN]

\* A version and the number of its text, as it is accepted: the model, or a text there is.
Acceptable(a) == a \in [version : 0 .. MaxTexts + 1, text : Nat] /\ a.text <= Len(texts)
\* The version tells which text; the highest is no text's.
Telling(a)    == a.version = a.text \/ a = [version |-> MaxTexts + 1, text |-> 0]

TermsInv ==
  /\ texts \in Seq(Texts) /\ Len(texts) <= MaxTexts /\ Acceptable(accepted)
  /\ DOMAIN publisher = Handlers
  /\ \A h \in Handlers :
       /\ publisher[h].st \in {"publish", "restore"} =>
            publisher[h].read \in Seq(Texts) /\ Len(publisher[h].read) <= Len(texts)
       /\ publisher[h].st = "accept" => Acceptable(publisher[h].of)
  /\ ~republished =>
       /\ \A n \in DOMAIN texts : texts[n].version = n
       /\ \A m, n \in DOMAIN texts : texts[m].active /\ texts[n].active => m = n
       /\ Telling(accepted) /\ passed.held = passed.due
       /\ \A h \in Handlers : publisher[h].st = "accept" => Telling(publisher[h].of)

LEMMA MaxTextsIsNat == MaxTexts \in Nat
BY TermsParameters DEF Terms!ParametersAssumption

LEMMA TermsInit == ASSUME Terms!Init PROVE TermsInv
<1> USE MaxTextsIsNat DEF Terms!Init
<1>1. texts \in Seq(Texts) /\ Len(texts) = 0 /\ DOMAIN texts = {} OBVIOUS
<1>2. accepted \in [version : 0 .. MaxTexts + 1, text : Nat] /\ accepted.text = 0 OBVIOUS
<1>3. \A h \in Handlers : publisher[h].st = "idle" BY DEF Terms!Idle
<1> QED BY <1>1, <1>2, <1>3 DEF TermsInv, Acceptable, Telling

\* What is in force is acceptable, and tells which text it is.
LEMMA InForceFacts ==
  ASSUME TermsInv, NEW t \in Terms!InForce
  PROVE  Acceptable(t) /\ t.version \in 0 .. MaxTexts /\ (~republished => t.version = t.text)
<1> USE MaxTextsIsNat
<1>1. CASE Terms!Active = {}
  <2>1. t = [version |-> 0, text |-> 0] BY <1>1 DEF Terms!InForce, Terms!Model
  <2>2. Len(texts) \in Nat BY SeqFacts DEF TermsInv
  <2> QED BY <2>1, <2>2 DEF Acceptable
<1>2. CASE Terms!Active # {}
  <2>1. PICK n \in Terms!Active : t = [version |-> texts[n].version, text |-> n]
    BY <1>2 DEF Terms!InForce
  <2>2. n \in 1 .. Len(texts) /\ texts[n] \in Texts /\ n \in DOMAIN texts /\ Len(texts) \in Nat
    BY SeqFacts DEF Terms!Active, TermsInv
  <2>3. texts[n].version \in 1 .. MaxTexts BY <2>2 DEF Texts
  <2>4. t.version = texts[n].version /\ t.text = n BY <2>1
  <2>5. t \in [version : 0 .. MaxTexts + 1, text : Nat] BY <2>1, <2>2, <2>3
  <2>6. ~republished => texts[n].version = n BY <2>2 DEF TermsInv
  <2> QED BY <2>2, <2>3, <2>4, <2>5, <2>6 DEF Acceptable
<1> QED BY <1>1, <1>2

LEMMA TermsRequests ==
  ASSUME TermsInv, NEW h \in Handlers,
         Terms!Edit(h) \/ Terms!Accept(h) \/ Terms!CommitAccept(h)
  PROVE  TermsInv'
<1>1. UNCHANGED <<texts, passed, republished>>
  BY DEF Terms!Edit, Terms!Accept, Terms!CommitAccept
<1>2. \A g \in Handlers \ {h} : publisher'[g] = publisher[g]
  BY DEF Terms!Edit, Terms!Accept, Terms!CommitAccept, TermsInv
<1>3. DOMAIN publisher' = Handlers
  BY DEF Terms!Edit, Terms!Accept, Terms!CommitAccept, TermsInv
<1>4. \A a : Acceptable(a)' <=> Acceptable(a) BY <1>1 DEF Acceptable
<1>5. ASSUME NEW g \in Handlers \ {h}
      PROVE  /\ publisher'[g].st \in {"publish", "restore"} =>
                  publisher'[g].read \in Seq(Texts) /\ Len(publisher'[g].read) <= Len(texts')
             /\ publisher'[g].st = "accept" => Acceptable(publisher[g].of)'
             /\ ~republished => (publisher'[g].st = "accept" => Telling(publisher[g].of)')
  BY <1>1, <1>2, <1>5 DEF TermsInv, Acceptable, Telling
<1>6. CASE Terms!Edit(h)
  <2>1. PICK op \in {"publish", "restore"} : publisher' = [publisher EXCEPT ![h] = [st |-> op, read |-> texts]]
    BY <1>6 DEF Terms!Edit
  <2>2. publisher'[h].st = op /\ publisher'[h].read = texts BY <2>1 DEF TermsInv
  <2>3. accepted' = accepted BY <1>6 DEF Terms!Edit
  <2>4. /\ publisher'[h].st \in {"publish", "restore"} =>
                  publisher'[h].read \in Seq(Texts) /\ Len(publisher'[h].read) <= Len(texts')
        /\ publisher'[h].st # "accept"
    <3>1. Len(texts) \in Nat BY SeqFacts DEF TermsInv
    <3> QED BY <1>1, <2>2, <3>1 DEF TermsInv
  <2>5. Acceptable(accepted)' /\ (~republished => Telling(accepted)')
    BY <1>1, <2>3 DEF TermsInv, Acceptable, Telling
  <2> QED BY <1>1, <1>3, <1>5, <2>4, <2>5 DEF TermsInv
<1>7. CASE Terms!Accept(h)
  <2>1. PICK t \in Terms!InForce : publisher' = [publisher EXCEPT ![h] = [st |-> "accept", of |-> t]]
    BY <1>7 DEF Terms!Accept
  <2>2. publisher'[h].st = "accept" /\ publisher'[h].of = t BY <2>1 DEF TermsInv
  <2>3. accepted' = accepted BY <1>7 DEF Terms!Accept
  <2>4. Acceptable(publisher[h].of)' /\ (~republished => Telling(publisher[h].of)')
    BY <1>1, <2>2, InForceFacts DEF Acceptable, Telling
  <2>5. Acceptable(accepted)' /\ (~republished => Telling(accepted)')
    BY <1>1, <2>3 DEF TermsInv, Acceptable, Telling
  <2> QED BY <1>1, <1>3, <1>5, <2>2, <2>4, <2>5 DEF TermsInv
<1>8. CASE Terms!CommitAccept(h)
  <2>1. publisher'[h] = Terms!Idle /\ accepted' = publisher[h].of /\ publisher[h].st = "accept"
    BY <1>8 DEF Terms!CommitAccept, TermsInv
  <2>2. publisher'[h].st = "idle" BY <2>1 DEF Terms!Idle
  <2>3. Acceptable(accepted)' /\ (~republished => Telling(accepted)')
    BY <1>1, <2>1 DEF TermsInv, Acceptable, Telling
  <2> QED BY <1>1, <1>3, <1>5, <2>2, <2>3 DEF TermsInv
<1> QED BY <1>6, <1>7, <1>8

LEMMA WithoutFacts ==
  ASSUME NEW rows \in Seq(Texts), NEW read
  PROVE  /\ Terms!Without(rows, read) \in Seq(Texts)
         /\ Len(Terms!Without(rows, read)) = Len(rows)
         /\ \A n \in 1 .. Len(rows) : Terms!Without(rows, read)[n].version = rows[n].version
         /\ read = rows => \A n \in 1 .. Len(rows) : ~Terms!Without(rows, read)[n].active
<1>1. Len(rows) \in Nat /\ DOMAIN rows = 1 .. Len(rows) /\ \A i \in DOMAIN rows : rows[i] \in Texts
  BY SeqFacts
<1>2. PICK f : f = Terms!Without(rows, read) OBVIOUS
<1>3. f = [n \in 1 .. Len(rows) |-> IF n \in DOMAIN read /\ read[n].active
                                    THEN [rows[n] EXCEPT !.active = FALSE] ELSE rows[n]]
  BY <1>1, <1>2 DEF Terms!Without
<1>4. ASSUME NEW n \in 1 .. Len(rows)
      PROVE  /\ f[n] \in Texts /\ f[n].version = rows[n].version
             /\ read = rows => ~f[n].active
  <2>1. rows[n] \in Texts BY <1>1
  <2>2. CASE n \in DOMAIN read /\ read[n].active
    <3>1. f[n] = [rows[n] EXCEPT !.active = FALSE] BY <1>3, <2>2
    <3> QED BY <2>1, <3>1 DEF Texts
  <2>3. CASE ~(n \in DOMAIN read /\ read[n].active) BY <1>1, <1>3, <2>1, <2>3
  <2> QED BY <2>2, <2>3
<1>5. f \in [1 .. Len(rows) -> Texts] BY <1>3, <1>4
<1> QED BY <1>1, <1>2, <1>4, <1>5, FunctionIsSeq

LEMMA TermsCommits ==
  ASSUME TermsInv, NEW h \in Handlers, Terms!CommitEdit(h)
  PROVE  TermsInv'
<1> USE MaxTextsIsNat
<1>1. PICK d : d = publisher[h] OBVIOUS
<1>2. /\ d.st \in {"publish", "restore"} /\ (d.st = "publish" => Len(texts) < MaxTexts)
      /\ texts' = IF d.st = "restore" THEN Terms!Without(texts, d.read)
                  ELSE Append(Terms!Without(texts, d.read),
                              [version |-> Terms!NextVersion(d.read), active |-> TRUE])
      /\ publisher' = [publisher EXCEPT ![h] = Terms!Idle]
      /\ republished' = (republished \/ texts # d.read)
      /\ UNCHANGED <<accepted, passed>>
  BY <1>1 DEF Terms!CommitEdit
<1>3. /\ texts \in Seq(Texts) /\ Len(texts) \in Nat /\ DOMAIN texts = 1 .. Len(texts)
      /\ d.read \in Seq(Texts) /\ Len(d.read) \in Nat /\ Len(d.read) <= Len(texts)
  BY <1>1, <1>2, SeqFacts DEF TermsInv
<1>4. PICK w : w = Terms!Without(texts, d.read) OBVIOUS
<1>5. /\ w \in Seq(Texts) /\ Len(w) = Len(texts) /\ DOMAIN w = 1 .. Len(texts)
      /\ \A n \in 1 .. Len(texts) : w[n].version = texts[n].version
      /\ d.read = texts => \A n \in 1 .. Len(texts) : ~w[n].active
  BY <1>3, <1>4, WithoutFacts, SeqFacts
<1>6. /\ texts' \in Seq(Texts) /\ Len(texts') <= MaxTexts /\ Len(texts) <= Len(texts')
      /\ DOMAIN texts' = 1 .. Len(texts') /\ Len(texts') \in Nat
      /\ ~republished' =>
           /\ \A n \in DOMAIN texts' : texts'[n].version = n
           /\ \A m, n \in DOMAIN texts' : texts'[m].active /\ texts'[n].active => m = n
  <2>1. CASE d.st = "restore"
    <3>1. texts' = w BY <1>2, <1>4, <2>1
    <3>2. ~republished' => d.read = texts /\ ~republished BY <1>2
    <3> QED BY <1>3, <1>5, <3>1, <3>2 DEF TermsInv
  <2>2. CASE d.st = "publish"
    <3>1. PICK x : x = [version |-> Len(d.read) + 1, active |-> TRUE] OBVIOUS
    <3>2. texts' = Append(w, x) BY <1>2, <1>4, <2>2, <3>1 DEF Terms!NextVersion
    <3>3. x \in Texts /\ x.version = Len(d.read) + 1 BY <1>2, <1>3, <2>2, <3>1 DEF Texts
    <3>4. /\ texts' \in Seq(Texts) /\ Len(texts') = Len(texts) + 1
          /\ DOMAIN texts' = 1 .. Len(texts) + 1 /\ texts'[Len(texts) + 1] = x
          /\ \A n \in 1 .. Len(texts) : texts'[n] = w[n]
      BY <1>5, <3>2, <3>3, AppendFacts
    <3>5. ~republished' => d.read = texts /\ ~republished BY <1>2
    <3>6. ~republished' => \A n \in DOMAIN texts' : texts'[n].version = n
      <4>1. ASSUME ~republished', NEW n \in DOMAIN texts' PROVE texts'[n].version = n
        <5>1. CASE n = Len(texts) + 1 BY <3>3, <3>4, <3>5, <4>1, <5>1
        <5>2. CASE n # Len(texts) + 1
          <6>1. n \in 1 .. Len(texts) BY <1>3, <3>4, <4>1, <5>2
          <6> QED BY <1>3, <1>5, <3>4, <3>5, <4>1, <6>1 DEF TermsInv
        <5> QED BY <5>1, <5>2
      <4> QED BY <4>1
    <3>7. ~republished' => \A n \in DOMAIN texts' : texts'[n].active => n = Len(texts) + 1
      <4>1. ASSUME ~republished', NEW n \in DOMAIN texts', n # Len(texts) + 1 PROVE ~texts'[n].active
        <5>1. n \in 1 .. Len(texts) BY <1>3, <3>4, <4>1
        <5> QED BY <1>5, <3>4, <3>5, <4>1, <5>1
      <4> QED BY <4>1
    <3> QED BY <1>2, <1>3, <2>2, <3>4, <3>6, <3>7
  <2> QED BY <1>2, <2>1, <2>2
<1>7. \A a : Acceptable(a) => Acceptable(a)' BY <1>3, <1>6 DEF Acceptable
<1>8. ASSUME NEW g \in Handlers
      PROVE  /\ publisher'[g].st \in {"publish", "restore"} =>
                  publisher'[g].read \in Seq(Texts) /\ Len(publisher'[g].read) <= Len(texts')
             /\ publisher'[g].st = "accept" => Acceptable(publisher[g].of)'
             /\ ~republished' => (publisher'[g].st = "accept" => Telling(publisher[g].of)')
  <2>1. CASE g = h BY <1>2, <2>1 DEF TermsInv, Terms!Idle
  <2>2. CASE g # h
    <3>1. publisher'[g] = publisher[g] BY <1>2, <2>2 DEF TermsInv
    <3>2. publisher[g].st \in {"publish", "restore"} => Len(publisher[g].read) \in Nat
      BY SeqFacts DEF TermsInv
    <3>3. PICK r : r = publisher[g] OBVIOUS
    <3>4. r.st = "accept" => Acceptable(r.of)' BY <1>7, <3>3 DEF TermsInv
    <3>5. ~republished' => (r.st = "accept" => Telling(r.of)) BY <1>2, <3>3 DEF TermsInv
    <3>6. r.st \in {"publish", "restore"} => r.read \in Seq(Texts) /\ Len(r.read) <= Len(texts')
      BY <1>3, <1>6, <3>2, <3>3 DEF TermsInv
    <3> QED BY <3>1, <3>3, <3>4, <3>5, <3>6 DEF Telling
  <2> QED BY <2>1, <2>2
<1>9. Acceptable(accepted)' /\ (~republished' => Telling(accepted)' /\ passed'.held = passed'.due)
  BY <1>2, <1>7 DEF TermsInv, Telling, Acceptable
<1> QED BY <1>2, <1>6, <1>8, <1>9 DEF TermsInv

LEMMA TermsNext ==
  ASSUME TermsInv, [Terms!Next]_OfTerms
  PROVE  TermsInv'
<1>1. CASE UNCHANGED OfTerms BY <1>1 DEF OfTerms, TermsInv, Acceptable, Telling
<1>2. CASE Terms!Pass
  <2>1. PICK t \in Terms!InForce : /\ accepted.version = t.version
                                   /\ passed' = [held |-> accepted.text, due |-> t.text]
                                   /\ UNCHANGED <<texts, accepted, publisher, republished>>
    BY <1>2 DEF Terms!Pass
  <2>2. ~republished => accepted.text = t.text
    <3>1. ~republished => t.version = t.text /\ t.version \in 0 .. MaxTexts BY InForceFacts
    <3>2. ~republished => accepted.version = accepted.text \/ accepted.version = MaxTexts + 1
      BY DEF TermsInv, Telling
    <3> QED BY <2>1, <3>1, <3>2, MaxTextsIsNat
  <2> QED BY <2>1, <2>2 DEF TermsInv, Acceptable, Telling
<1> QED BY <1>1, <1>2, TermsRequests, TermsCommits DEF Terms!Next

LEMMA TermsFollows ==
  ASSUME TermsInv
  PROVE  Terms!TypeOK /\ Terms!TermsWereAccepted
<1>1. Terms!TypeOK
  <2>1. Len(texts) \in Nat /\ \A n \in DOMAIN texts : texts[n] \in Texts
    BY SeqFacts DEF TermsInv
  <2>2. accepted.version \in 0 .. MaxTexts + 1 /\ accepted.text \in 0 .. Len(texts)
    BY <2>1 DEF TermsInv, Acceptable
  <2> QED BY <2>1, <2>2 DEF TermsInv, Terms!TypeOK, Texts
<1>2. ASSUME ~republished PROVE Cardinality(Terms!Active) <= 1
  <2>1. CASE Terms!Active = {} BY <2>1, FS_EmptySet
  <2>2. CASE Terms!Active # {}
    <3>1. PICK n : n \in Terms!Active BY <2>2
    <3>2. \A m \in Terms!Active : m = n BY <1>2, <3>1 DEF TermsInv, Terms!Active
    <3>3. Terms!Active = {n} BY <3>1, <3>2
    <3>4. Cardinality({n}) = 1 BY FS_Singleton
    <3> QED BY <3>3, <3>4
  <2> QED BY <2>1, <2>2
<1>3. Terms!Cardinality(Terms!Active) = Cardinality(Terms!Active)
  BY DEF Terms!Cardinality, Cardinality, Terms!IsFiniteSet, IsFiniteSet
<1> QED BY <1>1, <1>2, <1>3 DEF TermsInv, Terms!TermsWereAccepted

----------------------------------------------------------------------------
(* Accounts *)

User == [pw : Nat \ {0}, old : BOOLEAN, ver : 0 .. MaxVersion]
Code == [used : BOOLEAN, attempts : 0 .. MaxAttempts]

\* A request in flight goes by the row of the user as it is, unless it is marked as late;
\* one that revokes read a version that can grow, and a code guessed is one that was mailed.
CallFits(c) ==
  c # Account!Hung =>
    /\ c \in [op : {"rehash", "change", "logout"}, row : User, late : BOOLEAN] \cup
             [op : {"reset", "wrong"}, row : User, late : BOOLEAN, code : Nat,
              tries : 1 .. MaxAttempts]
    /\ ~c.late => c.row = user
    /\ c.op # "rehash" => c.row.ver < MaxVersion
    /\ c.op \in {"reset", "wrong"} => c.code \in DOMAIN codes

\* A session of the version in force is as old as the last revocation.
SessionFits(s) == /\ s.ver <= user.ver /\ s.past <= log.revoked
                  /\ s.ver = user.ver => s.past = log.revoked

\* Codes mailed and resets: a code that may still be used is one more than the resets.
CodesFit == /\ log.by <= Len(codes)
            /\ \A i \in DOMAIN codes : ~codes[i].used => log.by < i
            /\ \A h \in Handlers : call[h].op = "reset" /\ ~call[h].late => log.by < call[h].code

AccountInv ==
  /\ user \in User /\ codes \in Seq(Code) /\ sessions \subseteq [ver : 0 .. MaxVersion, past : Nat]
  /\ log \in [set : Nat, revoked : Nat, by : Nat, crossed : BOOLEAN]
  /\ DOMAIN call = Handlers /\ \A h \in Handlers : CallFits(call[h])
  /\ \A i \in DOMAIN codes : ~codes[i].used => i = Len(codes) /\ codes[i].attempts < MaxAttempts
  /\ ~log.crossed => CodesFit /\ \A s \in sessions : SessionFits(s)

LEMMA AccountNats == MaxVersion \in Nat /\ MaxAttempts \in Nat \ {0}
BY AccountParameters DEF Account!ParametersAssumption

LEMMA AccountTypes ==
  ASSUME AccountInv
  PROVE  /\ user.pw \in Nat \ {0} /\ user.old \in BOOLEAN /\ user.ver \in 0 .. MaxVersion
         /\ Len(codes) \in Nat /\ DOMAIN codes = 1 .. Len(codes)
         /\ \A i \in DOMAIN codes : codes[i] \in Code
         /\ log.set \in Nat /\ log.revoked \in Nat /\ log.by \in Nat /\ log.crossed \in BOOLEAN
         /\ \A s \in sessions : s.ver \in 0 .. MaxVersion /\ s.past \in Nat
BY SeqFacts DEF AccountInv, User

LEMMA AccountInit == ASSUME Account!Init PROVE AccountInv
<1> USE AccountNats DEF Account!Init
<1>1. user \in User BY DEF User
<1>2. codes \in Seq(Code) /\ DOMAIN codes = {} /\ Len(codes) = 0 OBVIOUS
<1>3. \A h \in Handlers : call[h] = Account!Hung /\ call[h].op = "idle" BY DEF Account!Hung
<1>4. CodesFit BY <1>2, <1>3 DEF CodesFit
<1> QED BY <1>1, <1>2, <1>3, <1>4 DEF AccountInv, CallFits

\* Sessions issued of the row in force fit.
LEMMA AccountIssues ==
  ASSUME AccountInv, sessions' = Account!Issued(user.ver), UNCHANGED <<user, codes, log, call>>
  PROVE  AccountInv'
<1>1. sessions' = sessions \cup {[ver |-> user.ver, past |-> log.revoked]} BY DEF Account!Issued
<1>2. sessions' \subseteq [ver : 0 .. MaxVersion, past : Nat]
  BY <1>1, AccountTypes DEF AccountInv
<1>3. ~log.crossed => \A s \in sessions' : SessionFits(s)'
  <2> SUFFICES ASSUME ~log.crossed, NEW s \in sessions' PROVE SessionFits(s)' OBVIOUS
  <2>1. CASE s \in sessions
    <3>1. SessionFits(s) BY <2>1 DEF AccountInv
    <3> QED BY <3>1 DEF SessionFits
  <2>2. CASE s = [ver |-> user.ver, past |-> log.revoked]
    BY <2>2, AccountTypes DEF SessionFits
  <2> QED BY <1>1, <2>1, <2>2
<1> QED BY <1>2, <1>3 DEF AccountInv, CallFits, CodesFit, SessionFits

LEMMA AccountMails == ASSUME AccountInv, Account!Forgot PROVE AccountInv'
<1> USE AccountNats
<1>1. PICK old : old = [i \in DOMAIN codes |-> [codes[i] EXCEPT !.used = TRUE]] OBVIOUS
<1>2. PICK new : new = [used |-> FALSE, attempts |-> 0] OBVIOUS
<1>3. codes' = Append(old, new) /\ UNCHANGED <<user, sessions, log, call>>
  BY <1>1, <1>2 DEF Account!Forgot
<1>4. old \in [1 .. Len(codes) -> Code] /\ \A i \in DOMAIN codes : old[i].used = TRUE
  <2>1. ASSUME NEW i \in DOMAIN codes PROVE old[i] \in Code /\ old[i].used = TRUE
    <3>1. codes[i] \in Code BY AccountTypes
    <3>2. old[i] = [codes[i] EXCEPT !.used = TRUE] BY <1>1
    <3> QED BY <3>1, <3>2 DEF Code
  <2> QED BY <1>1, <2>1, AccountTypes
<1>5. old \in Seq(Code) /\ Len(old) = Len(codes) /\ DOMAIN old = DOMAIN codes
  BY <1>4, AccountTypes, FunctionIsSeq
<1>6. new \in Code /\ new.used = FALSE /\ new.attempts = 0 BY <1>2 DEF Code
<1>7. /\ codes' \in Seq(Code) /\ Len(codes') = Len(codes) + 1 /\ DOMAIN codes' = 1 .. Len(codes) + 1
      /\ codes'[Len(codes) + 1] = new /\ \A i \in DOMAIN codes : codes'[i].used = TRUE
  BY <1>3, <1>4, <1>5, <1>6, AppendFacts
<1>8. \A i \in DOMAIN codes' : ~codes'[i].used => i = Len(codes') /\ codes'[i].attempts < MaxAttempts
  BY <1>6, <1>7, AccountTypes
<1>9. ~log.crossed => CodesFit'
  <2> SUFFICES ASSUME ~log.crossed PROVE CodesFit' OBVIOUS
  <2>1. CodesFit BY DEF AccountInv
  <2>2. log.by <= Len(codes') /\ \A i \in DOMAIN codes' : ~codes'[i].used => log.by < i
    BY <1>7, <1>8, <2>1, AccountTypes DEF CodesFit
  <2> QED BY <1>3, <2>1, <2>2 DEF CodesFit
<1>10. \A h \in Handlers : CallFits(call[h])'
  <2>1. DOMAIN codes \subseteq DOMAIN codes' BY <1>7, AccountTypes
  <2> QED BY <1>3, <2>1 DEF AccountInv, CallFits
<1> QED BY <1>3, <1>7, <1>8, <1>9, <1>10 DEF AccountInv, SessionFits

\* A request that comes in.
LEMMA AccountHolds ==
  ASSUME AccountInv, NEW h \in Handlers, NEW c, call' = [call EXCEPT ![h] = c],
         CallFits(c), ~log.crossed /\ c.op = "reset" => log.by < c.code,
         UNCHANGED <<user, codes, sessions, log>>
  PROVE  AccountInv'
<1>1. call'[h] = c /\ DOMAIN call' = Handlers /\ \A g \in Handlers \ {h} : call'[g] = call[g]
  BY DEF AccountInv
<1>2. \A g \in Handlers : CallFits(call[g])'
  BY <1>1 DEF AccountInv, CallFits
<1>3. ~log.crossed => CodesFit' BY <1>1 DEF AccountInv, CodesFit
<1> QED BY <1>1, <1>2, <1>3 DEF AccountInv, SessionFits

LEMMA AccountReads ==
  ASSUME AccountInv, NEW h \in Handlers,
         Account!LoginAnew(h) \/ Account!Change(h) \/ Account!Logout(h)
  PROVE  AccountInv'
<1>1. PICK op \in {"rehash", "change", "logout"} :
        /\ call' = [call EXCEPT ![h] = [op |-> op, row |-> user, late |-> FALSE]]
        /\ UNCHANGED <<user, codes, sessions, log>>
        /\ op # "rehash" => user.ver < MaxVersion
  BY DEF Account!LoginAnew, Account!Change, Account!Logout, Account!Reads, Account!Holding
<1>2. PICK c : c = [op |-> op, row |-> user, late |-> FALSE] OBVIOUS
<1>3. CallFits(c) /\ c.op # "reset" BY <1>1, <1>2 DEF CallFits, AccountInv
<1> QED BY <1>1, <1>2, <1>3, AccountHolds

LEMMA AccountGuesses ==
  ASSUME AccountInv, NEW h \in Handlers, NEW right \in BOOLEAN, Account!Reset(h, right)
  PROVE  AccountInv'
<1> USE AccountNats
<1>1. PICK i : i = CHOOSE j \in Account!Open : \A k \in Account!Open : k <= j OBVIOUS
<1>2. PICK op : op = IF right THEN "reset" ELSE "wrong" OBVIOUS
<1>3. PICK c : c = [op |-> op, row |-> user, late |-> FALSE, code |-> i, tries |-> codes[i].attempts + 1]
  OBVIOUS
<1>4. /\ call' = [call EXCEPT ![h] = c] /\ UNCHANGED <<user, codes, sessions, log>>
      /\ Account!Open # {} /\ user.ver < MaxVersion
  BY <1>1, <1>2, <1>3 DEF Account!Reset, Account!Holding
<1>5. \A j \in Account!Open : j = Len(codes) /\ j \in DOMAIN codes BY DEF Account!Open, AccountInv
<1>6. i \in Account!Open /\ i \in DOMAIN codes /\ i \in Nat
  <2>1. \E j \in Account!Open : \A k \in Account!Open : k <= j BY <1>4, <1>5, AccountTypes
  <2>2. i \in Account!Open BY <1>1, <2>1
  <2> QED BY <1>5, <2>2, AccountTypes
<1>7. codes[i].attempts + 1 \in 1 .. MaxAttempts /\ ~codes[i].used
  <2>1. codes[i] \in Code BY <1>6, AccountTypes
  <2>2. ~codes[i].used BY <1>6 DEF Account!Open
  <2> QED BY <1>6, <2>1, <2>2 DEF AccountInv, Code
<1>8. CallFits(c)
  <2>1. c \in [op : {"reset", "wrong"}, row : User, late : BOOLEAN, code : Nat, tries : 1 .. MaxAttempts]
    BY <1>2, <1>3, <1>6, <1>7 DEF AccountInv
  <2>2. c.row = user /\ c.code = i BY <1>3
  <2> QED BY <1>4, <1>6, <2>1, <2>2 DEF CallFits
<1>9. ~log.crossed /\ c.op = "reset" => log.by < c.code
  BY <1>3, <1>6, <1>7 DEF AccountInv, CodesFit
<1> QED BY <1>4, <1>8, <1>9, AccountHolds

\* Whoever works on when another one commits is late.
LEMMA AccountLate ==
  ASSUME AccountInv, NEW h \in Handlers, Account!Commits(h), DOMAIN codes' = DOMAIN codes
  PROVE  /\ DOMAIN call' = Handlers
         /\ \A g \in Handlers : CallFits(call[g])' /\ (call'[g].op = "idle" \/ call'[g].late = TRUE)
<1>1. DOMAIN call' = Handlers BY DEF Account!Commits
<1>2. ASSUME NEW g \in Handlers
      PROVE  CallFits(call[g])' /\ (call'[g].op = "idle" \/ call'[g].late = TRUE)
  <2>1. CASE g = h \/ call[g] = Account!Hung
    <3>1. call'[g] = Account!Hung BY <2>1 DEF Account!Commits
    <3> QED BY <3>1 DEF CallFits, Account!Hung
  <2>2. CASE ~(g = h \/ call[g] = Account!Hung)
    <3>1. PICK c : c = call[g] OBVIOUS
    <3>2. PICK d : d = [c EXCEPT !.late = TRUE] OBVIOUS
    <3>3. call'[g] = d BY <2>2, <3>1, <3>2 DEF Account!Commits
    <3>4. /\ c \in [op : {"rehash", "change", "logout"}, row : User, late : BOOLEAN] \cup
                   [op : {"reset", "wrong"}, row : User, late : BOOLEAN, code : Nat,
                    tries : 1 .. MaxAttempts]
          /\ c.op # "rehash" => c.row.ver < MaxVersion
          /\ c.op \in {"reset", "wrong"} => c.code \in DOMAIN codes
      BY <2>2, <3>1 DEF AccountInv, CallFits
    <3>5. CASE c \in [op : {"rehash", "change", "logout"}, row : User, late : BOOLEAN]
      <4>1. d \in [op : {"rehash", "change", "logout"}, row : User, late : BOOLEAN]
            /\ d.late = TRUE /\ d.op = c.op /\ d.row = c.row
        BY <3>2, <3>5
      <4> QED BY <3>3, <3>4, <4>1 DEF CallFits
    <3>6. CASE c \in [op : {"reset", "wrong"}, row : User, late : BOOLEAN, code : Nat,
                      tries : 1 .. MaxAttempts]
      <4>1. d \in [op : {"reset", "wrong"}, row : User, late : BOOLEAN, code : Nat,
                   tries : 1 .. MaxAttempts]
            /\ d.late = TRUE /\ d.op = c.op /\ d.row = c.row /\ d.code = c.code
        BY <3>2, <3>6
      <4> QED BY <3>3, <3>4, <4>1 DEF CallFits, User
    <3> QED BY <3>4, <3>5, <3>6
  <2> QED BY <2>1, <2>2
<1> QED BY <1>1, <1>2

LEMMA AccountRehashes == ASSUME AccountInv, NEW h \in Handlers, Account!Rehash(h) PROVE AccountInv'
<1>1. PICK c : c = call[h] OBVIOUS
<1>2. /\ c.op = "rehash" /\ user' = [user EXCEPT !.pw = c.row.pw, !.old = FALSE]
      /\ sessions' = sessions \cup {[ver |-> user.ver, past |-> log.revoked]}
      /\ log' = [log EXCEPT !.crossed = @ \/ c.late] /\ Account!Commits(h) /\ codes' = codes
  BY <1>1 DEF Account!Rehash, Account!Issued
<1>3. c.row \in User /\ c.late \in BOOLEAN BY <1>1, <1>2 DEF AccountInv, CallFits, Account!Hung
<1>4. user' \in User /\ user'.ver = user.ver BY <1>2, <1>3 DEF AccountInv, User
<1>5. /\ log' \in [set : Nat, revoked : Nat, by : Nat, crossed : BOOLEAN]
      /\ log'.by = log.by /\ log'.revoked = log.revoked /\ (~log'.crossed => ~log.crossed)
  <2>1. PICK b \in BOOLEAN : b = (log.crossed \/ c.late) BY <1>3, AccountTypes
  <2>2. log' = [log EXCEPT !.crossed = b] BY <1>2, <2>1
  <2> QED BY <2>1, <2>2 DEF AccountInv
<1>6. sessions' \subseteq [ver : 0 .. MaxVersion, past : Nat]
  BY <1>2, AccountTypes DEF AccountInv
<1>7. ~log'.crossed => \A s \in sessions' : SessionFits(s)'
  <2> SUFFICES ASSUME ~log'.crossed, NEW s \in sessions' PROVE SessionFits(s)' OBVIOUS
  <2>1. CASE s \in sessions
    <3>1. SessionFits(s) BY <1>5, <2>1 DEF AccountInv
    <3> QED BY <1>4, <1>5, <3>1 DEF SessionFits
  <2>2. CASE s = [ver |-> user.ver, past |-> log.revoked]
    BY <1>4, <1>5, <2>2, AccountTypes DEF SessionFits
  <2> QED BY <1>2, <2>1, <2>2
<1>8. DOMAIN codes' = DOMAIN codes BY <1>2
<1>9. /\ DOMAIN call' = Handlers
      /\ \A g \in Handlers : CallFits(call[g])' /\ (call'[g].op = "idle" \/ call'[g].late = TRUE)
  BY <1>2, <1>8, AccountLate
<1>10. ~log'.crossed => CodesFit'
  BY <1>2, <1>5, <1>9 DEF AccountInv, CodesFit
<1> QED BY <1>2, <1>4, <1>5, <1>6, <1>7, <1>9, <1>10 DEF AccountInv

\* What a code guessed leaves: as many codes, none that was used open again.
LEMMA AccountCounts ==
  ASSUME AccountInv, NEW h \in Handlers, call[h].op \in {"reset", "wrong"}, Account!Counted(h)
  PROVE  /\ codes' \in Seq(Code) /\ Len(codes') = Len(codes) /\ DOMAIN codes' = DOMAIN codes
         /\ \A i \in DOMAIN codes : ~codes'[i].used => ~codes[i].used /\ codes'[i].attempts < MaxAttempts
         /\ call[h].op = "reset" => codes'[call[h].code].used
<1> USE AccountNats
<1>1. PICK c : c = call[h] OBVIOUS
<1>2. /\ c \in [op : {"reset", "wrong"}, row : User, late : BOOLEAN, code : Nat, tries : 1 .. MaxAttempts]
      /\ c.code \in DOMAIN codes
  BY <1>1 DEF AccountInv, CallFits, Account!Hung
<1>3. PICK i : i = c.code OBVIOUS
<1>4. PICK old : old = codes[i] OBVIOUS
<1>5. old \in Code BY <1>2, <1>3, <1>4, AccountTypes
<1>6. PICK b \in BOOLEAN : b = (old.used \/ c.op = "reset" \/ c.tries >= MaxAttempts)
  BY <1>5 DEF Code
<1>7. PICK new : new = [used |-> b, attempts |-> c.tries] OBVIOUS
<1>8. codes' = [codes EXCEPT ![i] = new]
  BY <1>1, <1>3, <1>4, <1>6, <1>7 DEF Account!Counted, Account!Spent
<1>9. new \in Code /\ new.used = b /\ new.attempts = c.tries BY <1>2, <1>7 DEF Code
<1>10. /\ codes' \in Seq(Code) /\ Len(codes') = Len(codes) /\ DOMAIN codes' = DOMAIN codes
       /\ codes'[i] = new /\ \A j \in DOMAIN codes \ {i} : codes'[j] = codes[j]
  BY <1>2, <1>3, <1>8, <1>9, SeqFacts, FunctionIsSeq DEF AccountInv
<1>11. ~new.used => ~old.used /\ new.attempts < MaxAttempts
  <2>1. ~new.used => ~old.used /\ ~(c.tries >= MaxAttempts) BY <1>6, <1>9, Zenon
  <2> QED BY <1>2, <1>9, <2>1
<1>12. c.op = "reset" => new.used BY <1>6, <1>9
<1> QED BY <1>1, <1>3, <1>4, <1>10, <1>11, <1>12 DEF AccountInv

LEMMA AccountErrs == ASSUME AccountInv, NEW h \in Handlers, Account!WrongCode(h) PROVE AccountInv'
<1>1. /\ call[h].op = "wrong" /\ Account!Counted(h)
      /\ call' = [call EXCEPT ![h] = Account!Hung] /\ UNCHANGED <<user, sessions, log>>
  BY DEF Account!WrongCode, Account!Holding
<1>2. /\ codes' \in Seq(Code) /\ Len(codes') = Len(codes) /\ DOMAIN codes' = DOMAIN codes
      /\ \A i \in DOMAIN codes : ~codes'[i].used => ~codes[i].used /\ codes'[i].attempts < MaxAttempts
  BY <1>1, AccountCounts
<1>3. /\ DOMAIN call' = Handlers /\ call'[h] = Account!Hung /\ call'[h].op = "idle"
      /\ \A g \in Handlers \ {h} : call'[g] = call[g]
  BY <1>1 DEF AccountInv, Account!Hung
<1>4. \A g \in Handlers : CallFits(call[g])' BY <1>1, <1>2, <1>3 DEF AccountInv, CallFits
<1>5. ~log.crossed => CodesFit' BY <1>1, <1>2, <1>3 DEF AccountInv, CodesFit
<1>6. \A i \in DOMAIN codes' : ~codes'[i].used => i = Len(codes') /\ codes'[i].attempts < MaxAttempts
  BY <1>2 DEF AccountInv
<1> QED BY <1>1, <1>2, <1>3, <1>4, <1>5, <1>6 DEF AccountInv, SessionFits

\* A revocation ends the sessions issued before it.
LEMMA AccountRevokes ==
  ASSUME AccountInv, NEW h \in Handlers, NEW op \in {"change", "logout", "reset"},
         Account!Revoke(h, op)
  PROVE  /\ user' \in User /\ log' \in [set : Nat, revoked : Nat, by : Nat, crossed : BOOLEAN]
         /\ sessions' = sessions
         /\ ~log'.crossed => /\ ~log.crossed /\ ~call[h].late
                             /\ \A s \in sessions' : SessionFits(s)'
         /\ log'.by = log.by + (IF op = "reset" THEN 1 ELSE 0)
<1> USE AccountNats
<1>1. PICK c : c = call[h] OBVIOUS
<1>2. /\ c.op = op
      /\ log' = [set     |-> log.set + (IF op = "logout" THEN 0 ELSE 1),
                 revoked |-> log.revoked + 1,
                 by      |-> log.by + (IF op = "reset" THEN 1 ELSE 0),
                 crossed |-> log.crossed \/ c.late]
      /\ user' = IF op = "logout" THEN [user EXCEPT !.ver = c.row.ver + 1]
                 ELSE [pw |-> log.set + 1, old |-> FALSE, ver |-> c.row.ver + 1]
      /\ sessions' = sessions
  BY <1>1 DEF Account!Revoke, Account!Bumped
<1>3. c.row \in User /\ c.late \in BOOLEAN /\ (~c.late => c.row = user) /\ c.row.ver + 1 \in 0 .. MaxVersion
  BY <1>1, <1>2 DEF AccountInv, CallFits, Account!Hung, User
<1>4. user' \in User /\ user'.ver = c.row.ver + 1
  <2>1. CASE op = "logout"
    <3>1. user' = [user EXCEPT !.ver = c.row.ver + 1] BY <1>2, <2>1
    <3> QED BY <1>3, <3>1 DEF AccountInv, User
  <2>2. CASE op # "logout"
    <3>1. user' = [pw |-> log.set + 1, old |-> FALSE, ver |-> c.row.ver + 1] BY <1>2, <2>2
    <3> QED BY <1>3, <3>1, AccountTypes DEF User
  <2> QED BY <2>1, <2>2
<1>5. PICK b \in BOOLEAN : b = (log.crossed \/ c.late) BY <1>3, AccountTypes
<1>6. PICK k \in Nat : k = log.by + (IF op = "reset" THEN 1 ELSE 0) BY AccountTypes
<1>7. PICK m \in Nat : m = log.set + (IF op = "logout" THEN 0 ELSE 1) BY AccountTypes
<1>8. log' = [set |-> m, revoked |-> log.revoked + 1, by |-> k, crossed |-> b]
  BY <1>2, <1>5, <1>6, <1>7
<1>9. /\ log' \in [set : Nat, revoked : Nat, by : Nat, crossed : BOOLEAN]
      /\ log'.by = k /\ log'.revoked = log.revoked + 1 /\ log'.crossed = b
  BY <1>8, AccountTypes
<1>10. ~log'.crossed => \A s \in sessions' : SessionFits(s)'
  <2> SUFFICES ASSUME ~log'.crossed, NEW s \in sessions' PROVE SessionFits(s)' OBVIOUS
  <2>1. SessionFits(s) /\ c.row = user BY <1>2, <1>3, <1>5, <1>9 DEF AccountInv
  <2>2. s.ver \in 0 .. MaxVersion /\ s.past \in Nat BY <1>2, AccountTypes
  <2> QED BY <1>4, <1>9, <2>1, <2>2, AccountTypes DEF SessionFits
<1> QED BY <1>1, <1>2, <1>4, <1>5, <1>6, <1>9, <1>10

LEMMA AccountCommits ==
  ASSUME AccountInv, NEW h \in Handlers,
         Account!CommitChange(h) \/ Account!CommitLogout(h) \/ Account!CommitReset(h)
  PROVE  AccountInv'
<1>1. PICK op \in {"change", "logout", "reset"} :
        /\ Account!Revoke(h, op)
        /\ op = "reset" => Account!Counted(h)
        /\ op # "reset" => codes' = codes
  BY DEF Account!CommitChange, Account!CommitLogout, Account!CommitReset
<1>2. call[h].op = op /\ Account!Commits(h) BY <1>1 DEF Account!Revoke
<1>3. /\ codes' \in Seq(Code) /\ Len(codes') = Len(codes) /\ DOMAIN codes' = DOMAIN codes
      /\ \A i \in DOMAIN codes : ~codes'[i].used => ~codes[i].used /\ codes'[i].attempts < MaxAttempts
      /\ op = "reset" => codes'[call[h].code].used
  <2>1. CASE op = "reset" BY <1>1, <1>2, <2>1, AccountCounts
  <2>2. CASE op # "reset" BY <1>1, <2>2 DEF AccountInv
  <2> QED BY <2>1, <2>2
<1>4. /\ user' \in User /\ log' \in [set : Nat, revoked : Nat, by : Nat, crossed : BOOLEAN]
      /\ sessions' = sessions
      /\ ~log'.crossed => ~log.crossed /\ ~call[h].late /\ \A s \in sessions' : SessionFits(s)'
      /\ log'.by = log.by + (IF op = "reset" THEN 1 ELSE 0)
  BY <1>1, AccountRevokes
<1>5. /\ DOMAIN call' = Handlers
      /\ \A g \in Handlers : CallFits(call[g])' /\ (call'[g].op = "idle" \/ call'[g].late = TRUE)
  BY <1>2, <1>3, AccountLate
<1>6. \A i \in DOMAIN codes' : ~codes'[i].used => i = Len(codes') /\ codes'[i].attempts < MaxAttempts
  BY <1>3 DEF AccountInv
<1>7. ~log'.crossed => CodesFit'
  <2> SUFFICES ASSUME ~log'.crossed PROVE CodesFit' OBVIOUS
  <2>1. CodesFit /\ ~call[h].late BY <1>4 DEF AccountInv
  <2>2. log.by \in Nat /\ Len(codes) \in Nat /\ DOMAIN codes = 1 .. Len(codes) BY AccountTypes
  <2>3. CASE op = "reset"
    <3>1. log'.by = log.by + 1 BY <1>4, <2>3
    <3>2. call[h].code \in DOMAIN codes
      BY <1>2, <2>3 DEF AccountInv, CallFits, Account!Hung
    <3>3. log.by < call[h].code BY <1>2, <2>1, <2>3 DEF CodesFit
    <3>4. log'.by <= call[h].code /\ call[h].code <= Len(codes) /\ call[h].code \in Nat
      BY <2>2, <3>1, <3>2, <3>3
    <3>5. \A i \in DOMAIN codes' : ~codes'[i].used => log'.by < i
      <4>1. ASSUME NEW i \in DOMAIN codes', ~codes'[i].used PROVE log'.by < i
        <5>1. i = Len(codes) /\ i # call[h].code BY <1>3, <1>6, <2>3, <4>1
        <5> QED BY <2>2, <3>1, <3>4, <5>1
      <4> QED BY <4>1
    <3> QED BY <1>3, <1>5, <2>2, <3>1, <3>4, <3>5 DEF CodesFit
  <2>4. CASE op # "reset"
    <3>1. log'.by = log.by BY <1>4, <2>2, <2>4
    <3> QED BY <1>3, <1>5, <2>1, <3>1 DEF CodesFit
  <2> QED BY <2>3, <2>4
<1>8. sessions' \subseteq [ver : 0 .. MaxVersion, past : Nat] BY <1>4 DEF AccountInv
<1> QED BY <1>3, <1>4, <1>5, <1>6, <1>7, <1>8 DEF AccountInv

LEMMA AccountNext ==
  ASSUME AccountInv, [Account!Next]_OfAccount
  PROVE  AccountInv'
<1>1. CASE UNCHANGED OfAccount
  BY <1>1 DEF OfAccount, AccountInv, CallFits, CodesFit, SessionFits
<1>2. CASE Account!Login \/ Account!Refresh
  <2>1. sessions' = Account!Issued(user.ver) /\ UNCHANGED <<user, codes, log, call>>
    BY <1>2 DEF Account!Login, Account!Refresh
  <2> QED BY <2>1, AccountIssues
<1> QED
  BY <1>1, <1>2, AccountMails, AccountReads, AccountGuesses, AccountRehashes, AccountErrs,
     AccountCommits DEF Account!Next

LEMMA AccountFollows ==
  ASSUME AccountInv
  PROVE  Account!TypeOK /\ Account!OldSecretsFail
<1>1. Account!TypeOK BY AccountTypes DEF Account!TypeOK, Code
<1> QED BY <1>1 DEF AccountInv, SessionFits, CodesFit, Account!OldSecretsFail,
                    Account!SessionsEnd, Account!CodeWorksOnce, Account!Valid

----------------------------------------------------------------------------
(* TenantPlans *)

Percents == {0} \cup {Tenant!Default(p) : p \in Tenant!Plans} \cup Deals
Rates == [percent : Percents, custom : BOOLEAN, raced : BOOLEAN]

Adds       == [op : {"add"}, kind : Kinds, open : BOOLEAN, stale : BOOLEAN]
Changes    == [op : {"change"}, to : Tenant!Plans, read : Rates, stale : BOOLEAN]
Dealings   == [op : {"deal"}, to : Deals, read : Rates, stale : BOOLEAN]
Subscribes == [op : {"subscribe"}, sub : Subs, stale : BOOLEAN]
Sweeps     == [op : {"sweep"}, subs : SUBSET Subs, read : Rates, stale : BOOLEAN]
Tickets    == Adds \cup Changes \cup Dealings \cup Subscribes \cup Sweeps

TenantTypes ==
  /\ plan \in Tenant!Plans \cup {"none"} /\ moved \in BOOLEAN
  /\ trial \in [end : {"none", "ahead", "past"}, stamped : BOOLEAN]
  /\ rate \in Rates
  /\ used \in [Kinds -> Nat] /\ held \in [Kinds -> Nat]
  /\ tsub \in [Subs -> [st : {"none", "active", "cancelled"}, late : BOOLEAN]]
  /\ DOMAIN ticket = Handlers
  /\ \A h \in Handlers : ticket[h] # Tenant!Free => ticket[h] \in Tickets
  /\ plan = "none" => /\ moved = FALSE /\ trial.stamped = FALSE /\ rate.custom = FALSE
                      /\ \A h \in Handlers : ticket[h] = Tenant!Free

\* A rate that was read is the one in force, unless another one was written since, and then
\* the writer is marked; the sweep finds the free plan.
Overlaps(t) == t.op \in {"change", "deal", "sweep"} /\ t.stale = FALSE =>
                 t.read = rate /\ (t.op = "sweep" => plan = "free")

RateInv ==
  /\ plan # "none" /\ rate.raced = FALSE =>
       IF rate.custom THEN rate.percent \in Deals ELSE rate.percent = Tenant!Default(plan)
  /\ \A h \in Handlers : Overlaps(ticket[h])

\* A subscription the sweep does not know of was made too late.
Swept(subs) == /\ plan = "free" /\ trial.end = "past"
               /\ \A s \in Subs : tsub[s].st = "active" => s \in subs \/ tsub[s].late

TrialInv ==
  moved = FALSE =>
    /\ trial.stamped = TRUE => Swept({})
    /\ \A h \in Handlers : ticket[h].op = "sweep" => Swept(ticket[h].subs)

\* Requests counting on a row more, who counted under a limit.
Counting(k) == {h \in Handlers : /\ ticket[h].op = "add" /\ ticket[h].kind = k
                                 /\ ticket[h].open = FALSE}
Bound(k) == IF held[k] > Cap THEN held[k] ELSE Cap

\* Who counts is part of the excess; when all count, the last of them found room.
Within(k) == /\ used[k] + Cardinality(Counting(k)) <= Bound(k) + Cardinality(Handlers) - 1
             /\ Cardinality(Counting(k)) = Cardinality(Handlers) => used[k] < Cap

LimitInv == \A k \in Kinds : Within(k)

TenantInv == TenantTypes /\ RateInv /\ TrialInv /\ LimitInv

LEMMA TenantFacts ==
  /\ Cap \in Nat /\ IsFiniteSet(Handlers) /\ Handlers # {}
  /\ Cardinality(Handlers) \in Nat /\ Cardinality(Handlers) >= 1
<1>1. Cap \in Nat /\ IsFiniteSet(Handlers) /\ Handlers # {}
  BY TenantParameters DEF Tenant!ParametersAssumption, Tenant!IsFiniteSet, IsFiniteSet
<1> QED BY <1>1, FS_CardinalityType, FS_EmptySet

\* The ticket d of a request is t but for the mark.
Same(d, t) ==
  /\ d \in Tickets /\ t \in Tickets /\ d.op = t.op
  /\ t.op = "add" => d.kind = t.kind /\ d.open = t.open
  /\ t.op \in {"change", "deal", "sweep"} => d.read = t.read
  /\ t.op = "sweep" => d.subs = t.subs

LEMMA MarkedTicket ==
  ASSUME NEW t \in Tickets
  PROVE  Same([t EXCEPT !.stale = TRUE], t) /\ [t EXCEPT !.stale = TRUE].stale = TRUE
<1>1. CASE t \in Adds BY <1>1 DEF Tickets, Adds, Same
<1>2. CASE t \in Changes BY <1>2 DEF Tickets, Changes, Same
<1>3. CASE t \in Dealings BY <1>3 DEF Tickets, Dealings, Same
<1>4. CASE t \in Subscribes BY <1>4 DEF Tickets, Subscribes, Same
<1>5. CASE t \in Sweeps BY <1>5 DEF Tickets, Sweeps, Same
<1> QED BY <1>1, <1>2, <1>3, <1>4, <1>5 DEF Tickets

\* What the end of one request makes of the others.
LEMMA TicketsLeft ==
  ASSUME TenantTypes, NEW h \in Handlers, Tenant!Done(h) \/ Tenant!Leaves(h)
  PROVE  /\ DOMAIN ticket' = Handlers /\ ticket'[h] = Tenant!Free
         /\ \A g \in Handlers :
              ticket'[g] # Tenant!Free =>
                /\ g # h /\ ticket[g] # Tenant!Free /\ Same(ticket'[g], ticket[g])
                /\ IF Tenant!Done(h) THEN ticket'[g].stale = TRUE ELSE ticket'[g] = ticket[g]
         /\ \A g \in Handlers : ticket[g] # Tenant!Free /\ g # h => ticket'[g] # Tenant!Free
<1>1. CASE Tenant!Done(h)
  <2>1. DOMAIN ticket' = Handlers /\ ticket'[h] = Tenant!Free BY <1>1 DEF Tenant!Done
  <2>2. ASSUME NEW g \in Handlers, g # h, ticket[g] # Tenant!Free
        PROVE  Same(ticket'[g], ticket[g]) /\ ticket'[g].stale = TRUE
    <3>1. ticket'[g] = [ticket[g] EXCEPT !.stale = TRUE] BY <1>1, <2>2 DEF Tenant!Done
    <3>2. ticket[g] \in Tickets BY <2>2 DEF TenantTypes
    <3> QED BY <3>1, <3>2, MarkedTicket
  <2>3. \A g \in Handlers : g = h \/ ticket[g] = Tenant!Free => ticket'[g] = Tenant!Free
    BY <1>1 DEF Tenant!Done
  <2>4. \A t \in Tickets : t # Tenant!Free
    BY DEF Tickets, Adds, Changes, Dealings, Subscribes, Sweeps, Tenant!Free
  <2> QED BY <1>1, <2>1, <2>2, <2>3, <2>4 DEF Same
<1>2. CASE ~Tenant!Done(h)
  <2>1. ticket' = [ticket EXCEPT ![h] = Tenant!Free] BY <1>2 DEF Tenant!Leaves
  <2>2. \A g \in Handlers : ticket[g] # Tenant!Free => Same(ticket[g], ticket[g])
    BY DEF TenantTypes, Same
  <2> QED BY <1>2, <2>1, <2>2 DEF TenantTypes
<1> QED BY <1>1, <1>2

\* A request that comes in.
LEMMA TicketsTaken ==
  ASSUME TenantTypes, NEW h \in Handlers, NEW t \in Tickets, Tenant!Begin(h, t)
  PROVE  /\ TenantTypes' /\ plan # "none" /\ ticket[h] = Tenant!Free /\ ticket'[h] = t
         /\ \A g \in Handlers \ {h} : ticket'[g] = ticket[g]
         /\ UNCHANGED <<plan, trial, rate, used, held, tsub, moved>>
<1>1. /\ plan # "none" /\ ticket[h] = Tenant!Free /\ ticket' = [ticket EXCEPT ![h] = t]
      /\ UNCHANGED <<plan, trial, rate, used, held, tsub, moved>>
  BY DEF Tenant!Begin
<1>2. /\ ticket'[h] = t /\ DOMAIN ticket' = Handlers
      /\ \A g \in Handlers \ {h} : ticket'[g] = ticket[g]
  BY <1>1 DEF TenantTypes
<1> QED BY <1>1, <1>2 DEF TenantTypes

\* The five kinds of request.
LEMMA TicketKinds ==
  ASSUME TenantTypes, NEW h \in Handlers, ticket[h].op # "idle"
  PROVE  /\ plan # "none" /\ ticket[h] # Tenant!Free
         /\ ticket[h].op = "add" => ticket[h] \in Adds
         /\ ticket[h].op = "change" => ticket[h] \in Changes
         /\ ticket[h].op = "deal" => ticket[h] \in Dealings
         /\ ticket[h].op = "subscribe" => ticket[h] \in Subscribes
         /\ ticket[h].op = "sweep" => ticket[h] \in Sweeps
<1>1. ticket[h] # Tenant!Free BY DEF Tenant!Free
<1>2. ticket[h] \in Tickets /\ plan # "none" BY <1>1 DEF TenantTypes
<1> QED BY <1>1, <1>2 DEF Tickets, Adds, Changes, Dealings, Subscribes, Sweeps

LEMMA CountingFacts ==
  ASSUME NEW k \in Kinds
  PROVE  /\ IsFiniteSet(Counting(k)) /\ Cardinality(Counting(k)) \in Nat
         /\ Cardinality(Counting(k)) <= Cardinality(Handlers)
         /\ \A h \in Handlers : h \notin Counting(k) => Cardinality(Counting(k)) <= Cardinality(Handlers) - 1
<1>1. Counting(k) \subseteq Handlers BY DEF Counting
<1>2. IsFiniteSet(Counting(k)) /\ Cardinality(Counting(k)) \in Nat
      /\ Cardinality(Counting(k)) <= Cardinality(Handlers)
  BY <1>1, TenantFacts, FS_Subset, FS_CardinalityType
<1>3. ASSUME NEW h \in Handlers, h \notin Counting(k)
      PROVE  Cardinality(Counting(k)) <= Cardinality(Handlers) - 1
  <2>1. Counting(k) \subseteq Handlers \ {h} BY <1>1, <1>3
  <2>2. IsFiniteSet(Handlers \ {h}) /\ Cardinality(Handlers \ {h}) = Cardinality(Handlers) - 1
    BY TenantFacts, FS_RemoveElement
  <2>3. Cardinality(Counting(k)) <= Cardinality(Handlers \ {h}) BY <2>1, <2>2, FS_Subset
  <2> QED BY <2>2, <2>3
<1> QED BY <1>2, <1>3

\* Counting at the next state, when the request of h ends.
LEMMA CountingLeft ==
  ASSUME TenantTypes, NEW h \in Handlers, Tenant!Done(h) \/ Tenant!Leaves(h), NEW k \in Kinds
  PROVE  /\ Counting(k)' = Counting(k) \ {h}
         /\ Cardinality(Counting(k)') = Cardinality(Counting(k)) - (IF h \in Counting(k) THEN 1 ELSE 0)
         /\ Cardinality(Counting(k)') \in Nat
         /\ Cardinality(Counting(k)') <= Cardinality(Handlers) - 1
<1>1. Counting(k)' = Counting(k) \ {h}
  <2>1. ASSUME NEW g \in Handlers
        PROVE  (ticket'[g].op = "add" /\ ticket'[g].kind = k /\ ticket'[g].open = FALSE) <=>
               g # h /\ ticket[g].op = "add" /\ ticket[g].kind = k /\ ticket[g].open = FALSE
    <3>1. CASE ticket'[g] = Tenant!Free
      <4>1. ticket'[g].op = "idle" BY <3>1 DEF Tenant!Free
      <4>2. g = h \/ ticket[g] = Tenant!Free BY <3>1, TicketsLeft
      <4>3. ticket[g] = Tenant!Free => ticket[g].op = "idle" BY DEF Tenant!Free
      <4> QED BY <4>1, <4>2, <4>3
    <3>2. CASE ticket'[g] # Tenant!Free
      <4>1. g # h /\ Same(ticket'[g], ticket[g]) BY <3>2, TicketsLeft
      <4> QED BY <4>1 DEF Same
    <3> QED BY <3>1, <3>2
  <2> QED BY <2>1 DEF Counting
<1>2. IsFiniteSet(Counting(k)) /\ Cardinality(Counting(k)) \in Nat BY CountingFacts
<1>3. CASE h \in Counting(k)
  <2>1. Cardinality(Counting(k) \ {h}) = Cardinality(Counting(k)) - 1
        /\ Cardinality(Counting(k) \ {h}) \in Nat
    BY <1>2, <1>3, FS_RemoveElement, FS_CardinalityType
  <2> QED BY <1>1, <1>2, <1>3, <2>1, CountingFacts, TenantFacts
<1>4. CASE h \notin Counting(k)
  <2>1. Counting(k) \ {h} = Counting(k) BY <1>4
  <2> QED BY <1>1, <1>2, <1>4, <2>1, CountingFacts, TenantFacts
<1> QED BY <1>3, <1>4

LEMMA TenantInit == ASSUME Tenant!Init PROVE TenantInv
<1> USE DEF Tenant!Init
<1>1. \A h \in Handlers : ticket[h] = Tenant!Free /\ ticket[h].op = "idle" BY DEF Tenant!Free
<1>2. TenantTypes
  <2>1. rate \in Rates BY DEF Rates, Percents
  <2>2. tsub \in [Subs -> [st : {"none", "active", "cancelled"}, late : BOOLEAN]]
    BY DEF Tenant!NoSub
  <2> QED BY <1>1, <2>1, <2>2 DEF TenantTypes
<1>3. RateInv BY <1>1 DEF RateInv, Overlaps
<1>4. TrialInv BY <1>1 DEF TrialInv
<1>5. ASSUME NEW k \in Kinds PROVE Within(k)
  <2>1. Counting(k) = {} BY <1>1 DEF Counting
  <2>2. Cardinality(Counting(k)) = 0 BY <2>1, FS_EmptySet
  <2> QED BY <2>2, TenantFacts DEF Within, Bound
<1> QED BY <1>2, <1>3, <1>4, <1>5 DEF TenantInv, LimitInv

LEMMA TenantTakes ==
  ASSUME TenantInv, NEW h \in Handlers, NEW t \in Tickets, Tenant!Begin(h, t), Overlaps(t),
         moved = FALSE /\ t.op = "sweep" => Swept(t.subs),
         t.op = "add" /\ t.open = FALSE => used[t.kind] < Cap
  PROVE  TenantInv'
<1>1. /\ TenantTypes' /\ plan # "none" /\ ticket[h] = Tenant!Free /\ ticket'[h] = t
      /\ \A g \in Handlers \ {h} : ticket'[g] = ticket[g]
      /\ UNCHANGED <<plan, trial, rate, used, held, tsub, moved>>
  BY TicketsTaken DEF TenantInv
<1>2. RateInv' BY <1>1 DEF TenantInv, RateInv, Overlaps
<1>3. TrialInv'
  <2>1. \A subs : Swept(subs)' <=> Swept(subs) BY <1>1 DEF Swept
  <2>2. PICK t0 : t0 = t OBVIOUS
  <2>3. moved = FALSE /\ ticket'[h].op = "sweep" => Swept(ticket'[h].subs) BY <1>1
  <2>4. ASSUME NEW g \in Handlers, moved' = FALSE, ticket'[g].op = "sweep" PROVE Swept(ticket[g].subs)'
    <3>1. Swept(ticket'[g].subs)
      <4>1. CASE g = h BY <1>1, <2>3, <2>4, <4>1
      <4>2. CASE g # h BY <1>1, <2>4, <4>2 DEF TenantInv, TrialInv
      <4> QED BY <4>1, <4>2
    <3> QED BY <1>1, <3>1 DEF Swept
  <2> QED BY <1>1, <2>1, <2>4 DEF TenantInv, TrialInv
<1>4. ASSUME NEW k \in Kinds PROVE Within(k)'
  <2>1. Within(k) BY DEF TenantInv, LimitInv
  <2>2. h \notin Counting(k) BY <1>1 DEF Counting, Tenant!Free
  <2>3. /\ used[k] \in Nat /\ held[k] \in Nat /\ IsFiniteSet(Counting(k))
        /\ Cardinality(Counting(k)) \in Nat /\ Cardinality(Counting(k)) <= Cardinality(Handlers) - 1
    BY <2>2, CountingFacts DEF TenantInv, TenantTypes
  <2>4. CASE t.op = "add" /\ t.kind = k /\ t.open = FALSE
    <3>1. Counting(k)' = Counting(k) \cup {h} BY <1>1, <2>4 DEF Counting
    <3>2. Cardinality(Counting(k)') = Cardinality(Counting(k)) + 1
      BY <2>2, <2>3, <3>1, FS_AddElement
    <3> QED BY <1>1, <2>3, <2>4, <3>2, TenantFacts DEF Within, Bound
  <2>5. CASE ~(t.op = "add" /\ t.kind = k /\ t.open = FALSE)
    <3>1. Counting(k)' = Counting(k) BY <1>1, <2>2, <2>5 DEF Counting
    <3> QED BY <1>1, <2>1, <3>1 DEF Within, Bound
  <2> QED BY <2>4, <2>5
<1> QED BY <1>1, <1>2, <1>3, <1>4 DEF TenantInv, LimitInv

LEMMA TenantBegins ==
  ASSUME TenantInv, NEW h \in Handlers,
         \/ \E p \in Tenant!Plans : Tenant!BeginChange(h, p)
         \/ \E k \in Kinds : Tenant!BeginAdd(h, k)
         \/ \E s \in Subs : Tenant!BeginSubscribe(h, s)
         \/ \E v \in Deals : Tenant!BeginDeal(h, v)
         \/ Tenant!BeginSweep(h)
  PROVE  TenantInv'
<1> USE DEF Tickets
<1>1. CASE \E p \in Tenant!Plans : Tenant!BeginChange(h, p)
  <2>1. PICK p \in Tenant!Plans : Tenant!BeginChange(h, p) BY <1>1
  <2>2. PICK t : t = [op |-> "change", to |-> p, read |-> rate, stale |-> FALSE] OBVIOUS
  <2>3. t \in Changes /\ t.op = "change" /\ t.read = rate
    BY <2>2 DEF Changes, TenantInv, TenantTypes
  <2> QED BY <2>1, <2>2, <2>3, TenantTakes DEF Tenant!BeginChange, Overlaps
<1>2. CASE \E k \in Kinds : Tenant!BeginAdd(h, k)
  <2>1. PICK k \in Kinds : Tenant!BeginAdd(h, k) BY <1>2
  <2>2. PICK b \in BOOLEAN : b = ~Tenant!Limited(k) OBVIOUS
  <2>3. PICK t : t = [op |-> "add", kind |-> k, open |-> b, stale |-> FALSE] OBVIOUS
  <2>4. t \in Adds /\ t.op = "add" /\ t.kind = k /\ t.open = b BY <2>3 DEF Adds
  <2>5. t.open = FALSE => used[k] < Cap
    BY <2>1, <2>2, <2>4 DEF Tenant!BeginAdd, Tenant!Fits
  <2>6. Tenant!Begin(h, t) BY <2>1, <2>2, <2>3 DEF Tenant!BeginAdd
  <2> QED BY <2>4, <2>5, <2>6, TenantTakes DEF Overlaps
<1>3. CASE \E s \in Subs : Tenant!BeginSubscribe(h, s)
  <2>1. PICK s \in Subs : Tenant!BeginSubscribe(h, s) BY <1>3
  <2>2. PICK t : t = [op |-> "subscribe", sub |-> s, stale |-> FALSE] OBVIOUS
  <2>3. t \in Subscribes /\ t.op = "subscribe" BY <2>2 DEF Subscribes
  <2> QED BY <2>1, <2>2, <2>3, TenantTakes DEF Tenant!BeginSubscribe, Overlaps
<1>4. CASE \E v \in Deals : Tenant!BeginDeal(h, v)
  <2>1. PICK v \in Deals : Tenant!BeginDeal(h, v) BY <1>4
  <2>2. PICK t : t = [op |-> "deal", to |-> v, read |-> rate, stale |-> FALSE] OBVIOUS
  <2>3. t \in Dealings /\ t.op = "deal" /\ t.read = rate
    BY <2>2 DEF Dealings, TenantInv, TenantTypes
  <2> QED BY <2>1, <2>2, <2>3, TenantTakes DEF Tenant!BeginDeal, Overlaps
<1>5. CASE Tenant!BeginSweep(h)
  <2>1. PICK t : t = [op |-> "sweep", subs |-> Tenant!Ending, read |-> rate, stale |-> FALSE] OBVIOUS
  <2>2. Tenant!Begin(h, t) /\ plan = "free" /\ trial.end = "past"
    BY <1>5, <2>1 DEF Tenant!BeginSweep
  <2>3. t \in Sweeps /\ t.op = "sweep" /\ t.read = rate /\ t.subs = Tenant!Ending
    BY <2>1 DEF Sweeps, TenantInv, TenantTypes, Tenant!Ending
  <2>4. Swept(t.subs) BY <2>2, <2>3 DEF Swept, Tenant!Ending
  <2> QED BY <2>2, <2>3, <2>4, TenantTakes DEF Overlaps
<1> QED BY <1>1, <1>2, <1>3, <1>4, <1>5

\* What no request does: a tenant is created, a trial ends, a tutor cancels.
LEMMA TenantLives ==
  ASSUME TenantInv,
         \/ \E p \in Tenant!Plans : Tenant!CreateTenant(p)
         \/ Tenant!TrialEnds
         \/ \E s \in Subs : Tenant!TutorCancels(s)
  PROVE  TenantInv'
<1>1. LimitInv'
  <2>1. UNCHANGED <<used, held, ticket>>
    BY DEF Tenant!CreateTenant, Tenant!TrialEnds, Tenant!TutorCancels
  <2> QED BY <2>1 DEF TenantInv, LimitInv, Within, Bound, Counting
<1>2. CASE \E p \in Tenant!Plans : Tenant!CreateTenant(p)
  <2>1. PICK p \in Tenant!Plans : Tenant!CreateTenant(p) BY <1>2
  <2>2. /\ plan = "none" /\ plan' = p
        /\ trial' = [trial EXCEPT !.end = IF p = "free" THEN "ahead" ELSE "none"]
        /\ rate'  = [rate EXCEPT !.percent = Tenant!Default(p)]
        /\ UNCHANGED <<used, held, tsub, moved, ticket>>
    BY <2>1 DEF Tenant!CreateTenant
  <2>3. /\ moved = FALSE /\ trial.stamped = FALSE /\ rate.custom = FALSE
        /\ \A h \in Handlers : ticket[h] = Tenant!Free /\ ticket[h].op = "idle"
    BY <2>2 DEF TenantInv, TenantTypes, Tenant!Free
  <2>4. rate' \in Rates /\ rate'.percent = Tenant!Default(p) /\ rate'.custom = FALSE
    BY <2>2, <2>3 DEF TenantInv, TenantTypes, Rates, Percents
  <2>5. trial' \in [end : {"none", "ahead", "past"}, stamped : BOOLEAN] /\ trial'.stamped = FALSE
    BY <2>2, <2>3 DEF TenantInv, TenantTypes
  <2>6. TenantTypes' BY <2>2, <2>3, <2>4, <2>5 DEF TenantInv, TenantTypes, Tenant!Plans
  <2>7. RateInv' BY <2>2, <2>3, <2>4 DEF RateInv, Overlaps
  <2>8. TrialInv' BY <2>2, <2>3, <2>5 DEF TrialInv
  <2> QED BY <1>1, <2>6, <2>7, <2>8 DEF TenantInv
<1>3. CASE Tenant!TrialEnds
  <2>1. /\ trial.end = "ahead" /\ trial' = [trial EXCEPT !.end = "past"]
        /\ UNCHANGED <<plan, rate, used, held, tsub, moved, ticket>>
    BY <1>3 DEF Tenant!TrialEnds
  <2>2. TenantTypes' /\ trial'.stamped = trial.stamped BY <2>1 DEF TenantInv, TenantTypes
  <2>3. RateInv' BY <2>1 DEF TenantInv, RateInv, Overlaps
  <2>4. TrialInv' BY <2>1, <2>2 DEF TenantInv, TrialInv, Swept
  <2> QED BY <1>1, <2>2, <2>3, <2>4 DEF TenantInv
<1>4. CASE \E s \in Subs : Tenant!TutorCancels(s)
  <2>1. PICK s \in Subs : Tenant!TutorCancels(s) BY <1>4
  <2>2. /\ tsub' = [tsub EXCEPT ![s].st = "cancelled"]
        /\ UNCHANGED <<plan, trial, rate, used, held, moved, ticket>>
    BY <2>1 DEF Tenant!TutorCancels
  <2>3. TenantTypes'
    <3>1. tsub[s] \in [st : {"none", "active", "cancelled"}, late : BOOLEAN]
      BY DEF TenantInv, TenantTypes
    <3>2. [tsub[s] EXCEPT !.st = "cancelled"] \in [st : {"none", "active", "cancelled"}, late : BOOLEAN]
      BY <3>1
    <3>3. tsub' = [tsub EXCEPT ![s] = [tsub[s] EXCEPT !.st = "cancelled"]] BY <2>2
    <3>4. tsub' \in [Subs -> [st : {"none", "active", "cancelled"}, late : BOOLEAN]]
      BY <3>2, <3>3 DEF TenantInv, TenantTypes
    <3> QED BY <2>2, <3>4 DEF TenantInv, TenantTypes
  <2>4. RateInv' BY <2>2 DEF TenantInv, RateInv, Overlaps
  <2>5. \A r \in Subs : tsub'[r].st = "active" => tsub'[r] = tsub[r]
    BY <2>2 DEF TenantInv, TenantTypes
  <2>6. \A subs : Swept(subs) => Swept(subs)' BY <2>2, <2>5 DEF Swept
  <2>7. TrialInv'
    <3>1. ASSUME moved' = FALSE, trial'.stamped = TRUE PROVE Swept({})'
      BY <2>2, <2>6, <3>1 DEF TenantInv, TrialInv
    <3>2. ASSUME NEW h \in Handlers, moved' = FALSE, ticket'[h].op = "sweep"
          PROVE  Swept(ticket[h].subs)'
      <4>1. PICK u : u = ticket[h].subs OBVIOUS
      <4>2. Swept(u)' BY <2>2, <2>6, <3>2, <4>1 DEF TenantInv, TrialInv
      <4> QED BY <2>2, <4>1, <4>2
    <3> QED BY <3>1, <3>2 DEF TrialInv
  <2> QED BY <1>1, <2>3, <2>4, <2>7 DEF TenantInv
<1> QED BY <1>2, <1>3, <1>4

\* Others go on as before when a request that wrote neither plan nor rate ends.
LEMMA RateLeaves ==
  ASSUME TenantInv, NEW h \in Handlers, Tenant!Leaves(h), UNCHANGED <<plan, rate>>
  PROVE  RateInv'
<1>1. ASSUME NEW g \in Handlers PROVE Overlaps(ticket[g])'
  <2>1. CASE ticket'[g] = Tenant!Free BY <2>1 DEF Overlaps, Tenant!Free
  <2>2. CASE ticket'[g] # Tenant!Free
    <3>1. ticket'[g] = ticket[g] BY <2>2 DEF Tenant!Leaves, TenantInv, TenantTypes
    <3> QED BY <3>1 DEF TenantInv, RateInv, Overlaps
  <2> QED BY <2>1, <2>2
<1> QED BY <1>1 DEF TenantInv, RateInv

LEMMA RateDone ==
  ASSUME TenantTypes, NEW h \in Handlers, Tenant!Done(h)
  PROVE  \A g \in Handlers : Overlaps(ticket[g])'
<1>1. ASSUME NEW g \in Handlers PROVE Overlaps(ticket[g])'
  <2>1. CASE ticket'[g] = Tenant!Free BY <2>1 DEF Overlaps, Tenant!Free
  <2>2. CASE ticket'[g] # Tenant!Free
    <3>1. ticket'[g].stale = TRUE BY <2>2, TicketsLeft
    <3> QED BY <3>1 DEF Overlaps
  <2> QED BY <2>1, <2>2
<1> QED BY <1>1

\* The sweeps that go on, when subscriptions are made or ended.
LEMMA TrialLeft ==
  ASSUME TenantInv, NEW h \in Handlers, Tenant!Done(h) \/ Tenant!Leaves(h),
         \A subs : Swept(subs) => Swept(subs)', moved' = moved,
         moved = FALSE /\ trial'.stamped = TRUE /\ trial.stamped = FALSE => Swept({})'
  PROVE  TrialInv'
<1>1. ASSUME moved' = FALSE, trial'.stamped = TRUE PROVE Swept({})'
  BY <1>1 DEF TenantInv, TrialInv, TenantTypes
<1>2. ASSUME NEW g \in Handlers, moved' = FALSE, ticket'[g].op = "sweep"
      PROVE  Swept(ticket[g].subs)'
  <2>1. ticket'[g] # Tenant!Free BY <1>2 DEF Tenant!Free
  <2>2. ticket[g].op = "sweep" /\ ticket'[g].subs = ticket[g].subs
    BY <1>2, <2>1, TicketsLeft DEF Same, TenantInv
  <2>3. PICK u : u = ticket[g].subs OBVIOUS
  <2>4. Swept(u)' BY <1>2, <2>2, <2>3 DEF TenantInv, TrialInv
  <2> QED BY <2>2, <2>3, <2>4
<1> QED BY <1>1, <1>2 DEF TrialInv

LEMMA TypesLeft ==
  ASSUME TenantTypes, NEW h \in Handlers, ticket[h].op # "idle", Tenant!Done(h) \/ Tenant!Leaves(h),
         plan' \in Tenant!Plans, moved' \in BOOLEAN,
         trial' \in [end : {"none", "ahead", "past"}, stamped : BOOLEAN], rate' \in Rates,
         used' \in [Kinds -> Nat], held' \in [Kinds -> Nat],
         tsub' \in [Subs -> [st : {"none", "active", "cancelled"}, late : BOOLEAN]]
  PROVE  TenantTypes'
<1>1. DOMAIN ticket' = Handlers /\ \A g \in Handlers : ticket'[g] # Tenant!Free => ticket'[g] \in Tickets
  BY TicketsLeft DEF Same
<1>2. "none" \notin Tenant!Plans BY DEF Tenant!Plans
<1> QED BY <1>1, <1>2 DEF TenantTypes

LEMMA TenantAdds == ASSUME TenantInv, NEW h \in Handlers, Tenant!CommitAdd(h) PROVE TenantInv'
<1>1. PICK t : t = ticket[h] OBVIOUS
<1>2. PICK k : k = t.kind OBVIOUS
<1>3. /\ t.op = "add" /\ used' = [used EXCEPT ![k] = @ + 1]
      /\ Tenant!Held([j \in Kinds |-> j = k /\ (t.open \/ ~Tenant!Limited(k))])
      /\ Tenant!Leaves(h) /\ UNCHANGED <<plan, trial, rate, tsub, moved>>
  BY <1>1, <1>2 DEF Tenant!CommitAdd
<1>4. TenantTypes /\ plan # "none" /\ t \in Adds /\ k \in Kinds
  BY <1>1, <1>2, <1>3, TicketKinds DEF TenantInv, Adds
<1>5. /\ used' \in [Kinds -> Nat] /\ used'[k] = used[k] + 1
      /\ \A j \in Kinds \ {k} : used'[j] = used[j]
  BY <1>3, <1>4 DEF TenantTypes
<1>6. /\ held' \in [Kinds -> Nat] /\ held'[k] \in {held[k], used'[k]}
      /\ t.open = TRUE => held'[k] = used'[k]
      /\ \A j \in Kinds \ {k} : held'[j] = held[j]
  <2>1. PICK f : f = [j \in Kinds |-> j = k /\ (t.open \/ ~Tenant!Limited(k))] OBVIOUS
  <2>2. held' = [j \in Kinds |-> IF f[j] THEN used'[j] ELSE held[j]]
    BY <1>3, <2>1 DEF Tenant!Held
  <2>3. \A j \in Kinds : held'[j] \in {held[j], used'[j]} BY <2>2
  <2>4. \A j \in Kinds \ {k} : held'[j] = held[j] BY <2>1, <2>2
  <2>5. t.open = TRUE => held'[k] = used'[k] BY <1>4, <2>1, <2>2
  <2>6. held' \in [Kinds -> Nat] BY <1>4, <1>5, <2>2 DEF TenantTypes
  <2> QED BY <1>4, <2>3, <2>4, <2>5, <2>6
<1>7. TenantTypes'
  BY <1>1, <1>3, <1>4, <1>5, <1>6, TypesLeft DEF TenantTypes
<1>8. RateInv' BY <1>3, RateLeaves
<1>9. TrialInv' BY <1>3, TrialLeft DEF Swept
<1>10. ASSUME NEW j \in Kinds PROVE Within(j)'
  <2>1. /\ Cardinality(Counting(j)') = Cardinality(Counting(j)) - (IF h \in Counting(j) THEN 1 ELSE 0)
        /\ Cardinality(Counting(j)') \in Nat /\ Cardinality(Counting(j)') <= Cardinality(Handlers) - 1
    BY <1>3, <1>4, CountingLeft
  <2>2. Within(j) /\ Cardinality(Counting(j)) \in Nat /\ used[j] \in Nat /\ held[j] \in Nat
    BY <1>4, CountingFacts DEF TenantInv, LimitInv, TenantTypes
  <2>3. CASE j # k
    <3>1. UNCHANGED <<used[j], held[j]>> BY <1>5, <1>6, <2>3
    <3> QED BY <2>1, <2>2, <3>1, TenantFacts DEF Within, Bound
  <2>4. CASE j = k
    <3>1. CASE held'[k] = used'[k]
      <4>1. Bound(j)' >= used'[j] BY <1>5, <2>2, <2>4, <3>1, TenantFacts DEF Bound
      <4>2. Bound(j)' \in Nat BY <1>5, <2>2, <2>4, <3>1, TenantFacts DEF Bound
      <4> QED BY <1>5, <2>1, <2>2, <2>4, <4>1, <4>2, TenantFacts DEF Within
    <3>2. CASE held'[k] # used'[k]
      <4>1. t.open = FALSE BY <1>4, <1>6, <3>2 DEF Adds
      <4>2. h \in Counting(j) BY <1>1, <1>2, <1>3, <2>4, <4>1 DEF Counting
      <4>3. held'[j] = held[j] BY <1>6, <2>4, <3>2
      <4> QED BY <1>5, <2>1, <2>2, <2>4, <4>2, <4>3, TenantFacts DEF Within, Bound
    <3> QED BY <3>1, <3>2
  <2> QED BY <2>3, <2>4
<1> QED BY <1>7, <1>8, <1>9, <1>10 DEF TenantInv, LimitInv

LEMMA TenantRemoves == ASSUME TenantInv, NEW k \in Kinds, Tenant!Remove(k) PROVE TenantInv'
<1>1. /\ used[k] > 0 /\ used' = [used EXCEPT ![k] = @ - 1]
      /\ Tenant!Held([j \in Kinds |-> j = k /\ (~Tenant!Limited(k) \/ held[k] > used[k] - 1)])
      /\ UNCHANGED <<plan, trial, rate, tsub, moved, ticket>>
  BY DEF Tenant!Remove
<1>2. TenantTypes BY DEF TenantInv
<1>3. /\ used' \in [Kinds -> Nat] /\ used'[k] = used[k] - 1
      /\ \A j \in Kinds \ {k} : used'[j] = used[j]
  BY <1>1, <1>2 DEF TenantTypes
<1>4. /\ held' \in [Kinds -> Nat] /\ held'[k] \in {held[k], used'[k]}
      /\ \A j \in Kinds \ {k} : held'[j] = held[j]
  <2>1. PICK f : f = [j \in Kinds |-> j = k /\ (~Tenant!Limited(k) \/ held[k] > used[k] - 1)] OBVIOUS
  <2>2. held' = [j \in Kinds |-> IF f[j] THEN used'[j] ELSE held[j]]
    BY <1>1, <2>1 DEF Tenant!Held
  <2>3. \A j \in Kinds : held'[j] \in {held[j], used'[j]} BY <2>2
  <2>4. \A j \in Kinds \ {k} : held'[j] = held[j] BY <2>1, <2>2
  <2>5. held' \in [Kinds -> Nat] BY <1>2, <1>3, <2>2 DEF TenantTypes
  <2> QED BY <2>3, <2>4, <2>5
<1>5. TenantTypes' BY <1>1, <1>2, <1>3, <1>4 DEF TenantTypes
<1>6. RateInv' BY <1>1 DEF TenantInv, RateInv, Overlaps
<1>7. TrialInv' BY <1>1 DEF TenantInv, TrialInv, Swept
<1>8. ASSUME NEW j \in Kinds PROVE Within(j)'
  <2>1. Counting(j)' = Counting(j) BY <1>1 DEF Counting
  <2>2. /\ Within(j) /\ Cardinality(Counting(j)) \in Nat /\ used[j] \in Nat /\ held[j] \in Nat
        /\ Cardinality(Counting(j)) <= Cardinality(Handlers)
    BY <1>2, CountingFacts DEF TenantInv, LimitInv, TenantTypes
  <2>3. CASE j # k
    <3>1. UNCHANGED <<used[j], held[j]>> BY <1>3, <1>4, <2>3
    <3> QED BY <2>1, <2>2, <3>1, TenantFacts DEF Within, Bound
  <2>4. CASE j = k
    BY <1>3, <1>4, <2>1, <2>2, <2>4, TenantFacts DEF Within, Bound
  <2> QED BY <2>3, <2>4
<1> QED BY <1>5, <1>6, <1>7, <1>8 DEF TenantInv, LimitInv

\* The end of a request that adds no row leaves the limits as they are.
LEMMA LimitLeft ==
  ASSUME TenantInv, NEW h \in Handlers, Tenant!Done(h) \/ Tenant!Leaves(h),
         used' = used, held' = held \/ held' = [k \in Kinds |-> used[k]]
  PROVE  LimitInv'
<1>1. ASSUME NEW k \in Kinds PROVE Within(k)'
  <2>1. /\ Within(k) /\ Cardinality(Counting(k)) \in Nat /\ used[k] \in Nat /\ held[k] \in Nat
    BY CountingFacts DEF TenantInv, LimitInv, TenantTypes
  <2>2. /\ Cardinality(Counting(k)') <= Cardinality(Counting(k))
        /\ Cardinality(Counting(k)') \in Nat /\ Cardinality(Counting(k)') <= Cardinality(Handlers) - 1
    BY <2>1, CountingLeft DEF TenantInv
  <2>3. used'[k] = used[k] /\ held'[k] \in {held[k], used[k]} OBVIOUS
  <2> QED BY <2>1, <2>2, <2>3, TenantFacts DEF Within, Bound
<1> QED BY <1>1 DEF LimitInv

LEMMA TenantChanges == ASSUME TenantInv, NEW h \in Handlers, Tenant!CommitChange(h) PROVE TenantInv'
<1>1. PICK t : t = ticket[h] OBVIOUS
<1>2. PICK new : new = IF t.read.custom THEN t.read.percent ELSE Tenant!Default(t.to) OBVIOUS
<1>3. /\ t.op = "change" /\ plan' = t.to
      /\ rate' = [rate EXCEPT !.percent = IF new = t.read.percent THEN @ ELSE new,
                              !.raced = @ \/ t.stale]
      /\ moved' = TRUE /\ held' = [k \in Kinds |-> used[k]]
      /\ Tenant!Done(h) /\ UNCHANGED <<trial, used, tsub>>
  BY <1>1, <1>2 DEF Tenant!CommitChange, Tenant!Recalculated
<1>4. TenantTypes /\ plan # "none" /\ t \in Changes
  BY <1>1, <1>3, TicketKinds DEF TenantInv
<1>5. t.to \in Tenant!Plans /\ t.read \in Rates /\ t.stale \in BOOLEAN BY <1>4 DEF Changes
<1>6. new \in Percents BY <1>2, <1>5 DEF Rates, Percents
<1>7. PICK p : p = IF new = t.read.percent THEN rate.percent ELSE new OBVIOUS
<1>8. PICK b \in BOOLEAN : b = (rate.raced \/ t.stale) OBVIOUS
<1>9. rate' = [rate EXCEPT !.percent = p, !.raced = b] BY <1>3, <1>7, <1>8
<1>10. rate' \in Rates /\ rate'.percent = p /\ rate'.custom = rate.custom /\ rate'.raced = b
  BY <1>4, <1>6, <1>7, <1>9 DEF TenantTypes, Rates
<1>11. held' \in [Kinds -> Nat] BY <1>3, <1>4 DEF TenantTypes
<1>12. TenantTypes'
  BY <1>1, <1>3, <1>4, <1>5, <1>10, <1>11, TypesLeft DEF TenantTypes
<1>13. RateInv'
  <2>1. ASSUME rate'.raced = FALSE
        PROVE  IF rate'.custom THEN rate'.percent \in Deals ELSE rate'.percent = Tenant!Default(plan')
    <3>1. rate.raced = FALSE /\ t.stale = FALSE BY <1>4, <1>5, <1>8, <1>10, <2>1 DEF TenantTypes, Rates
    <3>2. t.read = rate BY <1>1, <1>3, <3>1 DEF TenantInv, RateInv, Overlaps
    <3>3. p = new BY <1>7, <3>2
    <3>4. IF rate.custom THEN rate.percent \in Deals ELSE rate.percent = Tenant!Default(plan)
      BY <1>4, <3>1 DEF TenantInv, RateInv
    <3> QED BY <1>2, <1>3, <1>10, <3>2, <3>3, <3>4
  <2>2. \A g \in Handlers : Overlaps(ticket[g])' BY <1>3, <1>4, RateDone
  <2> QED BY <2>1, <2>2 DEF RateInv, Tenant!Default
<1>14. TrialInv' BY <1>3 DEF TrialInv
<1>15. LimitInv' BY <1>3, LimitLeft
<1> QED BY <1>12, <1>13, <1>14, <1>15 DEF TenantInv

LEMMA TenantDeals == ASSUME TenantInv, NEW h \in Handlers, Tenant!CommitDeal(h) PROVE TenantInv'
<1>1. PICK t : t = ticket[h] OBVIOUS
<1>2. PICK b \in BOOLEAN : b = (rate.raced \/ t.stale) OBVIOUS
<1>3. /\ t.op = "deal"
      /\ rate' = IF t.to = t.read.percent THEN [rate EXCEPT !.raced = b]
                 ELSE [percent |-> t.to, custom |-> TRUE, raced |-> b]
      /\ Tenant!Done(h) /\ UNCHANGED <<plan, trial, used, held, tsub, moved>>
  BY <1>1, <1>2 DEF Tenant!CommitDeal
<1>4. TenantTypes /\ plan # "none" /\ t \in Dealings
  BY <1>1, <1>3, TicketKinds DEF TenantInv
<1>5. t.to \in Deals /\ t.read \in Rates /\ t.stale \in BOOLEAN BY <1>4 DEF Dealings
<1>6. /\ rate' \in Rates /\ rate'.raced = b
      /\ t.to = t.read.percent => rate'.percent = rate.percent /\ rate'.custom = rate.custom
      /\ t.to # t.read.percent => rate'.percent = t.to /\ rate'.custom = TRUE
  <2>1. CASE t.to = t.read.percent
    <3>1. rate' = [rate EXCEPT !.raced = b] BY <1>3, <2>1
    <3> QED BY <1>4, <2>1, <3>1 DEF TenantTypes, Rates
  <2>2. CASE t.to # t.read.percent
    <3>1. rate' = [percent |-> t.to, custom |-> TRUE, raced |-> b] BY <1>3, <2>2
    <3> QED BY <1>5, <2>2, <3>1 DEF Rates, Percents
  <2> QED BY <2>1, <2>2
<1>7. TenantTypes'
  BY <1>1, <1>3, <1>4, <1>6, TypesLeft DEF TenantTypes
<1>8. RateInv'
  <2>1. ASSUME rate'.raced = FALSE
        PROVE  IF rate'.custom THEN rate'.percent \in Deals ELSE rate'.percent = Tenant!Default(plan')
    <3>1. rate.raced = FALSE BY <1>2, <1>4, <1>5, <1>6, <2>1 DEF TenantTypes, Rates
    <3>2. IF rate.custom THEN rate.percent \in Deals ELSE rate.percent = Tenant!Default(plan)
      BY <1>4, <3>1 DEF TenantInv, RateInv
    <3> QED BY <1>3, <1>5, <1>6, <3>2
  <2>2. \A g \in Handlers : Overlaps(ticket[g])' BY <1>3, <1>4, RateDone
  <2> QED BY <2>1, <2>2 DEF RateInv, Tenant!Default
<1>9. TrialInv' BY <1>3, TrialLeft DEF Swept
<1>10. LimitInv' BY <1>3, LimitLeft
<1> QED BY <1>7, <1>8, <1>9, <1>10 DEF TenantInv

LEMMA TenantSubscribes == ASSUME TenantInv, NEW h \in Handlers, Tenant!CommitSubscribe(h) PROVE TenantInv'
<1>1. PICK s : s = ticket[h].sub OBVIOUS
<1>2. PICK b \in BOOLEAN : b = ~Tenant!MaySubscribe OBVIOUS
<1>3. PICK new : new = [st |-> "active", late |-> b] OBVIOUS
<1>4. /\ ticket[h].op = "subscribe" /\ tsub' = [tsub EXCEPT ![s] = new]
      /\ Tenant!Leaves(h) /\ UNCHANGED <<plan, trial, rate, used, held, moved>>
  BY <1>1, <1>2, <1>3 DEF Tenant!CommitSubscribe
<1>5. TenantTypes /\ plan # "none" /\ s \in Subs
  BY <1>1, <1>4, TicketKinds DEF TenantInv, Subscribes
<1>6. new \in [st : {"none", "active", "cancelled"}, late : BOOLEAN] /\ new.late = b BY <1>3
<1>7. tsub' \in [Subs -> [st : {"none", "active", "cancelled"}, late : BOOLEAN]]
      /\ tsub'[s] = new /\ \A r \in Subs \ {s} : tsub'[r] = tsub[r]
  BY <1>4, <1>5, <1>6 DEF TenantTypes
<1>8. TenantTypes' BY <1>4, <1>5, <1>7, TypesLeft DEF TenantTypes
<1>9. RateInv' BY <1>4, RateLeaves
<1>10. \A subs : Swept(subs) => Swept(subs)'
  <2>1. plan = "free" /\ trial.end = "past" => b = TRUE
    BY <1>2 DEF Tenant!MaySubscribe, Tenant!Effective
  <2> QED BY <1>4, <1>6, <1>7, <2>1 DEF Swept
<1>11. TrialInv' BY <1>4, <1>10, TrialLeft
<1>12. LimitInv' BY <1>4, LimitLeft
<1> QED BY <1>8, <1>9, <1>11, <1>12 DEF TenantInv

LEMMA TenantSweeps == ASSUME TenantInv, NEW h \in Handlers, Tenant!CommitSweep(h) PROVE TenantInv'
<1>1. PICK t : t = ticket[h] OBVIOUS
<1>2. PICK failed \in SUBSET t.subs :
        tsub' = [s \in Subs |-> IF s \in failed THEN [tsub[s] EXCEPT !.late = TRUE]
                                ELSE IF s \in t.subs THEN [tsub[s] EXCEPT !.st = "cancelled"]
                                ELSE tsub[s]]
  <2>1. \E failed \in SUBSET ticket[h].subs :
          tsub' = [s \in Subs |-> IF s \in failed THEN [tsub[s] EXCEPT !.late = TRUE]
                                  ELSE IF s \in ticket[h].subs THEN [tsub[s] EXCEPT !.st = "cancelled"]
                                  ELSE tsub[s]]
    BY Zenon DEF Tenant!CommitSweep
  <2> QED BY <1>1, <2>1, Zenon
<1>3. PICK b \in BOOLEAN : b = (rate.raced \/ t.stale) OBVIOUS
<1>4. PICK p : p = IF t.read.custom \/ t.read.percent = Tenant!Default("free") THEN rate.percent
                   ELSE Tenant!Default("free") OBVIOUS
<1>5. /\ t.op = "sweep" /\ trial' = [trial EXCEPT !.stamped = TRUE]
      /\ rate' = [rate EXCEPT !.percent = p, !.raced = b]
      /\ Tenant!Done(h) /\ UNCHANGED <<plan, used, held, moved>>
  BY <1>1, <1>3, <1>4 DEF Tenant!CommitSweep
<1>6. TenantTypes /\ plan # "none" /\ t \in Sweeps
  BY <1>1, <1>5, TicketKinds DEF TenantInv
<1>7. t.subs \in SUBSET Subs /\ t.read \in Rates /\ t.stale \in BOOLEAN BY <1>6 DEF Sweeps
<1>8. rate' \in Rates /\ rate'.percent = p /\ rate'.custom = rate.custom /\ rate'.raced = b
  <2>1. p \in Percents BY <1>4, <1>6 DEF TenantTypes, Rates, Percents, Tenant!Plans
  <2> QED BY <1>5, <1>6, <2>1 DEF TenantTypes, Rates
<1>9. /\ trial' \in [end : {"none", "ahead", "past"}, stamped : BOOLEAN] /\ trial'.end = trial.end
  BY <1>5, <1>6 DEF TenantTypes
<1>10. ASSUME NEW s \in Subs
       PROVE  /\ tsub'[s] \in [st : {"none", "active", "cancelled"}, late : BOOLEAN]
              /\ tsub'[s].st = "active" => /\ s \in t.subs => tsub'[s].late
                                           /\ tsub[s].st = "active"
                                           /\ tsub[s].late => tsub'[s].late
  <2>1. tsub[s] \in [st : {"none", "active", "cancelled"}, late : BOOLEAN] BY <1>6 DEF TenantTypes
  <2>2. CASE s \in failed
    <3>1. tsub'[s] = [tsub[s] EXCEPT !.late = TRUE] BY <1>2, <2>2
    <3> QED BY <2>1, <3>1
  <2>3. CASE s \notin failed /\ s \in t.subs
    <3>1. tsub'[s] = [tsub[s] EXCEPT !.st = "cancelled"] BY <1>2, <2>3
    <3> QED BY <2>1, <3>1
  <2>4. CASE s \notin failed /\ s \notin t.subs BY <1>2, <2>1, <2>4
  <2> QED BY <2>2, <2>3, <2>4
<1>11. tsub' \in [Subs -> [st : {"none", "active", "cancelled"}, late : BOOLEAN]] BY <1>2, <1>10
<1>12. TenantTypes' BY <1>1, <1>5, <1>6, <1>8, <1>9, <1>11, TypesLeft DEF TenantTypes
<1>13. RateInv'
  <2>1. ASSUME rate'.raced = FALSE
        PROVE  IF rate'.custom THEN rate'.percent \in Deals ELSE rate'.percent = Tenant!Default(plan')
    <3>1. rate.raced = FALSE /\ t.stale = FALSE BY <1>3, <1>6, <1>7, <1>8, <2>1 DEF TenantTypes, Rates
    <3>2. t.read = rate /\ plan = "free" BY <1>1, <1>5, <3>1 DEF TenantInv, RateInv, Overlaps
    <3>3. IF rate.custom THEN rate.percent \in Deals ELSE rate.percent = Tenant!Default(plan)
      BY <1>6, <3>1 DEF TenantInv, RateInv
    <3> QED BY <1>4, <1>5, <1>8, <3>2, <3>3
  <2>2. \A g \in Handlers : Overlaps(ticket[g])' BY <1>5, <1>6, RateDone
  <2> QED BY <2>1, <2>2 DEF RateInv, Tenant!Default
<1>14. TrialInv'
  <2>1. \A subs : Swept(subs) => Swept(subs)' BY <1>5, <1>9, <1>10 DEF Swept
  <2>2. moved = FALSE => Swept(t.subs) BY <1>1, <1>5 DEF TenantInv, TrialInv
  <2>3. moved = FALSE => Swept({})' BY <1>5, <1>9, <1>10, <2>2 DEF Swept
  <2> QED BY <1>5, <2>1, <2>3, TrialLeft
<1>15. LimitInv' BY <1>5, LimitLeft
<1> QED BY <1>12, <1>13, <1>14, <1>15 DEF TenantInv

LEMMA TenantNext ==
  ASSUME TenantInv, [Tenant!Next]_OfTenant
  PROVE  TenantInv'
<1>1. CASE UNCHANGED OfTenant
  <2>1. TenantTypes' BY <1>1 DEF OfTenant, TenantInv, TenantTypes
  <2>2. RateInv' BY <1>1 DEF OfTenant, TenantInv, RateInv, Overlaps
  <2>3. TrialInv' BY <1>1 DEF OfTenant, TenantInv, TrialInv, Swept
  <2>4. LimitInv' BY <1>1 DEF OfTenant, TenantInv, LimitInv, Within, Bound, Counting
  <2> QED BY <2>1, <2>2, <2>3, <2>4 DEF TenantInv
<1>2. CASE \E h \in Handlers :
             \/ \E p \in Tenant!Plans : Tenant!BeginChange(h, p)
             \/ \E k \in Kinds : Tenant!BeginAdd(h, k)
             \/ \E s \in Subs : Tenant!BeginSubscribe(h, s)
             \/ \E v \in Deals : Tenant!BeginDeal(h, v)
             \/ Tenant!BeginSweep(h)
  BY <1>2, TenantBegins
<1> QED
  BY <1>1, <1>2, TenantLives, TenantAdds, TenantRemoves, TenantChanges, TenantDeals,
     TenantSubscribes, TenantSweeps DEF Tenant!Next

LEMMA TenantFollows ==
  ASSUME TenantInv
  PROVE  Tenant!TypeOK /\ Tenant!PlanIsInForce
<1>1. TenantTypes BY DEF TenantInv
<1>2. Tenant!TypeOK BY <1>1 DEF TenantTypes, Rates, Percents, Tenant!TypeOK
<1>3. Tenant!CommissionFollowsPlan
  <2> SUFFICES ASSUME plan # "none", ~rate.raced
               PROVE  IF rate.custom THEN Tenant!Charged \in Deals
                      ELSE Tenant!Charged = Tenant!Default(Tenant!Effective)
    BY DEF Tenant!CommissionFollowsPlan
  <2>1. IF rate.custom THEN rate.percent \in Deals ELSE rate.percent = Tenant!Default(plan)
    BY <1>1 DEF TenantInv, RateInv, TenantTypes, Rates
  <2> QED BY <2>1 DEF Tenant!Charged, Tenant!Effective
<1>4. Tenant!ExcessIsBounded
  <2>1. ASSUME NEW k \in Kinds
        PROVE  used[k] <= (IF held[k] > Cap THEN held[k] ELSE Cap) + Cardinality(Handlers) - 1
    <3>1. Within(k) /\ Cardinality(Counting(k)) \in Nat /\ used[k] \in Nat /\ held[k] \in Nat
      BY <1>1, CountingFacts DEF TenantInv, LimitInv, TenantTypes
    <3> QED BY <3>1, TenantFacts DEF Within, Bound
  <2>2. Tenant!Cardinality(Handlers) = Cardinality(Handlers)
    BY DEF Tenant!Cardinality, Cardinality, Tenant!IsFiniteSet, IsFiniteSet
  <2> QED BY <2>1, <2>2 DEF Tenant!ExcessIsBounded
<1>5. Tenant!TrialEndsSubscriptions
  BY <1>1 DEF TenantInv, TrialInv, Swept, TenantTypes, Tenant!TrialEndsSubscriptions
<1> QED BY <1>2, <1>3, <1>4, <1>5 DEF Tenant!PlanIsInForce

----------------------------------------------------------------------------
(* WalkerCredits *)

Wallet    == [bal : Nat, earned : Nat, spent : Nat, lost : BOOLEAN]
Awards    == [op : {"award"}, read : Wallet, for : SUBSET Deeds, stale : BOOLEAN]
Fines     == [op : {"fine"}, read : Wallet, stale : BOOLEAN]
Boosts    == [op : {"boost"}, read : Wallet, stale : BOOLEAN]
Creates   == [op : {"create"}, stale : BOOLEAN]
Refreshes == [op : {"refresh"}, read : Wallet, for : SUBSET Missions, stale : BOOLEAN,
              to : [Missions -> {"none", "open", "completed"}]]
Duties    == Awards \cup Fines \cup Boosts \cup Creates \cup Refreshes

CreditTypes ==
  /\ wallet \in Wallet /\ earns \in [Deeds \cup Missions -> 0 .. 1] /\ fined \in BOOLEAN
  /\ boosts \in [n : Nat, on : BOOLEAN]
  /\ mission \in [Missions -> {"none", "open", "completed", "expired"}]
  /\ metric \in {"below", "met", "over"}
  /\ DOMAIN duty = Handlers /\ \A h \in Handlers : duty[h] # CR!Idle => duty[h] \in Duties

\* An award pays what was not paid when it was read; when it has been paid since, the
\* wallet shows it.  A boost was paid of a wallet that had as much.
DutyFits(c) ==
  /\ c.op = "award" => c.for = {} \/ \E d \in Deeds : c.for = {d}
  /\ c.op \in {"award", "refresh"} =>
       /\ c.stale = FALSE => \A d \in c.for : earns[d] = 0
       /\ wallet.lost = FALSE => c.read.earned <= wallet.earned
       /\ wallet.lost = FALSE /\ (\E d \in c.for : earns[d] > 0) => c.read.earned < wallet.earned
  /\ c.op = "boost" => c.read.bal >= Fee

\* What has been paid of S.
Paid(S) == {d \in S : earns[d] > 0}

\* What n deeds worth k each are worth.
Worth(k, n) == k * n

BooksFit ==
  wallet.lost = FALSE =>
    /\ wallet.earned = Worth(Gain, Cardinality(Paid(Deeds))) + Worth(Prize, Cardinality(Paid(Missions)))
    /\ wallet.spent = Worth(Fee, boosts.n)
    /\ wallet.bal + wallet.spent <= wallet.earned

CreditInv == CreditTypes /\ (\A h \in Handlers : DutyFits(duty[h])) /\ BooksFit

LEMMA CreditFacts ==
  /\ IsFiniteSet(Deeds) /\ IsFiniteSet(Missions) /\ Deeds \cap Missions = {}
  /\ Gain \in Nat /\ Gain > 0 /\ Prize \in Nat /\ Prize > 0 /\ Fine \in Nat /\ Fee \in Nat
BY CreditParameters DEF CR!ParametersAssumption, CR!IsFiniteSet, IsFiniteSet

LEMMA PaidFacts ==
  ASSUME CreditTypes
  PROVE  /\ IsFiniteSet(Paid(Deeds)) /\ Cardinality(Paid(Deeds)) \in Nat
         /\ IsFiniteSet(Paid(Missions)) /\ Cardinality(Paid(Missions)) \in Nat
<1>1. Paid(Deeds) \subseteq Deeds /\ Paid(Missions) \subseteq Missions BY DEF Paid
<1> QED BY <1>1, CreditFacts, FS_Subset, FS_CardinalityType

\* The duty c is d but for the mark.
SameDuty(c, d) ==
  /\ c \in Duties /\ d \in Duties /\ c.op = d.op
  /\ d.op # "create" => c.read = d.read
  /\ d.op \in {"award", "refresh"} => c.for = d.for

LEMMA MarkedDuty ==
  ASSUME NEW d \in Duties
  PROVE  SameDuty([d EXCEPT !.stale = TRUE], d) /\ [d EXCEPT !.stale = TRUE].stale = TRUE
<1>1. CASE d \in Awards BY <1>1 DEF Duties, Awards, SameDuty
<1>2. CASE d \in Fines BY <1>2 DEF Duties, Fines, SameDuty
<1>3. CASE d \in Boosts BY <1>3 DEF Duties, Boosts, SameDuty
<1>4. CASE d \in Creates BY <1>4 DEF Duties, Creates, SameDuty
<1>5. CASE d \in Refreshes BY <1>5 DEF Duties, Refreshes, SameDuty
<1> QED BY <1>1, <1>2, <1>3, <1>4, <1>5 DEF Duties

LEMMA DutyKinds ==
  ASSUME CreditTypes, NEW h \in Handlers, duty[h].op # "idle"
  PROVE  /\ duty[h].op = "award" => duty[h] \in Awards
         /\ duty[h].op = "fine" => duty[h] \in Fines
         /\ duty[h].op = "boost" => duty[h] \in Boosts
         /\ duty[h].op = "create" => duty[h] \in Creates
         /\ duty[h].op = "refresh" => duty[h] \in Refreshes
<1>1. duty[h] # CR!Idle BY DEF CR!Idle
<1>2. duty[h] \in Duties BY <1>1 DEF CreditTypes
<1> QED BY <1>2 DEF Duties, Awards, Fines, Boosts, Creates, Refreshes

\* The others, when one request ends: all know of an old wallet, and it has not shrunk.
LEMMA DutiesLeft ==
  ASSUME CreditInv, NEW h \in Handlers, CR!Done(h), wallet' \in Wallet,
         earns' \in [Deeds \cup Missions -> 0 .. 1],
         wallet'.lost = FALSE => /\ wallet.lost = FALSE /\ wallet.earned <= wallet'.earned
                                 /\ \A d \in Deeds \cup Missions :
                                      earns'[d] > 0 /\ earns[d] = 0 => wallet.earned < wallet'.earned
  PROVE  /\ DOMAIN duty' = Handlers
         /\ \A g \in Handlers : duty'[g] # CR!Idle => duty'[g] \in Duties
         /\ \A g \in Handlers : DutyFits(duty[g])'
<1>1. DOMAIN duty' = Handlers BY DEF CR!Done
<1>2. ASSUME NEW g \in Handlers
      PROVE  (duty'[g] # CR!Idle => duty'[g] \in Duties) /\ DutyFits(duty[g])'
  <2>1. CASE g = h \/ duty[g] = CR!Idle
    <3>1. duty'[g] = CR!Idle BY <2>1 DEF CR!Done
    <3> QED BY <3>1 DEF DutyFits, CR!Idle
  <2>2. CASE ~(g = h \/ duty[g] = CR!Idle)
    <3>1. PICK c : c = duty[g] OBVIOUS
    <3>2. PICK e : e = [c EXCEPT !.stale = TRUE] OBVIOUS
    <3>3. duty'[g] = e BY <2>2, <3>1, <3>2 DEF CR!Done
    <3>4. c \in Duties BY <2>2, <3>1 DEF CreditInv, CreditTypes
    <3>5. SameDuty(e, c) /\ e.stale = TRUE BY <3>2, <3>4, MarkedDuty
    <3>6. DutyFits(c) BY <3>1 DEF CreditInv
    <3>7. /\ e.op = "award" => e.for = {} \/ \E d \in Deeds : e.for = {d}
          /\ e.op = "boost" => e.read.bal >= Fee
      BY <3>5, <3>6 DEF DutyFits, SameDuty
    <3>8. ASSUME e.op \in {"award", "refresh"}, wallet'.lost = FALSE
          PROVE  /\ e.read.earned <= wallet'.earned
                 /\ (\E d \in e.for : earns'[d] > 0) => e.read.earned < wallet'.earned
      <4>1. c.op = e.op /\ e.read = c.read /\ e.for = c.for BY <3>5, <3>8 DEF SameDuty
      <4>2. c.read \in Wallet /\ c.for \subseteq Deeds \cup Missions
        BY <3>4, <3>8, <4>1 DEF Duties, Awards, Fines, Boosts, Creates, Refreshes
      <4>3. c.read.earned \in Nat /\ wallet.earned \in Nat /\ wallet'.earned \in Nat
        BY <4>2 DEF Wallet, CreditInv, CreditTypes
      <4>4. /\ c.read.earned <= wallet.earned /\ wallet.earned <= wallet'.earned
            /\ (\E d \in c.for : earns[d] > 0) => c.read.earned < wallet.earned
        BY <3>6, <3>8, <4>1 DEF DutyFits
      <4>5. ASSUME NEW d \in e.for, earns'[d] > 0 PROVE e.read.earned < wallet'.earned
        <5>1. d \in Deeds \cup Missions /\ earns[d] \in 0 .. 1
          BY <4>1, <4>2, <4>5 DEF CreditInv, CreditTypes
        <5>2. CASE earns[d] > 0 BY <4>1, <4>3, <4>4, <4>5, <5>2
        <5>3. CASE earns[d] = 0
          <6>1. wallet.earned < wallet'.earned BY <3>8, <4>5, <5>1, <5>3
          <6> QED BY <4>1, <4>3, <4>4, <6>1
        <5> QED BY <5>1, <5>2, <5>3
      <4> QED BY <4>1, <4>3, <4>4, <4>5
    <3> QED BY <3>3, <3>5, <3>7, <3>8 DEF DutyFits, SameDuty
  <2> QED BY <2>1, <2>2
<1> QED BY <1>1, <1>2

\* What a request writes: nothing, or its own wallet over the one it read; else it is lost.
LEMMA WrittenFacts ==
  ASSUME CreditTypes, NEW h \in Handlers, duty[h].read \in Wallet, NEW w \in Wallet,
         w.lost = duty[h].read.lost, wallet' = CR!Written(h, w)
  PROVE  /\ wallet' \in Wallet
         /\ wallet'.lost = FALSE =>
              /\ wallet.lost = FALSE
              /\ w = duty[h].read => /\ wallet'.bal = wallet.bal /\ wallet'.earned = wallet.earned
                                     /\ wallet'.spent = wallet.spent
              /\ w # duty[h].read =>
                   /\ wallet.bal = duty[h].read.bal /\ wallet.earned = duty[h].read.earned
                   /\ wallet.spent = duty[h].read.spent
                   /\ wallet'.bal = w.bal /\ wallet'.earned = w.earned /\ wallet'.spent = w.spent
<1>1. PICK r : r = duty[h].read OBVIOUS
<1>2. r \in Wallet /\ wallet \in Wallet BY <1>1 DEF CreditTypes
<1>3. PICK b \in BOOLEAN :
        b = (wallet.lost \/ (w # r /\ [r EXCEPT !.lost = FALSE] # [wallet EXCEPT !.lost = FALSE]))
  OBVIOUS
<1>4. wallet' = [bal    |-> IF w.bal = r.bal THEN wallet.bal ELSE w.bal,
                 earned |-> IF w.earned = r.earned THEN wallet.earned ELSE w.earned,
                 spent  |-> IF w.spent = r.spent THEN wallet.spent ELSE w.spent,
                 lost   |-> b]
  BY <1>1, <1>3 DEF CR!Written
<1>5. wallet' \in Wallet /\ wallet'.lost = b BY <1>2, <1>4 DEF Wallet
<1>6. ASSUME b = FALSE, w # r
      PROVE  wallet.bal = r.bal /\ wallet.earned = r.earned /\ wallet.spent = r.spent
  <2>1. [r EXCEPT !.lost = FALSE] = [wallet EXCEPT !.lost = FALSE] BY <1>3, <1>6
  <2>2. /\ [r EXCEPT !.lost = FALSE].bal = r.bal /\ [r EXCEPT !.lost = FALSE].earned = r.earned
        /\ [r EXCEPT !.lost = FALSE].spent = r.spent
    BY <1>2 DEF Wallet
  <2>3. /\ [wallet EXCEPT !.lost = FALSE].bal = wallet.bal
        /\ [wallet EXCEPT !.lost = FALSE].earned = wallet.earned
        /\ [wallet EXCEPT !.lost = FALSE].spent = wallet.spent
    BY <1>2 DEF Wallet
  <2> QED BY <2>1, <2>2, <2>3
<1>7. b = FALSE => wallet.lost = FALSE BY <1>2, <1>3 DEF Wallet
<1>8. /\ wallet'.bal = IF w.bal = r.bal THEN wallet.bal ELSE w.bal
      /\ wallet'.earned = IF w.earned = r.earned THEN wallet.earned ELSE w.earned
      /\ wallet'.spent = IF w.spent = r.spent THEN wallet.spent ELSE w.spent
  BY <1>4
<1> QED BY <1>1, <1>5, <1>6, <1>7, <1>8

LEMMA CreditInit == ASSUME CR!Init PROVE CreditInv
<1> USE CreditFacts DEF CR!Init
<1>1. \A h \in Handlers : duty[h] = CR!Idle /\ duty[h].op = "idle" BY DEF CR!Idle
<1>2. CreditTypes
  <2>1. wallet \in Wallet BY DEF Wallet
  <2>2. earns \in [Deeds \cup Missions -> 0 .. 1] OBVIOUS
  <2>3. boosts \in [n : Nat, on : BOOLEAN] /\ fined \in BOOLEAN OBVIOUS
  <2>4. mission \in [Missions -> {"none", "open", "completed", "expired"}] OBVIOUS
  <2> QED BY <1>1, <2>1, <2>2, <2>3, <2>4 DEF CreditTypes
<1>3. Paid(Deeds) = {} /\ Paid(Missions) = {} BY DEF Paid
<1>4. Cardinality(Paid(Deeds)) = 0 /\ Cardinality(Paid(Missions)) = 0 BY <1>3, FS_EmptySet
<1>5. BooksFit
  <2>1. Worth(Gain, 0) = 0 /\ Worth(Prize, 0) = 0 /\ Worth(Fee, 0) = 0 BY DEF Worth
  <2> QED BY <1>4, <2>1 DEF BooksFit
<1> QED BY <1>1, <1>2, <1>5 DEF CreditInv, DutyFits

\* A request that comes in.
LEMMA CreditStarts ==
  ASSUME CreditInv, NEW h \in Handlers, NEW c \in Duties, CR!Start(h, c), DutyFits(c)
  PROVE  CreditInv'
<1>1. /\ duty' = [duty EXCEPT ![h] = c]
      /\ UNCHANGED <<wallet, earns, fined, boosts, mission, metric>>
  BY DEF CR!Start
<1>2. /\ DOMAIN duty' = Handlers /\ duty'[h] = c
      /\ \A g \in Handlers \ {h} : duty'[g] = duty[g]
  BY <1>1 DEF CreditInv, CreditTypes
<1>3. CreditTypes' BY <1>1, <1>2 DEF CreditInv, CreditTypes
<1>4. \A g \in Handlers : DutyFits(duty[g])' BY <1>1, <1>2 DEF CreditInv, DutyFits
<1>5. BooksFit' BY <1>1 DEF CreditInv, BooksFit, Paid
<1> QED BY <1>3, <1>4, <1>5 DEF CreditInv

LEMMA CreditBegins ==
  ASSUME CreditInv, NEW h \in Handlers,
         \/ \E d \in Deeds : CR!BeginAward(h, d)
         \/ CR!BeginFine(h) \/ CR!BeginBoost(h) \/ CR!BeginMission(h) \/ CR!BeginRefresh(h)
  PROVE  CreditInv'
<1> USE DEF Duties
<1>1. CreditTypes /\ wallet \in Wallet /\ wallet.earned \in Nat BY DEF CreditInv, CreditTypes, Wallet
<1>2. CASE \E d \in Deeds : CR!BeginAward(h, d)
  <2>1. PICK d \in Deeds : CR!BeginAward(h, d) BY <1>2
  <2>2. PICK f : f = IF CR!AlreadyAwarded(d) THEN {} ELSE {d} OBVIOUS
  <2>3. PICK c : c = [op |-> "award", read |-> wallet, for |-> f, stale |-> FALSE] OBVIOUS
  <2>4. CR!Start(h, c) BY <2>1, <2>2, <2>3 DEF CR!BeginAward
  <2>5. f \in SUBSET Deeds /\ (f = {} \/ f = {d}) BY <2>2
  <2>6. \A e \in f : earns[e] = 0
    BY <1>1, <2>2 DEF CR!AlreadyAwarded, CreditTypes
  <2>7. c \in Awards /\ c.op = "award" /\ c.read = wallet /\ c.for = f BY <1>1, <2>3, <2>5 DEF Awards
  <2>8. DutyFits(c) BY <1>1, <2>5, <2>6, <2>7 DEF DutyFits
  <2> QED BY <2>4, <2>7, <2>8, CreditStarts
<1>3. CASE CR!BeginFine(h)
  <2>1. PICK c : c = [op |-> "fine", read |-> wallet, stale |-> FALSE] OBVIOUS
  <2>2. c \in Fines /\ c.op = "fine" BY <1>1, <2>1 DEF Fines
  <2> QED BY <1>3, <2>1, <2>2, CreditStarts DEF CR!BeginFine, DutyFits
<1>4. CASE CR!BeginBoost(h)
  <2>1. PICK c : c = [op |-> "boost", read |-> wallet, stale |-> FALSE] OBVIOUS
  <2>2. c \in Boosts /\ c.op = "boost" /\ c.read = wallet BY <1>1, <2>1 DEF Boosts
  <2> QED BY <1>4, <2>1, <2>2, CreditStarts DEF CR!BeginBoost, CR!Afforded, DutyFits
<1>5. CASE CR!BeginMission(h)
  <2>1. PICK c : c = [op |-> "create", stale |-> FALSE] OBVIOUS
  <2>2. c \in Creates /\ c.op = "create" BY <2>1 DEF Creates
  <2> QED BY <1>5, <2>1, <2>2, CreditStarts DEF CR!BeginMission, DutyFits
<1>6. CASE CR!BeginRefresh(h)
  <2>1. PICK f : f = CR!Rewarded OBVIOUS
  <2>2. PICK t : t = [m \in Missions |-> CR!Refreshed(m)] OBVIOUS
  <2>3. PICK c : c = [op |-> "refresh", read |-> wallet, for |-> f, stale |-> FALSE, to |-> t] OBVIOUS
  <2>4. CR!Start(h, c) BY <1>6, <2>1, <2>2, <2>3 DEF CR!BeginRefresh
  <2>5. f \in SUBSET Missions BY <2>1 DEF CR!Rewarded
  <2>6. \A e \in f : earns[e] = 0
    BY <1>1, <2>1 DEF CR!Rewarded, CR!AlreadyAwarded, CreditTypes
  <2>7. t \in [Missions -> {"none", "open", "completed"}] BY <2>2 DEF CR!Refreshed
  <2>8. c \in Refreshes /\ c.op = "refresh" /\ c.read = wallet /\ c.for = f
    BY <1>1, <2>3, <2>5, <2>7 DEF Refreshes
  <2>9. DutyFits(c) BY <1>1, <2>6, <2>8 DEF DutyFits
  <2> QED BY <2>4, <2>8, <2>9, CreditStarts
<1> QED BY <1>2, <1>3, <1>4, <1>5, <1>6

\* What happens meanwhile: figures move, a boost runs out, the week ends.
LEMMA CreditLives ==
  ASSUME CreditInv, CR!MetricMoves \/ CR!BoostEnds \/ CR!WeekEnds
  PROVE  CreditInv'
<1>1. UNCHANGED <<wallet, earns, duty>> /\ boosts'.n = boosts.n
  BY DEF CR!MetricMoves, CR!BoostEnds, CR!WeekEnds, CreditInv, CreditTypes
<1>2. CreditTypes'
  <2>1. CASE CR!MetricMoves BY <2>1 DEF CR!MetricMoves, CreditInv, CreditTypes
  <2>2. CASE CR!BoostEnds BY <2>2 DEF CR!BoostEnds, CreditInv, CreditTypes
  <2>3. CASE CR!WeekEnds BY <2>3 DEF CR!WeekEnds, CreditInv, CreditTypes
  <2> QED BY <2>1, <2>2, <2>3
<1>3. \A g \in Handlers : DutyFits(duty[g])' BY <1>1 DEF CreditInv, DutyFits
<1>4. BooksFit' BY <1>1 DEF CreditInv, BooksFit, Paid
<1> QED BY <1>2, <1>3, <1>4 DEF CreditInv

LEMMA WalletFacts ==
  ASSUME NEW r \in Wallet, NEW n \in Nat
  PROVE  /\ CR!Earned(r, n) \in Wallet /\ CR!Earned(r, n).bal = r.bal + n
         /\ CR!Earned(r, n).earned = r.earned + n
         /\ CR!Earned(r, n).spent = r.spent /\ CR!Earned(r, n).lost = r.lost
         /\ r.bal >= Fee => /\ CR!Spent(r) \in Wallet /\ CR!Spent(r).bal = r.bal - Fee
                            /\ CR!Spent(r).spent = r.spent + Fee
                            /\ CR!Spent(r).earned = r.earned /\ CR!Spent(r).lost = r.lost
<1>1. r.bal \in Nat /\ r.earned \in Nat /\ r.spent \in Nat /\ r.lost \in BOOLEAN /\ Fee \in Nat
  BY CreditFacts DEF Wallet
<1>2. PICK m \in Nat : m = r.bal + n BY <1>1
<1>3. PICK k \in Nat : k = r.earned + n BY <1>1
<1>4. CR!Earned(r, n) = [r EXCEPT !.bal = m, !.earned = k] BY <1>2, <1>3 DEF CR!Earned
<1>5. /\ CR!Earned(r, n) \in Wallet /\ CR!Earned(r, n).bal = m /\ CR!Earned(r, n).earned = k
      /\ CR!Earned(r, n).spent = r.spent /\ CR!Earned(r, n).lost = r.lost
  BY <1>2, <1>3, <1>4 DEF Wallet
<1>6. ASSUME r.bal >= Fee
      PROVE  /\ CR!Spent(r) \in Wallet /\ CR!Spent(r).bal = r.bal - Fee
             /\ CR!Spent(r).spent = r.spent + Fee
             /\ CR!Spent(r).earned = r.earned /\ CR!Spent(r).lost = r.lost
  <2>1. PICK j \in Nat : j = IF r.bal < Fee THEN 0 ELSE r.bal - Fee BY <1>1
  <2>2. PICK s \in Nat : s = r.spent + Fee BY <1>1
  <2>3. CR!Spent(r) = [r EXCEPT !.bal = j, !.spent = s] BY <2>1, <2>2 DEF CR!Spent
  <2>4. j = r.bal - Fee BY <1>1, <1>6, <2>1
  <2> QED BY <2>1, <2>2, <2>3, <2>4 DEF Wallet
<1> QED BY <1>2, <1>3, <1>5, <1>6

\* What an award counts: each deed it is for, unless that one has been paid since.
LEMMA CountedFacts ==
  ASSUME CreditInv, NEW h \in Handlers, duty[h].op \in {"award", "refresh"},
         earns' = CR!Counted(h)
  PROVE  /\ earns' \in [Deeds \cup Missions -> 0 .. 1]
         /\ \A d \in Deeds \cup Missions :
              earns'[d] > 0 <=> d \in duty[h].for \/ earns[d] > 0
<1>1. PICK c : c = duty[h] OBVIOUS
<1>2. DutyFits(c) /\ earns \in [Deeds \cup Missions -> 0 .. 1]
  BY <1>1 DEF CreditInv, CreditTypes
<1>3. c.stale \in BOOLEAN BY <1>1, DutyKinds DEF Awards, Refreshes, CreditInv
<1>4. ASSUME NEW d \in Deeds \cup Missions
      PROVE  earns'[d] \in 0 .. 1 /\ (earns'[d] > 0 <=> d \in c.for \/ earns[d] > 0)
  <2>1. earns'[d] = IF d \in c.for /\ ~(c.stale /\ earns[d] > 0) THEN earns[d] + 1 ELSE earns[d]
    BY <1>1, <1>2, <1>4 DEF CR!Counted
  <2>2. earns[d] \in 0 .. 1 BY <1>2
  <2>3. d \in c.for /\ c.stale = FALSE => earns[d] = 0 BY <1>1, <1>2 DEF DutyFits
  <2> QED BY <1>3, <2>1, <2>2, <2>3
<1>5. DOMAIN earns' = Deeds \cup Missions BY <1>2 DEF CR!Counted
<1>6. earns' = [d \in DOMAIN earns' |-> earns'[d]] BY DEF CR!Counted
<1> QED BY <1>1, <1>4, <1>5, <1>6

LEMMA WorthAdds ==
  \A k, m, n \in Nat : Worth(k, m + n) = Worth(k, m) + Worth(k, n) /\ Worth(k, m) \in Nat
BY DEF Worth

LEMMA Distributes ==
  ASSUME NEW k \in Nat, NEW m \in Nat, NEW n \in Nat
  PROVE  /\ Worth(k, m + n) = Worth(k, m) + Worth(k, n) /\ Worth(k, m) \in Nat
         /\ k > 0 /\ m > 0 => Worth(k, m) > 0
         /\ Worth(k, 0) = 0 /\ Worth(k, 1) = k
BY DEF Worth

LEMMA DisjointUnion ==
  ASSUME NEW A, NEW B, IsFiniteSet(A), IsFiniteSet(B), A \cap B = {}
  PROVE  Cardinality(A \cup B) = Cardinality(A) + Cardinality(B)
<1>1. Cardinality(A \cup B) = Cardinality(A) + Cardinality(B) - Cardinality(A \cap B) BY FS_Union
<1>2. Cardinality(A \cap B) = 0 BY FS_EmptySet
<1> QED BY <1>1, <1>2, FS_CardinalityType

\* The request h awards a deeds and b missions, which makes its wallet w, by n richer.
Pays(h, a, b, n, w) ==
  LET r == duty[h].read  f == duty[h].for
  IN /\ duty[h].op \in {"award", "refresh"} /\ r \in Wallet /\ f \subseteq Deeds \cup Missions
     /\ a \in Nat /\ a = Cardinality(f \cap Deeds) /\ b \in Nat /\ b = Cardinality(f \cap Missions)
     /\ n \in Nat /\ n = Worth(Gain, a) + Worth(Prize, b)
     /\ w \in Wallet /\ w.lost = r.lost /\ w.spent = r.spent
     /\ w.bal = r.bal + n /\ w.earned = r.earned + n

\* The books after an award.
LEMMA CreditPays ==
  ASSUME CreditInv, NEW h \in Handlers, NEW a, NEW b, NEW n, NEW w, Pays(h, a, b, n, w),
         wallet' = CR!Written(h, w), earns' = CR!Counted(h), boosts' = boosts
  PROVE  /\ wallet' \in Wallet /\ earns' \in [Deeds \cup Missions -> 0 .. 1]
         /\ wallet'.lost = FALSE =>
              /\ wallet.lost = FALSE /\ wallet.earned <= wallet'.earned
              /\ \A d \in Deeds \cup Missions :
                   earns'[d] > 0 /\ earns[d] = 0 => wallet.earned < wallet'.earned
         /\ BooksFit'
<1> USE CreditFacts
<1>r. PICK r : r = duty[h].read OBVIOUS
<1>f. PICK f : f = duty[h].for OBVIOUS
<1>0. /\ duty[h].op \in {"award", "refresh"} /\ r \in Wallet /\ f \subseteq Deeds \cup Missions
      /\ a \in Nat /\ a = Cardinality(f \cap Deeds) /\ b \in Nat /\ b = Cardinality(f \cap Missions)
      /\ n \in Nat /\ n = Worth(Gain, a) + Worth(Prize, b)
      /\ w \in Wallet /\ w.lost = r.lost /\ w.spent = r.spent
      /\ w.bal = r.bal + n /\ w.earned = r.earned + n
  BY <1>r, <1>f DEF Pays
<1> USE <1>r, <1>f, <1>0
<1>1. CreditTypes /\ wallet.earned \in Nat /\ r.earned \in Nat /\ r.bal \in Nat /\ boosts.n \in Nat
      /\ wallet.bal \in Nat /\ wallet.spent \in Nat /\ Worth(Fee, boosts.n) \in Nat
  BY Distributes DEF CreditInv, CreditTypes, Wallet
<1>2. /\ earns' \in [Deeds \cup Missions -> 0 .. 1] /\ earns \in [Deeds \cup Missions -> 0 .. 1]
      /\ \A d \in Deeds \cup Missions : earns'[d] > 0 <=> d \in f \/ earns[d] > 0
  BY CountedFacts DEF CreditInv, CreditTypes
<1>3. /\ wallet' \in Wallet
      /\ wallet'.lost = FALSE =>
           /\ wallet.lost = FALSE
           /\ w = r => /\ wallet'.bal = wallet.bal /\ wallet'.earned = wallet.earned
                       /\ wallet'.spent = wallet.spent
           /\ w # r => /\ wallet.bal = r.bal /\ wallet.earned = r.earned /\ wallet.spent = r.spent
                       /\ wallet'.bal = w.bal /\ wallet'.earned = w.earned /\ wallet'.spent = w.spent
  BY <1>1, WrittenFacts
<1>4. /\ IsFiniteSet(f \cap Deeds) /\ IsFiniteSet(f \cap Missions)
  BY FS_Subset
<1>5. PICK x \in Nat : x = Worth(Gain, a) /\ (a > 0 => x > 0) BY Distributes
<1>8. PICK y \in Nat : y = Worth(Prize, b) /\ (b > 0 => y > 0) BY Distributes
<1>9. n = x + y BY <1>5, <1>8
<1>6. CASE n = 0
  <2>0. x = 0 /\ y = 0 BY <1>5, <1>6, <1>8, <1>9
  <2>a. ~(a > 0) BY <1>5, <2>0
  <2>b. ~(b > 0) BY <1>8, <2>0
  <2>1. a = 0 /\ b = 0 BY <2>a, <2>b
  <2>2. f \cap Deeds = {} /\ f \cap Missions = {} BY <1>4, <2>1, FS_EmptySet
  <2>3. f = {} BY <2>2
  <2>4. w = r BY <1>1, <1>6 DEF Wallet
  <2>5. Paid(Deeds)' = Paid(Deeds) /\ Paid(Missions)' = Paid(Missions)
    BY <1>2, <2>3 DEF Paid
  <2>6. BooksFit' BY <1>3, <2>4, <2>5 DEF CreditInv, BooksFit
  <2>7. \A d \in Deeds \cup Missions : ~(earns'[d] > 0 /\ earns[d] = 0) BY <1>2, <2>3
  <2> QED BY <1>1, <1>2, <1>3, <2>4, <2>6, <2>7
<1>7. CASE n > 0
  <2>1. w # r BY <1>1, <1>7
  <2>a. wallet'.lost # FALSE => BooksFit' BY DEF BooksFit
  <2>b. wallet'.earned \in Nat BY <1>3 DEF Wallet
  <2>2. ASSUME wallet'.lost = FALSE PROVE wallet.earned < wallet'.earned /\ BooksFit'
    <3>2. /\ wallet.lost = FALSE /\ wallet.bal = r.bal /\ wallet.earned = r.earned
          /\ wallet.spent = r.spent /\ wallet'.bal = r.bal + n /\ wallet'.earned = r.earned + n
          /\ wallet'.spent = r.spent
      BY <1>3, <2>1, <2>2
    <3>3. \A d \in f : earns[d] = 0
      <4>1. DutyFits(duty[h]) BY DEF CreditInv
      <4>2. \A d \in f : ~(earns[d] > 0) BY <1>1, <3>2, <4>1 DEF DutyFits
      <4> QED BY <1>2, <4>2
    <3>4. /\ Paid(Deeds)' = Paid(Deeds) \cup (f \cap Deeds) /\ Paid(Deeds) \cap (f \cap Deeds) = {}
          /\ Paid(Missions)' = Paid(Missions) \cup (f \cap Missions)
          /\ Paid(Missions) \cap (f \cap Missions) = {}
      BY <1>2, <3>3 DEF Paid
    <3>5. PICK p \in Nat : p = Cardinality(Paid(Deeds)) BY <1>1, PaidFacts
    <3>6. PICK q \in Nat : q = Cardinality(Paid(Missions)) BY <1>1, PaidFacts
    <3>7. Cardinality(Paid(Deeds)') = p + a
      BY <1>1, <1>4, <3>4, <3>5, PaidFacts, DisjointUnion
    <3>8. Cardinality(Paid(Missions)') = q + b
      BY <1>1, <1>4, <3>4, <3>6, PaidFacts, DisjointUnion
    <3>9. /\ wallet.earned = Worth(Gain, p) + Worth(Prize, q) /\ wallet.spent = Worth(Fee, boosts.n)
          /\ wallet.bal + wallet.spent <= wallet.earned
      BY <3>2, <3>5, <3>6 DEF CreditInv, BooksFit
    <3>10. wallet'.earned = Worth(Gain, p + a) + Worth(Prize, q + b)
      <4>1. Worth(Gain, p + a) = Worth(Gain, p) + Worth(Gain, a) /\ Worth(Gain, p) \in Nat
        BY <3>5, WorthAdds
      <4>2. Worth(Prize, q + b) = Worth(Prize, q) + Worth(Prize, b) /\ Worth(Prize, q) \in Nat
        BY <3>6, WorthAdds
      <4> QED BY <1>5, <1>8, <1>9, <3>2, <3>9, <4>1, <4>2
    <3>11. wallet'.bal + wallet'.spent <= wallet'.earned /\ wallet.earned < wallet'.earned
      BY <1>1, <1>7, <3>2, <3>9
    <3> QED BY <3>2, <3>7, <3>8, <3>9, <3>10, <3>11 DEF BooksFit
  <2>3. BooksFit' BY <2>a, <2>2
  <2>4. ASSUME wallet'.lost = FALSE
        PROVE  /\ wallet.lost = FALSE /\ wallet.earned <= wallet'.earned
               /\ \A d \in Deeds \cup Missions :
                    earns'[d] > 0 /\ earns[d] = 0 => wallet.earned < wallet'.earned
    <3>1. wallet.earned < wallet'.earned BY <2>2, <2>4
    <3>2. wallet.lost = FALSE BY <1>3, <2>4
    <3>3. wallet.earned <= wallet'.earned BY <1>1, <2>b, <3>1
    <3> QED BY <3>1, <3>2, <3>3
  <2> QED BY <1>2, <1>3, <2>3, <2>4
<1>10. n = 0 \/ n > 0 OBVIOUS
<1> QED BY <1>6, <1>7, <1>10

\* How a step that writes types, wallet and books ends a request.
LEMMA CreditEnds ==
  ASSUME CreditInv, NEW h \in Handlers, CR!Done(h), wallet' \in Wallet,
         earns' \in [Deeds \cup Missions -> 0 .. 1],
         wallet'.lost = FALSE => /\ wallet.lost = FALSE /\ wallet.earned <= wallet'.earned
                                 /\ \A d \in Deeds \cup Missions :
                                      earns'[d] > 0 /\ earns[d] = 0 => wallet.earned < wallet'.earned,
         fined' \in BOOLEAN, boosts' \in [n : Nat, on : BOOLEAN], metric' = metric,
         mission' \in [Missions -> {"none", "open", "completed", "expired"}], BooksFit'
  PROVE  CreditInv'
<1>1. /\ DOMAIN duty' = Handlers
      /\ \A g \in Handlers : duty'[g] # CR!Idle => duty'[g] \in Duties
      /\ \A g \in Handlers : DutyFits(duty[g])'
  BY DutiesLeft
<1> QED BY <1>1 DEF CreditInv, CreditTypes

LEMMA CreditAwards == ASSUME CreditInv, NEW h \in Handlers, CR!CommitAward(h) PROVE CreditInv'
<1> USE CreditFacts
<1>1. PICK r : r = duty[h].read OBVIOUS
<1>2. PICK f : f = duty[h].for OBVIOUS
<1>3. PICK w : w = IF f = {} THEN r ELSE CR!Earned(r, Gain) OBVIOUS
<1>4. /\ duty[h].op = "award" /\ wallet' = CR!Written(h, w) /\ earns' = CR!Counted(h)
      /\ CR!Done(h) /\ UNCHANGED <<fined, boosts, mission, metric>>
  BY <1>1, <1>2, <1>3 DEF CR!CommitAward
<1>5. r \in Wallet /\ f \in SUBSET Deeds /\ (f = {} \/ \E d \in Deeds : f = {d})
  BY <1>1, <1>2, <1>4, DutyKinds DEF Awards, CreditInv, DutyFits
<1>6. PICK a \in Nat : a = IF f = {} THEN 0 ELSE 1 OBVIOUS
<1>0. PICK b \in Nat : b = 0 OBVIOUS
<1>7. a = Cardinality(f \cap Deeds) /\ b = Cardinality(f \cap Missions)
  <2>1. f \cap Deeds = f /\ f \cap Missions = {} BY <1>5
  <2>2. CASE f = {} BY <1>0, <1>6, <2>1, <2>2, FS_EmptySet
  <2>3. CASE f # {}
    <3>1. PICK d : f = {d} BY <1>5, <2>3
    <3> QED BY <1>0, <1>6, <2>1, <2>3, <3>1, FS_Singleton, FS_EmptySet
  <2> QED BY <2>2, <2>3
<1>8. PICK n \in Nat : n = IF f = {} THEN 0 ELSE Gain OBVIOUS
<1>9. n = Worth(Gain, a) + Worth(Prize, b)
  <2>1. Worth(Prize, 0) = 0 /\ Worth(Gain, 0) = 0 /\ Worth(Gain, 1) = Gain BY DEF Worth
  <2> QED BY <1>0, <1>6, <1>8, <2>1
<1>10. w \in Wallet /\ w.lost = r.lost /\ w.bal = r.bal + n /\ w.earned = r.earned + n /\ w.spent = r.spent
  <2>1. CASE f = {} BY <1>3, <1>5, <1>8, <2>1 DEF Wallet
  <2>2. CASE f # {}
    <3>1. w = CR!Earned(r, n) BY <1>3, <1>8, <2>2
    <3> QED BY <1>5, <1>8, <3>1, WalletFacts
  <2> QED BY <2>1, <2>2
<1>11. /\ wallet' \in Wallet /\ earns' \in [Deeds \cup Missions -> 0 .. 1]
       /\ wallet'.lost = FALSE =>
            /\ wallet.lost = FALSE /\ wallet.earned <= wallet'.earned
            /\ \A d \in Deeds \cup Missions :
                 earns'[d] > 0 /\ earns[d] = 0 => wallet.earned < wallet'.earned
       /\ BooksFit'
  <2>1. f \subseteq Deeds \cup Missions /\ duty[h].op \in {"award", "refresh"} BY <1>4, <1>5
  <2>2. Pays(h, a, b, n, w) BY <1>0, <1>1, <1>2, <1>5, <1>6, <1>7, <1>8, <1>9, <1>10, <2>1 DEF Pays
  <2> QED BY <1>4, <2>2, CreditPays
<1> QED BY <1>4, <1>11, CreditEnds DEF CreditInv, CreditTypes

LEMMA CreditRefreshes == ASSUME CreditInv, NEW h \in Handlers, CR!CommitRefresh(h) PROVE CreditInv'
<1> USE CreditFacts
<1>1. PICK r : r = duty[h].read OBVIOUS
<1>2. PICK f : f = duty[h].for OBVIOUS
<1>3. CR!Cardinality(f) = Cardinality(f)
  BY DEF CR!Cardinality, Cardinality, CR!IsFiniteSet, IsFiniteSet
<1>4. duty[h].op = "refresh" /\ earns' = CR!Counted(h) /\ CR!Done(h) /\ UNCHANGED <<fined, boosts, metric>>
  BY DEF CR!CommitRefresh
<1>5. duty[h] \in Refreshes BY <1>4, DutyKinds DEF CreditInv
<1>6. r \in Wallet /\ f \in SUBSET Missions /\ duty[h].to \in [Missions -> {"none", "open", "completed"}]
  BY <1>1, <1>2, <1>5 DEF Refreshes
<1>7. PICK b \in Nat : b = Cardinality(f)
  <2>1. IsFiniteSet(f) BY <1>6, FS_Subset
  <2> QED BY <2>1, FS_CardinalityType
<1>0. PICK a \in Nat : a = 0 OBVIOUS
<1>8. a = Cardinality(f \cap Deeds) /\ b = Cardinality(f \cap Missions)
  <2>1. f \cap Missions = f /\ f \cap Deeds = {} BY <1>6
  <2> QED BY <1>0, <1>7, <2>1, FS_EmptySet
<1>9. PICK n \in Nat : n = Worth(Prize, b) BY <1>7, WorthAdds
<1>10. n = Worth(Gain, a) + Worth(Prize, b)
  <2>1. Worth(Gain, 0) = 0 BY DEF Worth
  <2> QED BY <1>0, <1>9, <2>1
<1>11. PICK w : w = CR!Earned(r, n) OBVIOUS
<1>12. wallet' = CR!Written(h, w)
  <2>1. n = Prize * CR!Cardinality(f) BY <1>3, <1>7, <1>9 DEF Worth
  <2>2. wallet' = CR!Written(h, CR!Earned(duty[h].read, Prize * CR!Cardinality(duty[h].for)))
    BY DEF CR!CommitRefresh
  <2> QED BY <1>1, <1>2, <1>11, <2>1, <2>2
<1>13. w \in Wallet /\ w.lost = r.lost /\ w.bal = r.bal + n /\ w.earned = r.earned + n /\ w.spent = r.spent
  BY <1>6, <1>9, <1>11, WalletFacts
<1>14. /\ wallet' \in Wallet /\ earns' \in [Deeds \cup Missions -> 0 .. 1]
       /\ wallet'.lost = FALSE =>
            /\ wallet.lost = FALSE /\ wallet.earned <= wallet'.earned
            /\ \A d \in Deeds \cup Missions :
                 earns'[d] > 0 /\ earns[d] = 0 => wallet.earned < wallet'.earned
       /\ BooksFit'
  <2>1. f \subseteq Deeds \cup Missions /\ duty[h].op \in {"award", "refresh"} BY <1>4, <1>6
  <2>2. Pays(h, a, b, n, w) BY <1>0, <1>1, <1>2, <1>6, <1>7, <1>8, <1>9, <1>10, <1>13, <2>1 DEF Pays
  <2> QED BY <1>4, <1>12, <2>2, CreditPays
<1>15. mission' \in [Missions -> {"none", "open", "completed", "expired"}]
  <2>1. mission' = [m \in Missions |-> IF duty[h].to[m] = "none" THEN mission[m] ELSE duty[h].to[m]]
    BY DEF CR!CommitRefresh
  <2> QED BY <1>6, <2>1 DEF CreditInv, CreditTypes
<1> QED BY <1>4, <1>14, <1>15, CreditEnds DEF CreditInv, CreditTypes

LEMMA CreditSpends ==
  ASSUME CreditInv, NEW h \in Handlers, CR!CommitFine(h) \/ CR!CommitBoost(h)
  PROVE  CreditInv'
<1> USE CreditFacts
<1>1. PICK r : r = duty[h].read OBVIOUS
<1>2. PICK w : w = IF duty[h].op = "fine" THEN CR!Penalized(r) ELSE CR!Spent(r) OBVIOUS
<1>3. PICK k \in {0, 1} : k = IF duty[h].op = "fine" THEN 0 ELSE 1 OBVIOUS
<1>4. /\ duty[h].op \in {"fine", "boost"} /\ wallet' = CR!Written(h, w) /\ CR!Done(h)
      /\ UNCHANGED <<earns, mission, metric>> /\ fined' \in BOOLEAN
      /\ boosts' \in [n : Nat, on : BOOLEAN] /\ boosts'.n = boosts.n + k
  <2>1. CASE CR!CommitFine(h)
    BY <1>1, <1>2, <1>3, <2>1 DEF CR!CommitFine, CreditInv, CreditTypes
  <2>2. CASE CR!CommitBoost(h)
    <3>1. duty[h].op = "boost" /\ boosts' = [n |-> boosts.n + 1, on |-> TRUE] /\ fined' = fined
      BY <2>2 DEF CR!CommitBoost
    <3>2. wallet' = CR!Written(h, w) /\ CR!Done(h) /\ UNCHANGED <<earns, mission, metric>>
      BY <1>1, <1>2, <2>2, <3>1 DEF CR!CommitBoost
    <3> QED BY <1>3, <3>1, <3>2 DEF CreditInv, CreditTypes
  <2> QED BY <2>1, <2>2
<1>5. r \in Wallet /\ (duty[h].op = "boost" => r.bal >= Fee)
  BY <1>1, <1>4, DutyKinds DEF Fines, Boosts, CreditInv, DutyFits
<1>6. PICK s \in Nat : s = IF k = 0 THEN 0 ELSE Fee BY <1>3
<1>7. w \in Wallet /\ w.lost = r.lost /\ w.earned = r.earned /\ w.spent = r.spent + s /\ w.bal + s <= r.bal
  <2>1. CASE duty[h].op = "fine"
    <3>1. PICK m \in Nat : m = IF r.bal < Fine THEN 0 ELSE r.bal - Fine BY <1>5 DEF Wallet
    <3>2. w = [r EXCEPT !.bal = m] BY <1>2, <2>1, <3>1 DEF CR!Penalized
    <3>3. m <= r.bal /\ r.bal \in Nat BY <1>5, <3>1 DEF Wallet
    <3>4. s = 0 BY <1>3, <1>6, <2>1
    <3> QED BY <1>5, <3>2, <3>3, <3>4 DEF Wallet
  <2>2. CASE duty[h].op = "boost"
    <3>1. r.bal \in Nat /\ r.spent \in Nat /\ r.bal >= Fee BY <1>5, <2>2 DEF Wallet
    <3>2. w = CR!Spent(r) BY <1>2, <2>2
    <3>3. s = Fee BY <1>3, <1>6, <2>2
    <3>4. /\ w \in Wallet /\ w.bal = r.bal - Fee /\ w.spent = r.spent + Fee
          /\ w.earned = r.earned /\ w.lost = r.lost
      BY <1>5, <3>1, <3>2, WalletFacts
    <3> QED BY <3>1, <3>3, <3>4
  <2> QED BY <1>4, <2>1, <2>2
<1>8. /\ wallet' \in Wallet
      /\ wallet'.lost = FALSE =>
           /\ wallet.lost = FALSE
           /\ w = r => /\ wallet'.bal = wallet.bal /\ wallet'.earned = wallet.earned
                       /\ wallet'.spent = wallet.spent
           /\ w # r => /\ wallet.bal = r.bal /\ wallet.earned = r.earned /\ wallet.spent = r.spent
                       /\ wallet'.bal = w.bal /\ wallet'.earned = w.earned /\ wallet'.spent = w.spent
  BY <1>1, <1>4, <1>5, <1>7, WrittenFacts DEF CreditInv
<1>9. wallet'.lost = FALSE =>
        /\ wallet.lost = FALSE /\ wallet'.earned = wallet.earned
        /\ wallet'.spent = wallet.spent + s /\ wallet'.bal + s <= wallet.bal
  <2>1. wallet.bal \in Nat /\ wallet.spent \in Nat /\ r.spent \in Nat BY <1>5 DEF CreditInv, CreditTypes, Wallet
  <2>2. w = r => s = 0 BY <1>7, <2>1
  <2> QED BY <1>7, <1>8, <2>1, <2>2
<1>10. wallet \in Wallet /\ boosts.n \in Nat BY DEF CreditInv, CreditTypes
<1>11. Worth(Fee, boosts'.n) = Worth(Fee, boosts.n) + s
  <2>1. Worth(Fee, boosts.n + k) = Worth(Fee, boosts.n) + Worth(Fee, k) BY <1>3, <1>10, WorthAdds
  <2>2. Worth(Fee, k) = s /\ Worth(Fee, boosts.n) \in Nat
    <3>1. Worth(Fee, 0) = 0 /\ Worth(Fee, 1) = Fee BY DEF Worth
    <3> QED BY <1>3, <1>6, <1>10, <3>1, WorthAdds
  <2> QED BY <1>4, <2>1, <2>2
<1>12. BooksFit'
  <2>1. Paid(Deeds)' = Paid(Deeds) /\ Paid(Missions)' = Paid(Missions) BY <1>4 DEF Paid
  <2>2. ASSUME wallet'.lost = FALSE
        PROVE  /\ wallet'.earned = Worth(Gain, Cardinality(Paid(Deeds))) + Worth(Prize, Cardinality(Paid(Missions)))
               /\ wallet'.spent = Worth(Fee, boosts'.n)
               /\ wallet'.bal + wallet'.spent <= wallet'.earned
    <3>1. /\ wallet.earned = Worth(Gain, Cardinality(Paid(Deeds))) + Worth(Prize, Cardinality(Paid(Missions)))
          /\ wallet.spent = Worth(Fee, boosts.n) /\ wallet.bal + wallet.spent <= wallet.earned
      BY <1>9, <2>2 DEF CreditInv, BooksFit
    <3>2. wallet'.bal \in Nat /\ wallet.bal \in Nat /\ wallet.spent \in Nat /\ wallet.earned \in Nat
      BY <1>8, <1>10 DEF Wallet
    <3> QED BY <1>9, <1>11, <2>2, <3>1, <3>2
  <2> QED BY <2>1, <2>2 DEF BooksFit
<1>13. wallet'.lost = FALSE =>
         /\ wallet.lost = FALSE /\ wallet.earned <= wallet'.earned
         /\ \A d \in Deeds \cup Missions :
              earns'[d] > 0 /\ earns[d] = 0 => wallet.earned < wallet'.earned
  BY <1>4, <1>9, <1>10 DEF Wallet
<1> QED BY <1>4, <1>8, <1>12, <1>13, CreditEnds DEF CreditInv, CreditTypes

LEMMA CreditMissions == ASSUME CreditInv, NEW h \in Handlers, CR!CommitMission(h) PROVE CreditInv'
<1>1. CR!Done(h) /\ UNCHANGED <<wallet, earns, fined, boosts, metric>> BY DEF CR!CommitMission
<1>2. mission' \in [Missions -> {"none", "open", "completed", "expired"}]
  BY DEF CR!CommitMission, CreditInv, CreditTypes
<1>3. BooksFit' BY <1>1 DEF CreditInv, BooksFit, Paid
<1>4. wallet'.lost = FALSE =>
        /\ wallet.lost = FALSE /\ wallet.earned <= wallet'.earned
        /\ \A d \in Deeds \cup Missions :
             earns'[d] > 0 /\ earns[d] = 0 => wallet.earned < wallet'.earned
  BY <1>1 DEF CreditInv, CreditTypes, Wallet
<1> QED BY <1>1, <1>2, <1>3, <1>4, CreditEnds DEF CreditInv, CreditTypes

LEMMA CreditNext ==
  ASSUME CreditInv, [CR!Next]_OfCR
  PROVE  CreditInv'
<1>1. CASE UNCHANGED OfCR
  <2>1. CreditTypes' BY <1>1 DEF OfCR, CreditInv, CreditTypes
  <2>2. \A g \in Handlers : DutyFits(duty[g])' BY <1>1 DEF OfCR, CreditInv, DutyFits
  <2>3. BooksFit' BY <1>1 DEF OfCR, CreditInv, BooksFit, Paid
  <2> QED BY <2>1, <2>2, <2>3 DEF CreditInv
<1> QED
  BY <1>1, CreditBegins, CreditLives, CreditAwards, CreditRefreshes, CreditSpends,
     CreditMissions DEF CR!Next

LEMMA CreditFollows ==
  ASSUME CreditInv
  PROVE  CR!TypeOK /\ CR!WalletIsEarned
<1>1. CreditTypes /\ BooksFit BY DEF CreditInv
<1>2. CR!TypeOK
  <2>1. earns \in [Deeds \cup Missions -> 0 .. 2] BY <1>1 DEF CreditTypes
  <2> QED BY <1>1, <2>1 DEF CreditTypes, Wallet, CR!TypeOK
<1>3. CR!AwardedOnce BY <1>1 DEF CreditTypes, CR!AwardedOnce
<1>4. \A S : CR!Cardinality(S) = Cardinality(S)
  BY DEF CR!Cardinality, Cardinality, CR!IsFiniteSet, IsFiniteSet
<1>5. CR!CreditsAddUp
  <2> SUFFICES ASSUME ~wallet.lost
               PROVE  /\ wallet.earned = Gain * CR!Cardinality({d \in Deeds : earns[d] > 0})
                                         + Prize * CR!Cardinality({d \in Missions : earns[d] > 0})
                      /\ wallet.spent = Fee * boosts.n
                      /\ wallet.bal + wallet.spent <= wallet.earned
    BY DEF CR!CreditsAddUp
  <2>1. wallet.lost = FALSE BY <1>1 DEF CreditTypes, Wallet
  <2> QED BY <1>1, <1>4, <2>1 DEF BooksFit, Paid, Worth
<1> QED BY <1>2, <1>3, <1>5 DEF CR!WalletIsEarned

----------------------------------------------------------------------------
(* Complaints *)

LEMMA LeastNatural ==
  ASSUME NEW T \in SUBSET Nat, T # {}
  PROVE  \E x \in T : \A y \in T : x <= y
<1>1. PICK R : R = OpToRel(<, Nat) OBVIOUS
<1>2. IsWellFoundedOn(R, Nat) BY <1>1, NatLessThanWellFounded
<1>3. PICK x \in T : \A y \in T : <<y, x>> \notin R BY <1>2, WFMin
<1>4. \A y \in T : ~(y < x) BY <1>1, <1>3 DEF OpToRel
<1> QED BY <1>3, <1>4

\* What the first n of the complaints s add up to, as Complaints defines it.
Weight(s, n) == Complaint!PointsOf(Complaint!SeverityOf(s[n].score))
Points(s) == CHOOSE f : f = [n \in 0 .. Len(s) |-> IF n = 0 THEN 0 ELSE f[n - 1] + Weight(s, n)]

LEMMA WeightType == \A s, n : Weight(s, n) \in Nat
BY DEF Weight, Complaint!PointsOf

LEMMA PointsExist ==
  ASSUME NEW s, NEW k \in Nat
  PROVE  \E f \in [0 .. k -> Nat] :
           \A n \in 0 .. k : f[n] = IF n = 0 THEN 0 ELSE f[n - 1] + Weight(s, n)
<1> DEFINE Good(m) == \E f \in [0 .. m -> Nat] :
                        \A n \in 0 .. m : f[n] = IF n = 0 THEN 0 ELSE f[n - 1] + Weight(s, n)
<1>1. SUFFICES ASSUME ~Good(k) PROVE FALSE OBVIOUS
<1>2. PICK T : T = {m \in Nat : ~Good(m)} OBVIOUS
<1>3. PICK m \in T : \A y \in T : m <= y BY <1>1, <1>2, LeastNatural
<1>4. m \in Nat /\ ~Good(m) BY <1>2, <1>3
<1>5. CASE m = 0
  <2>1. PICK f : f = [n \in 0 .. 0 |-> 0] OBVIOUS
  <2>2. f \in [0 .. 0 -> Nat] /\ \A n \in 0 .. 0 : n = 0 /\ f[n] = 0 BY <2>1
  <2> QED BY <1>4, <1>5, <2>2
<1>6. CASE m > 0
  <2>1. m - 1 \in Nat /\ m - 1 \notin T BY <1>3, <1>4, <1>6
  <2>2. Good(m - 1) BY <1>2, <2>1
  <2>3. PICK g \in [0 .. m - 1 -> Nat] :
          \A n \in 0 .. m - 1 : g[n] = IF n = 0 THEN 0 ELSE g[n - 1] + Weight(s, n)
    BY <2>2
  <2>4. PICK w \in Nat : w = Weight(s, m) BY WeightType
  <2>5. PICK f : f = [n \in 0 .. m |-> IF n = m THEN g[m - 1] + w ELSE g[n]] OBVIOUS
  <2>6. \A n \in 0 .. m - 1 : f[n] = g[n] /\ n \in 0 .. m BY <1>4, <2>5
  <2>7. f[m] = g[m - 1] + w /\ m - 1 \in 0 .. m - 1 BY <1>4, <1>6, <2>5
  <2>8. f \in [0 .. m -> Nat]
    <3>1. \A n \in 0 .. m : n # m => n \in 0 .. m - 1 BY <1>4
    <3> QED BY <1>4, <2>3, <2>4, <2>5, <2>7, <3>1
  <2>9. ASSUME NEW n \in 0 .. m PROVE f[n] = IF n = 0 THEN 0 ELSE f[n - 1] + Weight(s, n)
    <3>1. CASE n = m BY <1>6, <2>4, <2>6, <2>7, <3>1
    <3>2. CASE n # m
      <4>1. n \in 0 .. m - 1 /\ (n # 0 => n - 1 \in 0 .. m - 1) BY <1>4, <3>2
      <4> QED BY <2>3, <2>6, <4>1
    <3> QED BY <3>1, <3>2
  <2> QED BY <1>4, <2>8, <2>9
<1> QED BY <1>4, <1>5, <1>6

LEMMA PointsFacts ==
  ASSUME NEW s, Len(s) \in Nat
  PROVE  /\ Points(s)[0] = 0
         /\ \A n \in 1 .. Len(s) : Points(s)[n] = Points(s)[n - 1] + Weight(s, n)
         /\ \A n \in 0 .. Len(s) : Points(s)[n] \in Nat
<1>1. PICK k \in Nat : k = Len(s) OBVIOUS
<1>2. PICK g \in [0 .. k -> Nat] :
        \A n \in 0 .. k : g[n] = IF n = 0 THEN 0 ELSE g[n - 1] + Weight(s, n)
  BY PointsExist
<1>3. g = [n \in 0 .. Len(s) |-> IF n = 0 THEN 0 ELSE g[n - 1] + Weight(s, n)] BY <1>1, <1>2
<1>4. PICK f : f = Points(s) OBVIOUS
<1>5. f = [n \in 0 .. Len(s) |-> IF n = 0 THEN 0 ELSE f[n - 1] + Weight(s, n)]
  BY <1>3, <1>4 DEF Points
<1>6. 0 \in 0 .. Len(s) /\ f[0] = 0 BY <1>5
<1>7. \A n \in 1 .. Len(s) : f[n] = f[n - 1] + Weight(s, n)
  <2>1. ASSUME NEW n \in 1 .. Len(s) PROVE f[n] = f[n - 1] + Weight(s, n)
    <3>1. n \in 0 .. Len(s) /\ n # 0 OBVIOUS
    <3> QED BY <1>5, <3>1
  <2> QED BY <2>1
<1>8. ASSUME NEW j \in 0 .. Len(s), f[j] \notin Nat PROVE FALSE
  <2>1. PICK T : T = {n \in 0 .. Len(s) : f[n] \notin Nat} OBVIOUS
  <2>2. T \in SUBSET Nat /\ T # {} BY <1>8, <2>1
  <2>3. PICK m \in T : \A y \in T : m <= y BY <2>2, LeastNatural
  <2>4. m \in 1 .. Len(s) /\ m - 1 \in 0 .. Len(s) /\ f[m] \notin Nat BY <1>6, <2>1, <2>3
  <2>5. f[m - 1] \in Nat BY <2>1, <2>3, <2>4
  <2> QED BY <1>7, <2>4, <2>5, WeightType
<1> QED BY <1>4, <1>6, <1>7, <1>8

\* Complaints of the same scores weigh the same.
LEMMA PointsAgree ==
  ASSUME NEW s, NEW t, NEW k \in Nat, Len(s) \in Nat, Len(t) \in Nat, k <= Len(s), k <= Len(t),
         \A n \in 1 .. k : s[n].score = t[n].score
  PROVE  Points(s)[k] = Points(t)[k]
<1>1. SUFFICES ASSUME Points(s)[k] # Points(t)[k] PROVE FALSE OBVIOUS
<1>2. PICK T : T = {n \in 0 .. k : Points(s)[n] # Points(t)[n]} OBVIOUS
<1>3. T \in SUBSET Nat /\ T # {} BY <1>1, <1>2
<1>4. PICK m \in T : \A y \in T : m <= y BY <1>3, LeastNatural
<1>5. m \in 0 .. k /\ Points(s)[m] # Points(t)[m] BY <1>2, <1>4
<1>6. m # 0 BY <1>5, PointsFacts
<1>7. m \in 1 .. k /\ m - 1 \in 0 .. k /\ m - 1 \notin T BY <1>4, <1>5, <1>6
<1>8. Points(s)[m - 1] = Points(t)[m - 1] BY <1>2, <1>7
<1>9. m \in 1 .. Len(s) /\ m \in 1 .. Len(t) BY <1>7
<1>10. Weight(s, m) = Weight(t, m) BY <1>7 DEF Weight
<1>11. /\ Points(s)[m] = Points(s)[m - 1] + Weight(s, m)
       /\ Points(t)[m] = Points(t)[m - 1] + Weight(t, m)
  BY <1>9, PointsFacts
<1> QED BY <1>5, <1>8, <1>10, <1>11

Severities == {"baixa", "media", "alta", "critica"}
Cases == [score : 0 .. 100, severity : Severities]
Risks == [score : 0 .. 100, count : Nat, critical : Nat, blocked : BOOLEAN,
          level : {"normal", "atencao", "alto", "critico"}]
Filings == [op : {"filing"}, score : 0 .. 100, row : {0, 1}, read : Risks, late : BOOLEAN]

\* A complaint that nobody overtook goes by the risk row there is.
FiledOnTop(d) == d.op = "filing" /\ d.late = FALSE =>
                   IF risk = <<>> THEN d.row = 0 /\ d.read = Complaint!NoRisk
                   ELSE d.row = 1 /\ d.read = risk[1]

RiskFits ==
  IF filed = <<>> THEN risk = <<>>
  ELSE /\ Len(risk) = 1 /\ risk[1].count = Len(filed)
       /\ risk[1].score = Complaint!Low(100, Points(filed)[Len(filed)])
       /\ risk[1].blocked = TRUE <=> \E i \in DOMAIN filed : Complaint!Filed(i) \in {"alta", "critica"}
       /\ (\E i \in DOMAIN filed : Complaint!Filed(i) = "critica") =>
            risk[1].critical > 0 /\ risk[1].level = "critico"

ComplaintInv ==
  /\ filed \in Seq(Cases) /\ risk \in Seq(Risks) /\ collided \in BOOLEAN
  /\ DOMAIN filing = Handlers
  /\ \A h \in Handlers : filing[h] # Complaint!NoFiling =>
       filing[h] \in Filings /\ (filing[h].row = 1 => risk # <<>>)
  /\ collided = FALSE => RiskFits /\ \A h \in Handlers : FiledOnTop(filing[h])

LEMMA BasesAreNat == Bases \subseteq Nat
BY ComplaintParameters DEF Complaint!ParametersAssumption

LEMMA ComplaintTypes ==
  ASSUME ComplaintInv
  PROVE  /\ Len(filed) \in Nat /\ DOMAIN filed = 1 .. Len(filed)
         /\ \A i \in DOMAIN filed : filed[i] \in Cases
         /\ Len(risk) \in Nat /\ DOMAIN risk = 1 .. Len(risk)
         /\ \A i \in DOMAIN risk : risk[i] \in Risks
         /\ risk # <<>> => 1 \in DOMAIN risk
BY SeqFacts, EmptySeq DEF ComplaintInv

LEMMA ComplaintInit == ASSUME Complaint!Init PROVE ComplaintInv
<1>1. filed = <<>> /\ risk = <<>> /\ collided = FALSE BY DEF Complaint!Init
<1>2. filed \in Seq(Cases) /\ risk \in Seq(Risks) BY <1>1
<1>3. DOMAIN filing = Handlers /\ \A h \in Handlers : filing[h] = Complaint!NoFiling
  BY DEF Complaint!Init
<1>4. \A h \in Handlers : filing[h].op = "idle"
  <2>1. Complaint!NoFiling.op = "idle" BY DEF Complaint!NoFiling
  <2> QED BY <1>3, <2>1
<1> QED BY <1>1, <1>2, <1>3, <1>4 DEF ComplaintInv, RiskFits, FiledOnTop

LEMMA NoRiskType == Complaint!NoRisk \in Risks
BY DEF Complaint!NoRisk, Risks

LEMMA ScoreType == \A base \in Nat, n \in Nat : Complaint!ScoreOf(base, n) \in 0 .. 100
BY DEF Complaint!ScoreOf, Complaint!Low

LEMMA ComplaintFiles ==
  ASSUME ComplaintInv, NEW h \in Handlers, NEW base \in Bases, Complaint!File(h, base)
  PROVE  ComplaintInv'
<1>1. PICK s : s = Complaint!ScoreOf(base, Len(filed)) OBVIOUS
<1>2. PICK n : n = IF risk = <<>> THEN 0 ELSE 1 OBVIOUS
<1>3. PICK r : r = IF risk = <<>> THEN Complaint!NoRisk ELSE risk[1] OBVIOUS
<1>4. PICK d : d = [op |-> "filing", score |-> s, row |-> n, read |-> r, late |-> FALSE] OBVIOUS
<1>5. filing' = [filing EXCEPT ![h] = d] /\ UNCHANGED <<filed, risk, collided>>
  BY <1>1, <1>2, <1>3, <1>4 DEF Complaint!File
<1>6. s \in 0 .. 100 BY <1>1, ComplaintTypes, BasesAreNat, ScoreType
<1>7. r \in Risks /\ n \in {0, 1} BY <1>2, <1>3, ComplaintTypes, NoRiskType
<1>8. d \in Filings /\ d.op = "filing" /\ d.row = n /\ d.read = r BY <1>4, <1>6, <1>7 DEF Filings
<1>9. /\ DOMAIN filing' = Handlers /\ filing'[h] = d
      /\ \A g \in Handlers \ {h} : filing'[g] = filing[g]
  BY <1>5 DEF ComplaintInv
<1>10. \A g \in Handlers : filing'[g] # Complaint!NoFiling =>
         filing'[g] \in Filings /\ (filing'[g].row = 1 => risk' # <<>>)
  BY <1>2, <1>5, <1>8, <1>9 DEF ComplaintInv
<1>11. collided' = FALSE => RiskFits' /\ \A g \in Handlers : FiledOnTop(filing[g])'
  <2> SUFFICES ASSUME collided' = FALSE
               PROVE  RiskFits' /\ \A g \in Handlers : FiledOnTop(filing[g])'
    OBVIOUS
  <2>1. RiskFits' BY <1>5 DEF ComplaintInv, RiskFits, Complaint!Filed
  <2>2. ASSUME NEW g \in Handlers PROVE FiledOnTop(filing[g])'
    <3>1. CASE g = h BY <1>2, <1>3, <1>5, <1>8, <1>9, <3>1 DEF FiledOnTop
    <3>2. CASE g # h BY <1>5, <1>9, <3>2 DEF ComplaintInv, FiledOnTop
    <3> QED BY <3>1, <3>2
  <2> QED BY <2>1, <2>2
<1> QED BY <1>5, <1>9, <1>10, <1>11 DEF ComplaintInv

\* The row that a complaint of this severity makes of r.
LEMMA RaisedFacts ==
  ASSUME NEW r \in Risks, NEW sev \in Severities
  PROVE  /\ Complaint!Raised(r, sev) \in Risks
         /\ Complaint!Raised(r, sev).score = Complaint!Low(100, r.score + Complaint!PointsOf(sev))
         /\ Complaint!Raised(r, sev).count = r.count + 1
         /\ Complaint!Raised(r, sev).critical = r.critical + (IF sev = "critica" THEN 1 ELSE 0)
         /\ Complaint!Raised(r, sev).blocked = TRUE <=> r.blocked = TRUE \/ sev \in {"alta", "critica"}
         /\ Complaint!Raised(r, sev).critical > 0 => Complaint!Raised(r, sev).level = "critico"
<1>1. r.score \in 0 .. 100 /\ r.count \in Nat /\ r.critical \in Nat /\ r.blocked \in BOOLEAN BY DEF Risks
<1>2. PICK s \in 0 .. 100 : s = Complaint!Low(100, r.score + Complaint!PointsOf(sev))
  BY <1>1 DEF Complaint!Low, Complaint!PointsOf
<1>3. PICK k \in Nat : k = r.critical + (IF sev = "critica" THEN 1 ELSE 0) BY <1>1
<1>4. PICK b \in BOOLEAN : b = (r.blocked \/ sev \in {"alta", "critica"}) OBVIOUS
<1>5. PICK l : l = Complaint!LevelOf(s, k) OBVIOUS
<1>6. l \in {"normal", "atencao", "alto", "critico"} /\ (k > 0 => l = "critico")
  BY <1>5 DEF Complaint!LevelOf
<1>7. Complaint!Raised(r, sev) = [score |-> s, count |-> r.count + 1, critical |-> k, blocked |-> b, level |-> l]
  BY <1>2, <1>3, <1>4, <1>5 DEF Complaint!Raised, Complaint!RaisedTo, Complaint!Summed
<1>8. b = TRUE <=> r.blocked = TRUE \/ sev \in {"alta", "critica"} BY <1>1, <1>4
<1> QED BY <1>1, <1>2, <1>3, <1>6, <1>7, <1>8 DEF Risks

\* Writing the columns that differ: all of the new row, when what is there is what was read.
LEMMA OverFacts ==
  ASSUME NEW new \in Risks, NEW loaded \in Risks, NEW now \in Risks
  PROVE  Complaint!Over(new, loaded, now) \in Risks /\ (now = loaded => Complaint!Over(new, loaded, now) = new)
<1>1. PICK o : o = Complaint!Over(new, loaded, now) OBVIOUS
<1>2. o = [f \in DOMAIN now |-> IF new[f] = loaded[f] THEN now[f] ELSE new[f]]
  BY <1>1 DEF Complaint!Over
<1>3. DOMAIN now = {"score", "count", "critical", "blocked", "level"}
      /\ DOMAIN new = {"score", "count", "critical", "blocked", "level"}
  BY DEF Risks
<1>4. o = [score    |-> o["score"], count |-> o["count"], critical |-> o["critical"],
           blocked  |-> o["blocked"], level |-> o["level"]]
  BY <1>2, <1>3
<1>5. /\ o["score"] \in 0 .. 100 /\ o["count"] \in Nat /\ o["critical"] \in Nat
      /\ o["level"] \in {"normal", "atencao", "alto", "critico"}
  BY <1>2, <1>3 DEF Risks
<1>6. o["blocked"] \in BOOLEAN BY <1>2, <1>3 DEF Risks
<1>7. o \in Risks BY <1>4, <1>5, <1>6 DEF Risks
<1>8. ASSUME now = loaded PROVE o = new
  <2>1. \A f \in DOMAIN now : o[f] = new[f] BY <1>2, <1>8
  <2>2. o = [f \in DOMAIN now |-> new[f]] BY <1>2, <2>1
  <2> QED BY <1>3, <2>2 DEF Risks
<1> QED BY <1>1, <1>7, <1>8

\* Whoever files when another complaint is committed is late.
LEMMA ComplaintLate ==
  ASSUME ComplaintInv, NEW h \in Handlers, risk' # <<>>,
         filing' = [g \in Handlers |-> IF g = h \/ filing[g] = Complaint!NoFiling THEN Complaint!NoFiling
                                       ELSE [filing[g] EXCEPT !.late = TRUE]]
  PROVE  /\ DOMAIN filing' = Handlers
         /\ \A g \in Handlers : filing'[g] # Complaint!NoFiling =>
              filing'[g] \in Filings /\ (filing'[g].row = 1 => risk' # <<>>)
         /\ \A g \in Handlers : FiledOnTop(filing[g])'
<1>1. ASSUME NEW g \in Handlers
      PROVE  /\ filing'[g] # Complaint!NoFiling => filing'[g] \in Filings
             /\ FiledOnTop(filing[g])'
  <2>1. CASE g = h \/ filing[g] = Complaint!NoFiling
    <3>1. filing'[g] = Complaint!NoFiling BY <2>1
    <3>2. Complaint!NoFiling.op = "idle" BY DEF Complaint!NoFiling
    <3> QED BY <3>1, <3>2 DEF FiledOnTop
  <2>2. CASE ~(g = h \/ filing[g] = Complaint!NoFiling)
    <3>1. PICK d : d = filing[g] OBVIOUS
    <3>2. PICK e : e = [d EXCEPT !.late = TRUE] OBVIOUS
    <3>3. d \in Filings BY <2>2, <3>1 DEF ComplaintInv
    <3>4. e \in Filings /\ e.late = TRUE BY <3>2, <3>3 DEF Filings
    <3>5. filing'[g] = e BY <2>2, <3>1, <3>2
    <3> QED BY <3>4, <3>5 DEF FiledOnTop
  <2> QED BY <2>1, <2>2
<1> QED BY <1>1

LEMMA ComplaintCommits ==
  ASSUME ComplaintInv, NEW h \in Handlers, Complaint!Commit(h)
  PROVE  ComplaintInv'
<1>1. PICK d : d = filing[h] OBVIOUS
<1>2. PICK sev : sev = Complaint!SeverityOf(d.score) OBVIOUS
<1>3. PICK new : new = Complaint!Raised(d.read, sev) OBVIOUS
<1>4. PICK c : c = [score |-> d.score, severity |-> sev] OBVIOUS
<1>5. PICK n : n = Len(filed) OBVIOUS
<1>6. /\ d.op = "filing" /\ filed' = Append(filed, c)
      /\ risk' = IF d.row = 0 THEN Append(risk, new)
                 ELSE [risk EXCEPT ![1] = Complaint!Over(new, d.read, @)]
      /\ collided' = (collided \/ d.late)
      /\ filing' = [g \in Handlers |-> IF g = h \/ filing[g] = Complaint!NoFiling THEN Complaint!NoFiling
                                       ELSE [filing[g] EXCEPT !.late = TRUE]]
  BY <1>1, <1>2, <1>3, <1>4 DEF Complaint!Commit
<1>7. d \in Filings /\ (d.row = 1 => risk # <<>>) /\ d.score \in 0 .. 100 /\ d.read \in Risks
      /\ d.late \in BOOLEAN /\ d.row \in {0, 1}
  <2>1. d # Complaint!NoFiling BY <1>6 DEF Complaint!NoFiling
  <2> QED BY <1>1, <2>1 DEF ComplaintInv, Filings
<1>8. sev \in Severities BY <1>2 DEF Complaint!SeverityOf, Severities
<1>9. c \in Cases /\ c.score = d.score BY <1>4, <1>7, <1>8 DEF Cases
<1>10. n \in Nat /\ DOMAIN filed = 1 .. n /\ n + 1 \in Nat BY <1>5, ComplaintTypes
<1>11. /\ filed' \in Seq(Cases) /\ Len(filed') = n + 1 /\ DOMAIN filed' = 1 .. n + 1
       /\ \A i \in 1 .. n : filed'[i] = filed[i]
       /\ filed'[n + 1] = c
  BY <1>5, <1>6, <1>9, <1>10, AppendFacts DEF ComplaintInv
<1>12. /\ new \in Risks
       /\ new.score = Complaint!Low(100, d.read.score + Complaint!PointsOf(sev))
       /\ new.count = d.read.count + 1
       /\ new.critical = d.read.critical + (IF sev = "critica" THEN 1 ELSE 0)
       /\ new.blocked = TRUE <=> d.read.blocked = TRUE \/ sev \in {"alta", "critica"}
       /\ new.critical > 0 => new.level = "critico"
  <2>1. PICK r \in Risks : r = d.read BY <1>7
  <2>2. PICK m : m = Complaint!Raised(r, sev) OBVIOUS
  <2>3. /\ m \in Risks
        /\ m.score = Complaint!Low(100, r.score + Complaint!PointsOf(sev))
        /\ m.count = r.count + 1
        /\ m.critical = r.critical + (IF sev = "critica" THEN 1 ELSE 0)
        /\ m.blocked = TRUE <=> r.blocked = TRUE \/ sev \in {"alta", "critica"}
        /\ m.critical > 0 => m.level = "critico"
    <3>1. PICK v \in Severities : v = sev BY <1>8
    <3>2. /\ Complaint!Raised(r, v) \in Risks
          /\ Complaint!Raised(r, v).score = Complaint!Low(100, r.score + Complaint!PointsOf(v))
          /\ Complaint!Raised(r, v).count = r.count + 1
          /\ Complaint!Raised(r, v).critical = r.critical + (IF v = "critica" THEN 1 ELSE 0)
          /\ Complaint!Raised(r, v).blocked = TRUE <=> r.blocked = TRUE \/ v \in {"alta", "critica"}
          /\ Complaint!Raised(r, v).critical > 0 => Complaint!Raised(r, v).level = "critico"
      BY Zenon, RaisedFacts
    <3> QED BY <2>2, <3>1, <3>2
  <2>4. m = new BY <1>3, <2>1, <2>2
  <2> QED BY <2>1, <2>3, <2>4
<1>13. /\ risk' \in Seq(Risks) /\ risk' # <<>>
       /\ d.row = 0 => Len(risk') = Len(risk) + 1 /\ (risk = <<>> => risk'[1] = new)
       /\ d.row = 1 => Len(risk') = Len(risk) /\ (risk[1] = d.read => risk'[1] = new)
  <2>1. CASE d.row = 0
    <3>1. risk' = Append(risk, new) BY <1>6, <2>1
    <3>2. /\ risk' \in Seq(Risks) /\ Len(risk') = Len(risk) + 1 /\ risk'[Len(risk) + 1] = new
      BY <1>12, <3>1, AppendFacts DEF ComplaintInv
    <3>3. risk = <<>> => Len(risk) = 0 OBVIOUS
    <3>4. Len(risk) \in Nat BY ComplaintTypes
    <3> QED BY <2>1, <3>2, <3>3, <3>4, EmptySeq
  <2>2. CASE d.row = 1
    <3>1. 1 \in DOMAIN risk /\ risk[1] \in Risks /\ Len(risk) \in Nat /\ DOMAIN risk = 1 .. Len(risk)
      BY <1>7, <2>2, ComplaintTypes
    <3>2. PICK o : o = Complaint!Over(new, d.read, risk[1]) OBVIOUS
    <3>3. o \in Risks /\ (risk[1] = d.read => o = new) BY <1>7, <1>12, <3>1, <3>2, OverFacts
    <3>4. risk' = [risk EXCEPT ![1] = o] BY <1>6, <2>2, <3>2
    <3>5. risk' \in [1 .. Len(risk) -> Risks] /\ risk'[1] = o
      BY <3>1, <3>3, <3>4, ComplaintTypes
    <3>6. risk' \in Seq(Risks) /\ Len(risk') = Len(risk) BY <3>1, <3>5, FunctionIsSeq
    <3> QED BY <2>2, <3>1, <3>3, <3>5, <3>6, EmptySeq
  <2> QED BY <1>7, <2>1, <2>2
<1>14. /\ DOMAIN filing' = Handlers
       /\ \A g \in Handlers : filing'[g] # Complaint!NoFiling =>
            filing'[g] \in Filings /\ (filing'[g].row = 1 => risk' # <<>>)
       /\ \A g \in Handlers : FiledOnTop(filing[g])'
  BY <1>6, <1>13, ComplaintLate
<1>15. collided' = FALSE => RiskFits'
  <2> SUFFICES ASSUME collided' = FALSE PROVE RiskFits' OBVIOUS
  <2>1. collided = FALSE /\ d.late = FALSE BY <1>6, <1>7 DEF ComplaintInv
  <2>2. RiskFits /\ FiledOnTop(d) BY <1>1, <2>1 DEF ComplaintInv
  <2>3. IF risk = <<>> THEN d.row = 0 /\ d.read = Complaint!NoRisk ELSE d.row = 1 /\ d.read = risk[1]
    BY <1>6, <2>1, <2>2 DEF FiledOnTop
  <2>4. PICK p \in Nat : p = Points(filed)[n] BY <1>5, <1>10, PointsFacts
  <2>5. /\ d.read.count = n /\ d.read.score = Complaint!Low(100, p)
        /\ d.read.blocked = TRUE <=> \E i \in DOMAIN filed : Complaint!Filed(i) \in {"alta", "critica"}
        /\ (\E i \in DOMAIN filed : Complaint!Filed(i) = "critica") => d.read.critical > 0
        /\ Len(risk') = 1 /\ risk'[1] = new
    <3>1. CASE filed = <<>>
      <4>1. risk = <<>> BY <2>2, <3>1 DEF RiskFits
      <4>2. n = 0 /\ DOMAIN filed = {} /\ Len(risk) = 0 BY <1>5, <3>1, <4>1
      <4>3. p = 0 BY <1>5, <1>10, <2>4, <4>2, PointsFacts
      <4> QED BY <1>13, <2>3, <4>1, <4>2, <4>3 DEF Complaint!NoRisk, Complaint!Low
    <3>2. CASE filed # <<>>
      <4>1. Len(risk) = 1 /\ risk # <<>>
        <5>1. Len(risk) = 1 BY <2>2, <3>2 DEF RiskFits
        <5>2. risk = <<>> => Len(risk) = 0 OBVIOUS
        <5> QED BY <5>1, <5>2
      <4>2. d.row = 1 /\ d.read = risk[1] BY <2>3, <4>1
      <4> QED BY <1>5, <1>13, <2>2, <2>4, <3>2, <4>1, <4>2 DEF RiskFits
    <3> QED BY <3>1, <3>2
  <2>6. \A i \in 1 .. n : Complaint!Filed(i)' = Complaint!Filed(i)
    BY <1>11 DEF Complaint!Filed
  <2>7. Complaint!Filed(n + 1)' = sev BY <1>2, <1>9, <1>11 DEF Complaint!Filed
  <2>8. \A S : (\E i \in DOMAIN filed' : Complaint!Filed(i)' \in S) <=>
                 (\E i \in DOMAIN filed : Complaint!Filed(i) \in S) \/ sev \in S
    <3>1. DOMAIN filed' = DOMAIN filed \cup {n + 1} BY <1>10, <1>11
    <3> QED BY <1>10, <2>6, <2>7, <3>1
  <2>9. Points(filed')[n + 1] = p + Complaint!PointsOf(sev)
    <3>1. Len(filed') = n + 1 /\ Len(filed') \in Nat BY <1>10, <1>11
    <3>2. n + 1 \in 1 .. Len(filed') /\ (n + 1) - 1 = n BY <1>10, <3>1
    <3>3. Points(filed')[n + 1] = Points(filed')[(n + 1) - 1] + Weight(filed', n + 1)
      BY <3>1, <3>2, PointsFacts
    <3>4. Points(filed')[n] = Points(filed)[n] BY <1>5, <1>10, <1>11, <3>1, PointsAgree
    <3>5. Weight(filed', n + 1) = Complaint!PointsOf(sev) BY <1>2, <1>9, <1>11 DEF Weight
    <3> QED BY <2>4, <3>2, <3>3, <3>4, <3>5
  <2>10. new.score = Complaint!Low(100, Points(filed')[Len(filed')])
    <3>1. Complaint!PointsOf(sev) \in Nat BY DEF Complaint!PointsOf
    <3> QED BY <1>11, <1>12, <2>4, <2>5, <2>9, <3>1 DEF Complaint!Low
  <2>11. new.blocked = TRUE <=> \E i \in DOMAIN filed' : Complaint!Filed(i)' \in {"alta", "critica"}
    BY <1>12, <2>5, <2>8
  <2>12. (\E i \in DOMAIN filed' : Complaint!Filed(i)' = "critica") =>
            new.critical > 0 /\ new.level = "critico"
    <3>1. (\E i \in DOMAIN filed' : Complaint!Filed(i)' \in {"critica"}) <=>
            (\E i \in DOMAIN filed : Complaint!Filed(i) \in {"critica"}) \/ sev \in {"critica"}
      BY <2>8
    <3>2. d.read.critical \in Nat BY <1>7 DEF Risks
    <3> QED BY <1>12, <2>5, <3>1, <3>2
  <2>13. filed' # <<>> BY <1>10, <1>11, EmptySeq
  <2> QED BY <1>11, <1>12, <2>5, <2>10, <2>11, <2>12, <2>13 DEF RiskFits
<1>16. collided' \in BOOLEAN BY <1>6, <1>7 DEF ComplaintInv
<1> QED BY <1>11, <1>13, <1>14, <1>15, <1>16 DEF ComplaintInv

\* The severity that staff sets is not the one that was added up.
LEMMA ComplaintRestates ==
  ASSUME ComplaintInv, NEW i \in DOMAIN filed, NEW sev \in {"baixa", "critica"}, Complaint!Restate(i, sev)
  PROVE  ComplaintInv'
<1>1. PICK c : c = [filed[i] EXCEPT !.severity = sev] OBVIOUS
<1>2. filed' = [filed EXCEPT ![i] = c] /\ UNCHANGED <<risk, filing, collided>>
  BY <1>1 DEF Complaint!Restate
<1>3. Len(filed) \in Nat /\ DOMAIN filed = 1 .. Len(filed) /\ \A j \in DOMAIN filed : filed[j] \in Cases
  BY ComplaintTypes
<1>4. c \in Cases /\ c.score = filed[i].score BY <1>1, <1>3 DEF Cases, Severities
<1>5. filed' \in [1 .. Len(filed) -> Cases] /\ \A j \in DOMAIN filed : filed'[j].score = filed[j].score
  BY <1>2, <1>3, <1>4
<1>6. filed' \in Seq(Cases) /\ Len(filed') = Len(filed) /\ DOMAIN filed' = DOMAIN filed
  BY <1>3, <1>5, FunctionIsSeq
<1>7. \A j \in DOMAIN filed : Complaint!Filed(j)' = Complaint!Filed(j) BY <1>5 DEF Complaint!Filed
<1>8. Points(filed')[Len(filed)] = Points(filed)[Len(filed)]
  <2>1. PICK t : t = filed' OBVIOUS
  <2>2. PICK k \in Nat : k = Len(filed) BY <1>3
  <2>3. \A j \in 1 .. k : t[j].score = filed[j].score BY <1>3, <1>5, <2>1, <2>2
  <2>4. Len(t) \in Nat /\ k <= Len(filed) /\ k <= Len(t) BY <1>6, <2>1, <2>2
  <2>5. Points(t)[k] = Points(filed)[k]
    <3>1. PICK s : s = filed OBVIOUS
    <3>2. Len(s) \in Nat /\ k <= Len(s) /\ \A j \in 1 .. k : s[j].score = t[j].score
      BY <1>3, <2>2, <2>3, <3>1
    <3>3. Points(s)[k] = Points(t)[k] BY <2>4, <3>2, PointsAgree
    <3> QED BY <3>1, <3>3
  <2> QED BY <2>1, <2>2, <2>5
<1>9. filed # <<>> /\ filed' # <<>>
  <2>1. Len(filed) >= 1 BY <1>3
  <2> QED BY <1>3, <1>6, <2>1, EmptySeq
<1>10. collided = FALSE => RiskFits'
  <2> SUFFICES ASSUME collided = FALSE PROVE RiskFits' OBVIOUS
  <2>1. RiskFits BY DEF ComplaintInv
  <2> QED BY <1>2, <1>6, <1>7, <1>8, <1>9, <2>1 DEF RiskFits
<1>11. \A h \in Handlers : FiledOnTop(filing[h])' <=> FiledOnTop(filing[h])
  BY <1>2 DEF FiledOnTop
<1> QED BY <1>2, <1>6, <1>10, <1>11 DEF ComplaintInv

LEMMA ComplaintNext ==
  ASSUME ComplaintInv, [Complaint!Next]_OfComplaint
  PROVE  ComplaintInv'
<1>1. CASE UNCHANGED OfComplaint
  <2>1. UNCHANGED <<filed, risk, filing, collided>> BY <1>1 DEF OfComplaint
  <2>2. RiskFits' <=> RiskFits BY <2>1 DEF RiskFits, Complaint!Filed
  <2>3. \A h \in Handlers : FiledOnTop(filing[h])' <=> FiledOnTop(filing[h]) BY <2>1 DEF FiledOnTop
  <2> QED BY <2>1, <2>2, <2>3 DEF ComplaintInv
<1> QED BY <1>1, ComplaintFiles, ComplaintCommits, ComplaintRestates DEF Complaint!Next

LEMMA ComplaintFollows ==
  ASSUME ComplaintInv
  PROVE  Complaint!TypeOK /\ Complaint!RiskAddsUp
<1>1. Complaint!TypeOK BY ComplaintTypes DEF Complaint!TypeOK, Risks, Cases, Severities
<1>2. Complaint!PointsUpTo = Points(filed)
  BY DEF Complaint!PointsUpTo, Points, Weight, Complaint!Filed
<1>3. ASSUME collided = FALSE, filed # <<>>
      PROVE  /\ Len(risk) = 1 /\ risk[1].count = Len(filed)
             /\ risk[1].score = Complaint!Low(100, Complaint!PointsUpTo[Len(filed)])
             /\ risk[1].blocked = (Complaint!Numbers({"alta", "critica"}) # {})
             /\ Complaint!Numbers({"critica"}) # {} => risk[1].level = "critico"
  <2>1. RiskFits BY <1>3 DEF ComplaintInv
  <2>2. /\ Len(risk) = 1 /\ risk[1].count = Len(filed)
        /\ risk[1].score = Complaint!Low(100, Complaint!PointsUpTo[Len(filed)])
        /\ risk[1].blocked = TRUE <=> \E i \in DOMAIN filed : Complaint!Filed(i) \in {"alta", "critica"}
        /\ (\E i \in DOMAIN filed : Complaint!Filed(i) = "critica") => risk[1].level = "critico"
    BY <1>2, <1>3, <2>1 DEF RiskFits
  <2>3. risk[1].blocked \in BOOLEAN
    <3>1. risk # <<>>
      <4>1. risk = <<>> => Len(risk) = 0 OBVIOUS
      <4> QED BY <2>2, <4>1
    <3>2. risk[1] \in Risks BY <3>1, ComplaintTypes
    <3> QED BY <3>2 DEF Risks
  <2>4. PICK b \in BOOLEAN : b = risk[1].blocked BY <2>3
  <2>5. b = (Complaint!Numbers({"alta", "critica"}) # {}) BY <2>2, <2>4 DEF Complaint!Numbers
  <2>6. Complaint!Numbers({"critica"}) # {} => risk[1].level = "critico" BY <2>2 DEF Complaint!Numbers
  <2> QED BY <2>2, <2>4, <2>5, <2>6
<1> QED BY <1>1, <1>3 DEF ComplaintInv, Complaint!RiskAddsUp

----------------------------------------------------------------------------
(* Office *)

\* A step of Office is one of the part at work, and leaves the others alone.
LEMMA PartsNext ==
  ASSUME [Next]_vars
  PROVE  /\ [Tenant!Next]_OfTenant /\ [Application!Next]_OfApplication
         /\ [Background!Next]_OfBackground /\ [Network!Next]_OfNetwork
         /\ [Training!Next]_OfTraining /\ [CR!Next]_OfCR /\ [Account!Next]_OfAccount
         /\ [Deletion!Next]_OfDeletion /\ [Terms!Next]_OfTerms /\ [Complaint!Next]_OfComplaint
<1>1. CASE UNCHANGED vars BY <1>1 DEF vars
<1>2. CASE Next BY <1>2 DEF Next, Rest
<1> QED BY <1>1, <1>2

\* TenantPlans: the commission is the plan's, limits are kept and the end of a trial ends
\* what it gave, unless requests that both write the commission overlapped.
THEOREM PlansAreInForce == Spec => []PlanIsInForce
<1>1. Init => TenantInv BY TenantInit DEF Init
<1>2. TenantInv /\ [Next]_vars => TenantInv' BY PartsNext, TenantNext
<1>3. TenantInv => PlanIsInForce BY TenantFollows DEF PlanIsInForce
<1> QED BY <1>1, <1>2, <1>3, PTL DEF Spec

\* WalkerApplication: who works is active, or a decision crossed another, and no request of
\* the walker's own makes an application active, whoever else decides meanwhile.
THEOREM WalkersWorkByLeave == Spec => WorksByLeave
<1>1. Init => ApplicationInv BY ApplicationInit DEF Init
<1>2. ApplicationInv /\ [Next]_vars => ApplicationInv' BY PartsNext, ApplicationNext
<1>3. ApplicationInv => Application!OnlyActiveWorks BY DEF ApplicationInv
<1>4. ApplicationInv /\ [Next]_vars =>
        [\A h \in Handlers : desk[h].op = "walker" /\ desk'[h] = Application!Clear =>
           /\ profile'.active => profile.active
           /\ profile'.st = "active" => profile.st = "active"]_(Application!applicationVars)
  BY PartsNext, WalkerGivesNothing
<1> QED
  BY <1>1, <1>2, <1>3, <1>4, PTL
     DEF Spec, WorksByLeave, Application!WorksByLeave, Application!StaffActivates

\* WalkerCredits: a deed is awarded once and the wallet is the sum of its entries.
\* Complaints: the risk is the sum of the complaints, however many there are.  Both unless
\* two requests overlapped on the row they write.
THEOREM TotalsAreSums == Spec => []TotalsAddUp
<1>1. Init => CreditInv /\ ComplaintInv BY CreditInit, ComplaintInit DEF Init
<1>2. CreditInv /\ ComplaintInv /\ [Next]_vars => (CreditInv /\ ComplaintInv)'
  BY PartsNext, CreditNext, ComplaintNext
<1>3. CreditInv /\ ComplaintInv => TotalsAddUp BY CreditFollows, ComplaintFollows DEF TotalsAddUp
<1> QED BY <1>1, <1>2, <1>3, PTL DEF Spec

\* Accounts, AccountDeletion, LegalTerms, WalkerBackground, WalkerNetwork and
\* WalkerTraining: who gets in is entitled to, whatever other requests do meanwhile.
THEOREM AccessIsDue == Spec => []AccessIsEarned
<1> DEFINE I == /\ AccountInv /\ DeletionInv /\ TermsInv
                /\ BackgroundInv /\ NetworkInv /\ TrainingInv
<1>1. Init => I
  BY AccountInit, DeletionInit, TermsInit, BackgroundInit, NetworkInit, TrainingInit DEF Init
<1>2. I /\ [Next]_vars => I'
  BY PartsNext, AccountNext, DeletionNext, TermsNext, BackgroundNext, NetworkNext, TrainingNext
<1>3. I => AccessIsEarned
  BY AccountFollows, DeletionFollows, TermsFollows, NetworkFollows, TrainingFollows
     DEF AccessIsEarned, BackgroundInv
<1> HIDE DEF I
<1> QED BY <1>1, <1>2, <1>3, PTL DEF Spec

\* Every component keeps its types, for any people, texts, plans and limits.
THEOREM TypeCorrect == Spec => []TypeOK
<1> DEFINE I == /\ TenantInv /\ ApplicationInv /\ BackgroundInv /\ NetworkInv /\ TrainingInv
                /\ CreditInv /\ AccountInv /\ DeletionInv /\ TermsInv /\ ComplaintInv
<1>1. Init => I
  BY TenantInit, ApplicationInit, BackgroundInit, NetworkInit, TrainingInit, CreditInit,
     AccountInit, DeletionInit, TermsInit, ComplaintInit DEF Init
<1>2. I /\ [Next]_vars => I'
  BY PartsNext, TenantNext, ApplicationNext, BackgroundNext, NetworkNext, TrainingNext,
     CreditNext, AccountNext, DeletionNext, TermsNext, ComplaintNext
<1>3. I => TypeOK
  BY TenantFollows, CreditFollows, AccountFollows, TermsFollows, ComplaintFollows
     DEF TypeOK, ApplicationInv, BackgroundInv, NetworkInv, TrainingInv, DeletionInv
<1> HIDE DEF I
<1> QED BY <1>1, <1>2, <1>3, PTL DEF Spec
=============================================================================
