---------------------------- MODULE MarketProofs ----------------------------
(*****************************************************************************)
(* The invariants of Market, for any requests in flight, people, walks,      *)
(* limits and rows: an inductive invariant of each component, and then one   *)
(* theorem for each property of Market.                                      *)
(*****************************************************************************)
EXTENDS Market, FiniteSetTheorems, SequenceTheorems, TLAPS

----------------------------------------------------------------------------
(* Sequences *)

LEMMA SeqFacts ==
  ASSUME NEW S, NEW s \in Seq(S)
  PROVE  /\ Len(s) \in Nat /\ DOMAIN s = 1 .. Len(s)
         /\ \A i \in DOMAIN s : s[i] \in S
OBVIOUS

LEMMA AppendFacts ==
  ASSUME NEW S, NEW s \in Seq(S), NEW x \in S
  PROVE  /\ Append(s, x) \in Seq(S) /\ Len(Append(s, x)) = Len(s) + 1
         /\ DOMAIN Append(s, x) = 1 .. Len(s) + 1
         /\ \A i \in DOMAIN s : Append(s, x)[i] = s[i]
         /\ Append(s, x)[Len(s) + 1] = x
BY AppendProperties, SeqFacts

----------------------------------------------------------------------------
(* Sums: what a fold of + over a finite set comes to.  The library's induction *)
(* takes an operator; here it is the smallest set that fails.                 *)

\* The element a fold takes first.
First(s) == CHOOSE x \in s : TRUE

\* g is how the fold of + unfolds over the subsets of S.
Folds(f, S, g) == g = [s \in SUBSET S |-> IF s = {} THEN 0 ELSE f[First(s)] + g[s \ {First(s)}]]

LEMMA FirstIsIn == ASSUME NEW s, s # {} PROVE First(s) \in s
BY DEF First

\* Induction over finite sets, first order: of some finite sets one has no smaller one among them.
LEMMA Smallest ==
  ASSUME NEW S, IsFiniteSet(S), NEW B, B \subseteq SUBSET S, B # {}
  PROVE  \E T \in B : \A U \in B : U \subseteq T => U = T
<1>1. FiniteSubsetsOf(S) = SUBSET S BY FS_FiniteSubsetsOfFinite
<1>2. IsWellFoundedOn(StrictSubsetOrdering(S), SUBSET S)
  BY <1>1, FS_StrictSubsetOrderingWellFounded
<1>3. \E T \in B : \A U \in B : ~(<<U, T>> \in StrictSubsetOrdering(S)) BY <1>2, WFMin
<1>4. ASSUME NEW T \in B, NEW U \in B, U \subseteq T, U # T
      PROVE  <<U, T>> \in StrictSubsetOrdering(S)
  BY <1>4 DEF StrictSubsetOrdering
<1> QED BY <1>3, <1>4

\* Two unfoldings agree where both are defined.
LEMMA FoldsAgree ==
  ASSUME NEW f, NEW S, IsFiniteSet(S), NEW T, NEW g, NEW h, Folds(f, S, g), Folds(f, T, h)
  PROVE  \A s \in SUBSET (S \cap T) : g[s] = h[s]
<1> DEFINE B == {s \in SUBSET (S \cap T) : g[s] # h[s]}
<1> SUFFICES ASSUME B # {} PROVE FALSE OBVIOUS
<1>1. B \subseteq SUBSET S OBVIOUS
<1>2. \E t \in B : \A u \in B : u \subseteq t => u = t
  <2> HIDE DEF B
  <2> QED BY <1>1, Smallest
<1>2a. PICK t \in B : \A u \in B : u \subseteq t => u = t BY <1>2
<1>3. t \in SUBSET S /\ t \in SUBSET T /\ g[t] # h[t] OBVIOUS
<1>4. /\ g[t] = IF t = {} THEN 0 ELSE f[First(t)] + g[t \ {First(t)}]
      /\ h[t] = IF t = {} THEN 0 ELSE f[First(t)] + h[t \ {First(t)}]
  BY <1>3 DEF Folds
<1>5. t # {} BY <1>3, <1>4
<1>6. First(t) \in t BY <1>5, FirstIsIn
<1>7. t \ {First(t)} \notin B BY <1>2a, <1>6
<1>8. t \ {First(t)} \in SUBSET (S \cap T) BY <1>3
<1>9. g[t \ {First(t)}] = h[t \ {First(t)}] BY <1>7, <1>8
<1> QED BY <1>3, <1>4, <1>5, <1>9

LEMMA FoldsExist ==
  ASSUME NEW f, NEW S, IsFiniteSet(S)
  PROVE  \E g : Folds(f, S, g)
<1> DEFINE B == {T \in SUBSET S : ~\E g : Folds(f, T, g)}
<1> SUFFICES ASSUME B # {} PROVE FALSE OBVIOUS
<1>1. B \subseteq SUBSET S OBVIOUS
<1>2. \E T \in B : \A U \in B : U \subseteq T => U = T
  <2> HIDE DEF B
  <2> QED BY <1>1, Smallest
<1>2a. PICK T \in B : \A U \in B : U \subseteq T => U = T BY <1>2
<1>3. T \in SUBSET S /\ ~\E g : Folds(f, T, g) OBVIOUS
<1>4. IsFiniteSet(T) BY <1>3, FS_Subset
<1> DEFINE of(U) == CHOOSE g : Folds(f, U, g)
           rest(s) == s \ {First(s)}
           h == [s \in SUBSET T |-> IF s = {} THEN 0 ELSE f[First(s)] + of(rest(s))[rest(s)]]
<1>5. ASSUME NEW U \in SUBSET T, U # T PROVE IsFiniteSet(U) /\ Folds(f, U, of(U))
  <2>1. U \notin B BY <1>2a, <1>5
  <2>2. \E g : Folds(f, U, g) BY <1>3, <2>1
  <2> QED BY <1>4, <2>2, FS_Subset
<1>6. ASSUME NEW s \in SUBSET T, s # {} PROVE h[rest(s)] = of(rest(s))[rest(s)]
  <2>1. PICK u : u = rest(s) OBVIOUS
  <2>2. u \in SUBSET T /\ u # T BY <1>6, <2>1, FirstIsIn
  <2>3. Folds(f, u, of(u)) /\ IsFiniteSet(u) BY <1>5, <2>2
  <2>4. of(u)[u] = IF u = {} THEN 0 ELSE f[First(u)] + of(u)[rest(u)]
    BY <2>3 DEF Folds
  <2>5. h[u] = IF u = {} THEN 0 ELSE f[First(u)] + of(rest(u))[rest(u)] BY <2>2
  <2>6. CASE u = {} BY <2>1, <2>4, <2>5, <2>6
  <2>7. CASE u # {}
    <3>1. PICK v : v = rest(u) OBVIOUS
    <3>2. v \in SUBSET u /\ v \in SUBSET T /\ v # T BY <2>2, <2>7, <3>1, FirstIsIn
    <3>3. Folds(f, v, of(v)) BY <1>5, <3>2
    <3>4. of(u)[v] = of(v)[v] BY <2>3, <3>2, <3>3, FoldsAgree
    <3> QED BY <2>1, <2>4, <2>5, <2>7, <3>1, <3>4
  <2> QED BY <2>6, <2>7
<1>7. Folds(f, T, h)
  <2>1. DOMAIN h = SUBSET T OBVIOUS
  <2>2. ASSUME NEW s \in SUBSET T
        PROVE  h[s] = IF s = {} THEN 0 ELSE f[First(s)] + h[rest(s)]
    <3>1. CASE s = {} BY <3>1
    <3>2. CASE s # {}
      <4>1. h[s] = f[First(s)] + of(rest(s))[rest(s)] BY <3>2
      <4>2. h[rest(s)] = of(rest(s))[rest(s)] BY <1>6, <3>2
      <4> HIDE DEF h, of, rest
      <4> QED BY <3>2, <4>1, <4>2
    <3> QED BY <3>1, <3>2
  <2>3. h = [s \in DOMAIN h |-> h[s]] OBVIOUS
  <2> HIDE DEF h
  <2>4. h = [s \in SUBSET T |-> IF s = {} THEN 0 ELSE f[First(s)] + h[s \ {First(s)}]]
    BY <2>1, <2>2, <2>3
  <2> QED BY <2>4 DEF Folds
<1> QED BY <1>3, <1>7

Total(f, S) == Wallet!MapThenSumSet(LAMBDA x : f[x], S)

LEMMA SumUnfolds ==
  ASSUME NEW f, NEW S, IsFiniteSet(S)
  PROVE  \E g : Folds(f, S, g) /\ Total(f, S) = g[S]
<1> DEFINE it == CHOOSE g : Folds(f, S, g)
<1>1. Folds(f, S, it) BY FoldsExist
<1>2. Total(f, S) = it[S]
  BY DEF Total, Wallet!MapThenSumSet, Wallet!MapThenFoldSet, Folds, First
<1> QED BY <1>1, <1>2

\* Whatever unfolds as the fold does sums to the same.
LEMMA FoldsAreSums ==
  ASSUME NEW f, NEW S, IsFiniteSet(S), NEW h, Folds(f, S, h)
  PROVE  h[S] = Total(f, S)
<1>1. PICK g : Folds(f, S, g) /\ Total(f, S) = g[S] BY SumUnfolds
<1> QED BY <1>1, FoldsAgree

LEMMA TotalOfNone == ASSUME NEW f PROVE Total(f, {}) = 0
<1>1. PICK g : Folds(f, {}, g) /\ Total(f, {}) = g[{}] BY FS_EmptySet, SumUnfolds
<1> QED BY <1>1 DEF Folds

LEMMA TotalSteps ==
  ASSUME NEW f, NEW S, IsFiniteSet(S), S # {}
  PROVE  First(S) \in S /\ Total(f, S) = f[First(S)] + Total(f, S \ {First(S)})
<1>1. PICK T : T = S \ {First(S)} OBVIOUS
<1>2. IsFiniteSet(T) /\ T \subseteq S BY <1>1, FS_Subset
<1>3. PICK g : Folds(f, S, g) /\ Total(f, S) = g[S] BY SumUnfolds
<1>4. PICK h : Folds(f, T, h) /\ Total(f, T) = h[T] BY <1>2, SumUnfolds
<1>5. g[S] = f[First(S)] + g[T] BY <1>1, <1>3 DEF Folds
<1>6. g[T] = h[T] BY <1>2, <1>3, <1>4, FoldsAgree
<1> QED BY <1>1, <1>3, <1>4, <1>5, <1>6, FirstIsIn

LEMMA TotalIsNat ==
  ASSUME NEW f, NEW S, IsFiniteSet(S), \A x \in S : f[x] \in Nat
  PROVE  Total(f, S) \in Nat
<1> DEFINE B == {U \in SUBSET S : Total(f, U) \notin Nat}
<1>1. SUFFICES ASSUME B # {} PROVE FALSE OBVIOUS
<1>2. \E U \in B : \A V \in B : V \subseteq U => V = U
  <2>1. B \subseteq SUBSET S OBVIOUS
  <2> HIDE DEF B
  <2> QED BY <1>1, <2>1, Smallest
<1>3. PICK U \in B : \A V \in B : V \subseteq U => V = U BY <1>2
<1>4. U \in SUBSET S /\ Total(f, U) \notin Nat /\ IsFiniteSet(U) BY FS_Subset
<1>5. U # {} BY <1>4, TotalOfNone
<1>6. PICK c : c = First(U) OBVIOUS
<1>7. c \in U /\ Total(f, U) = f[c] + Total(f, U \ {c}) BY <1>4, <1>5, <1>6, TotalSteps
<1>8. U \ {c} \in SUBSET S /\ U \ {c} \notin B BY <1>3, <1>4, <1>7
<1>9. Total(f, U \ {c}) \in Nat BY <1>8
<1> QED BY <1>4, <1>7, <1>9

\* The order of the sum does not matter.
LEMMA TotalTakes ==
  ASSUME NEW f, NEW S, IsFiniteSet(S), \A x \in S : f[x] \in Nat, NEW a \in S
  PROVE  Total(f, S) = f[a] + Total(f, S \ {a})
<1> DEFINE B == {U \in SUBSET S : \E x \in U : Total(f, U) # f[x] + Total(f, U \ {x})}
<1>1. SUFFICES ASSUME B # {} PROVE FALSE OBVIOUS
<1>2. \E U \in B : \A V \in B : V \subseteq U => V = U
  <2>1. B \subseteq SUBSET S OBVIOUS
  <2> HIDE DEF B
  <2> QED BY <1>1, <2>1, Smallest
<1>3. PICK U \in B : \A V \in B : V \subseteq U => V = U BY <1>2
<1>4. U \in SUBSET S /\ IsFiniteSet(U) BY FS_Subset
<1>5. PICK x \in U : Total(f, U) # f[x] + Total(f, U \ {x}) OBVIOUS
<1>6. PICK c : c = First(U) OBVIOUS
<1>7. c \in U /\ Total(f, U) = f[c] + Total(f, U \ {c}) BY <1>4, <1>5, <1>6, TotalSteps
<1>8. c # x BY <1>5, <1>7
<1>9. \A V \in SUBSET U : V # U => \A y \in V : Total(f, V) = f[y] + Total(f, V \ {y})
  BY <1>3, <1>4
<1>10. PICK V, W, R : V = U \ {c} /\ W = U \ {x} /\ R = U \ {c, x} OBVIOUS
<1>11. V \in SUBSET U /\ V # U /\ x \in V /\ V \ {x} = R BY <1>7, <1>8, <1>10
<1>12. W \in SUBSET U /\ W # U /\ c \in W /\ W \ {c} = R BY <1>7, <1>8, <1>10
<1>13. Total(f, V) = f[x] + Total(f, R) BY <1>9, <1>11
<1>14. Total(f, W) = f[c] + Total(f, R) BY <1>9, <1>12
<1>15. Total(f, R) \in Nat
  <2>1. IsFiniteSet(R) /\ R \subseteq S BY <1>4, <1>10, FS_Subset
  <2> QED BY <2>1, TotalIsNat
<1>16. f[x] \in Nat /\ f[c] \in Nat BY <1>4, <1>7
<1>17. Total(f, U) = f[c] + Total(f, V) /\ Total(f, U) # f[x] + Total(f, W) BY <1>5, <1>7, <1>10
<1> QED BY <1>13, <1>14, <1>15, <1>16, <1>17

\* More summands, and larger ones, sum to more.
LEMMA TotalGrows ==
  ASSUME NEW f, NEW g, NEW S, IsFiniteSet(S), NEW T \in SUBSET S,
         \A x \in S : f[x] \in Nat /\ g[x] \in Nat, \A x \in T : f[x] <= g[x]
  PROVE  Total(f, T) <= Total(g, S)
<1> DEFINE B == {U \in SUBSET S : ~(Total(f, U \cap T) <= Total(g, U))}
<1>1. SUFFICES ASSUME B # {} PROVE FALSE
  <2>1. S \cap T = T /\ S \in SUBSET S OBVIOUS
  <2> QED BY <2>1
<1>2. \E U \in B : \A V \in B : V \subseteq U => V = U
  <2>1. B \subseteq SUBSET S OBVIOUS
  <2> HIDE DEF B
  <2> QED BY <1>1, <2>1, Smallest
<1>3. PICK U \in B : \A V \in B : V \subseteq U => V = U BY <1>2
<1>4. U \in SUBSET S /\ IsFiniteSet(U) /\ ~(Total(f, U \cap T) <= Total(g, U)) BY FS_Subset
<1>5. U # {}
  <2>1. {} \cap T = {} OBVIOUS
  <2> QED BY <1>4, <2>1, TotalOfNone
<1>6. PICK c : c = First(U) OBVIOUS
<1>7. c \in U /\ Total(g, U) = g[c] + Total(g, U \ {c}) BY <1>4, <1>5, <1>6, TotalSteps
<1>8. PICK V : V = U \ {c} OBVIOUS
<1>9. V \in SUBSET S /\ V \notin B BY <1>3, <1>4, <1>7, <1>8
<1>10. Total(f, V \cap T) <= Total(g, V) BY <1>9
<1>11. IsFiniteSet(V) /\ IsFiniteSet(V \cap T) /\ V \cap T \subseteq S BY <1>4, <1>9, FS_Subset
<1>12. Total(f, V \cap T) \in Nat /\ Total(g, V) \in Nat BY <1>9, <1>11, TotalIsNat
<1>13. f[c] \in Nat /\ g[c] \in Nat BY <1>4, <1>7
<1>14. CASE c \in T
  <2>1. PICK W : W = U \cap T OBVIOUS
  <2>2. IsFiniteSet(W) /\ W \subseteq S /\ c \in W /\ W \ {c} = V \cap T
    BY <1>4, <1>7, <1>8, <1>14, <2>1, FS_Subset
  <2>3. Total(f, W) = f[c] + Total(f, W \ {c}) BY <2>2, TotalTakes
  <2>4. Total(f, W) = f[c] + Total(f, V \cap T) BY <2>2, <2>3
  <2>5. Total(g, U) = g[c] + Total(g, V) BY <1>7, <1>8
  <2>6. f[c] <= g[c] BY <1>14
  <2>7. Total(f, W) <= Total(g, U) BY <1>10, <1>12, <1>13, <2>4, <2>5, <2>6
  <2> QED BY <1>4, <2>1, <2>7
<1>15. CASE c \notin T
  <2>1. U \cap T = V \cap T BY <1>8, <1>15
  <2> QED BY <1>4, <1>7, <1>8, <1>10, <1>12, <1>13, <2>1
<1> QED BY <1>14, <1>15

----------------------------------------------------------------------------
(* Tips *)

\* A request in flight asks for a row; only a charge that was paid is told as confirmed;
\* of the rows no late event reopened, one is open.
TipInv == /\ Tip!TypeOK
          /\ Tip!CountedTipWasPaid
          /\ \A h \in Handlers : ask[h].at # "idle" => ask[h].tip \in Tips
          /\ \A t \in Tips : <<t, "confirmed">> \in told => tip[t].got
          /\ \A s, t \in Tips : /\ tip[s].st = "pending" /\ ~tip[s].revived
                                /\ tip[t].st = "pending" /\ ~tip[t].revived
                                => s = t

LEMMA TipInit == ASSUME Tip!Init PROVE TipInv
BY DEF Tip!Init, TipInv, Tip!TypeOK, Tip!TipRow, Tip!NoTip, Tip!NoAsk, Tip!CountedTipWasPaid

LEMMA TipOfCheckout ==
  ASSUME TipInv, NEW h \in Handlers,
         \/ \E t \in Tips, a \in Amounts : Tip!BeginCheckout(h, t, a)
         \/ Tip!Charged(h) \/ Tip!CommitCheckout(h) \/ Tip!Refused(h)
  PROVE  TipInv'
<1> USE DEF TipInv, Tip!TypeOK, Tip!CountedTipWasPaid, Tip!TipRow, Tip!NoAsk
<1>1. ASSUME NEW t \in Tips, NEW a \in Amounts, Tip!BeginCheckout(h, t, a) PROVE TipInv'
  BY <1>1 DEF Tip!BeginCheckout
<1>2. CASE Tip!Charged(h)
  <2> DEFINE u == ask[h].tip
  <2>1. u \in Tips /\ tip[u] \in Tip!TipRow BY <1>2 DEF Tip!Charged
  <2>2. tip' = [tip EXCEPT ![u] = [tip[u] EXCEPT !.billed = TRUE]] BY <1>2 DEF Tip!Charged
  <2>3. [tip[u] EXCEPT !.billed = TRUE] \in Tip!TipRow BY <2>1
  <2>4. tip' \in [Tips -> Tip!TipRow] BY <2>1, <2>2, <2>3
  <2>5. \A t \in Tips : /\ tip'[t].st = tip[t].st /\ tip'[t].got = tip[t].got
                        /\ tip'[t].revived = tip[t].revived
    BY <2>1, <2>2
  <2>6. ask' \in [Handlers -> [at : {"idle", "asked", "charged"}, tip : Tips \cup {"none"},
                               amount : Amounts \cup {0}]]
    BY <1>2 DEF Tip!Charged
  <2>7. told' = told \cup {<<u, "waits">>} BY <1>2 DEF Tip!Charged
  <2>8. told' \subseteq Tips \X Tip!Events BY <2>1, <2>7 DEF Tip!Events
  <2>9. \A g \in Handlers : ask'[g].at # "idle" => ask'[g].tip \in Tips
    BY <1>2 DEF Tip!Charged
  <2>10. \A t \in Tips : <<t, "confirmed">> \in told' => tip'[t].got
    BY <2>5, <2>7
  <2>11. fresh' \subseteq Tips BY <1>2 DEF Tip!Charged
  <2> QED BY <2>4, <2>5, <2>6, <2>8, <2>9, <2>10, <2>11
<1>3. CASE Tip!CommitCheckout(h)
  <2> DEFINE u == ask[h].tip
             new(t) == IF t = u THEN [tip[t] EXCEPT !.st = "pending", !.amount = ask[h].amount]
                       ELSE Tip!Superseded(t)
  <2>1. tip' = [t \in Tips |-> new(t)] BY <1>3 DEF Tip!CommitCheckout
  <2>2. u \in Tips /\ ask[h].amount \in Amounts \cup {0} BY <1>3 DEF Tip!CommitCheckout
  <2>3. ASSUME NEW t \in Tips
        PROVE  /\ new(t) \in Tip!TipRow
               /\ new(t).got = tip[t].got /\ new(t).revived = tip[t].revived
               /\ new(t).st = "pending" <=> t = u
               /\ new(t).st = "paid" => tip[t].st = "paid"
    <3>1. tip[t] \in Tip!TipRow OBVIOUS
    <3> QED BY <2>2, <3>1 DEF Tip!Superseded
  <2>4. tip' \in [Tips -> Tip!TipRow] BY <2>1, <2>3
  <2>5. /\ ask' \in [Handlers -> [at : {"idle", "asked", "charged"}, tip : Tips \cup {"none"},
                                  amount : Amounts \cup {0}]]
        /\ fresh' \subseteq Tips /\ told' = told
        /\ \A g \in Handlers : ask'[g].at # "idle" => ask'[g].tip \in Tips
    BY <1>3 DEF Tip!CommitCheckout
  <2> HIDE DEF new, u
  <2>6. \A t \in Tips : tip'[t].got = tip[t].got /\ (tip'[t].st = "paid" => tip[t].st = "paid")
    BY <2>1, <2>3
  <2>7. \A t \in Tips : tip'[t].st = "pending" => t = u BY <2>1, <2>3
  <2> QED BY <2>4, <2>5, <2>6, <2>7
<1>4. CASE Tip!Refused(h)
  BY <1>4 DEF Tip!Refused
<1> QED BY <1>1, <1>2, <1>3, <1>4

LEMMA TipOfEvent ==
  ASSUME TipInv, NEW t \in Tips, NEW e \in Tip!Events,
         Tip!Pay(t) \/ Tip!Tell(t, e) \/ Tip!Deliver(t, e)
  PROVE  TipInv'
<1> USE DEF TipInv, Tip!TypeOK, Tip!CountedTipWasPaid, Tip!TipRow, Tip!Events
<1>1. CASE Tip!Pay(t)
  <2>1. tip[t] \in Tip!TipRow /\ tip' = [tip EXCEPT ![t] = [tip[t] EXCEPT !.got = TRUE]]
    BY <1>1 DEF Tip!Pay
  <2>2. [tip[t] EXCEPT !.got = TRUE] \in Tip!TipRow BY <2>1
  <2>3. tip' \in [Tips -> Tip!TipRow] BY <2>1, <2>2
  <2>4. \A u \in Tips : /\ tip'[u].st = tip[u].st /\ tip'[u].revived = tip[u].revived
                        /\ tip[u].got => tip'[u].got
    BY <2>1
  <2>5. tip'[t].got BY <2>1
  <2>6. told' = told \cup {<<t, "confirmed">>} /\ UNCHANGED <<fresh, ask>> BY <1>1 DEF Tip!Pay
  <2>7. \A u \in Tips : <<u, "confirmed">> \in told' => tip'[u].got BY <2>4, <2>5, <2>6
  <2>8. \A u \in Tips : tip'[u].st = "paid" => tip'[u].got BY <2>4
  <2> QED BY <2>3, <2>4, <2>6, <2>7, <2>8
<1>2. CASE Tip!Tell(t, e)
  BY <1>2 DEF Tip!Tell
<1>3. CASE Tip!Deliver(t, e)
  <2>1. Tip!Told(e) \in {"pending", "paid", "failed"}
    BY Zenon DEF Tip!Told
  <2>2. /\ Tip!Told(e) = "paid" => e = "confirmed"
        /\ Tip!Told(e) = "pending" => e = "waits"
    BY Zenon DEF Tip!Told
  <2> QED BY <1>3, <2>1, <2>2 DEF Tip!Deliver
<1> QED BY <1>1, <1>2, <1>3

LEMMA TipNext == ASSUME TipInv, [Tip!Next]_OfTip PROVE TipInv'
<1>1. CASE Tip!Next
  <2>1. CASE Tip!Ages
    BY <2>1 DEF Tip!Ages, TipInv, Tip!TypeOK, Tip!CountedTipWasPaid
  <2> QED BY <1>1, <2>1, TipOfCheckout, TipOfEvent DEF Tip!Next, Tip!Events
<1>2. CASE UNCHANGED OfTip
  BY <1>2 DEF OfTip, TipInv, Tip!TypeOK, Tip!CountedTipWasPaid
<1> QED BY <1>1, <1>2

LEMMA TipFollows == ASSUME TipInv PROVE Tip!TipsFollowMoney
<1> DEFINE open == {t \in Tips : tip[t].st = "pending" /\ ~tip[t].revived}
<1>1. open = {} => Cardinality(open) <= 1
  <2> HAVE open = {}
  <2>1. Cardinality(open) = 0 BY FS_EmptySet
  <2> QED BY <2>1
<1>2. open # {} => Cardinality(open) <= 1
  <2> HAVE open # {}
  <2>1. PICK t \in open : TRUE OBVIOUS
  <2>2. open = {t} BY <2>1 DEF TipInv
  <2>3. Cardinality(open) = 1 BY <2>2, FS_Singleton
  <2> QED BY <2>3
<1>3. Cardinality(open) <= 1 BY <1>1, <1>2
<1>4. Tip!CountedTipWasPaid BY DEF TipInv
<1>5. Tip!Cardinality(open) = Cardinality(open) BY DEF Tip!Cardinality, Cardinality
<1> QED BY <1>3, <1>4, <1>5 DEF Tip!TipsFollowMoney, Tip!OneOpenTip

----------------------------------------------------------------------------
(* Fiscal notes *)

NoteStatus == {"scheduled", "synchronized", "authorized", "error", "canceled"}

\* None of the exceptions of OneNoteStands came about.
Clean == ~trace.twice /\ ~trace.lost /\ ~trace.hidden

\* An invoice that ended stays so: what a row or an event in the post says of an end is
\* true.  Every invoice has its row, unless an answer was lost.  While a webhook waits
\* for its answer no invoice stands.
FiscalInv ==
  /\ nfse \in Seq([st : NoteStatus, id : Nat]) /\ issued \in Seq(NoteStatus)
  /\ post \subseteq [id : Nat, st : NoteStatus] /\ asking \subseteq Handlers
  /\ trace \in [events : 0 .. MaxEvents, twice : BOOLEAN, lost : BOOLEAN, hidden : BOOLEAN]
  /\ \A i \in DOMAIN nfse : nfse[i].id \in 0 .. Len(issued)
  /\ \A i \in DOMAIN nfse : nfse[i].id # 0 /\ nfse[i].st \in Fiscal!Dead
                            => issued[nfse[i].id] \in Fiscal!Dead
  /\ \A e \in post : /\ e.id \in DOMAIN issued
                     /\ e.st \in Fiscal!Dead => issued[e.id] \in Fiscal!Dead
  /\ ~trace.lost => \A k \in DOMAIN issued : \E i \in DOMAIN nfse : nfse[i].id = k
  /\ Clean => /\ \A g, h \in asking : g = h
              /\ asking # {} => Fiscal!Standing = {}
              /\ \A j, k \in Fiscal!Standing : j = k

LEMMA FiscalInit == ASSUME Fiscal!Init PROVE FiscalInv
BY FiscalParameters
   DEF Fiscal!Init, FiscalInv, Fiscal!EventsAssumption, Fiscal!Standing

\* A bill is asked for again only when no row lives, and then no invoice stands.
LEMMA FiscalSettle == ASSUME FiscalInv, NEW h \in Handlers, Fiscal!Settle(h) PROVE FiscalInv'
<1> DEFINE Traces == [events : 0 .. MaxEvents, twice : BOOLEAN, lost : BOOLEAN,
                      hidden : BOOLEAN]
           asks == asking' = asking \/ (asking = {} /\ asking' = {h} /\ Fiscal!Live = {})
<1>0. trace \in Traces /\ trace.events + 1 \in 0 .. MaxEvents /\ asking \subseteq Handlers
  <2>1. trace \in Traces /\ asking \subseteq Handlers BY DEF FiscalInv
  <2>2. trace.events \in 0 .. MaxEvents BY <2>1
  <2>3. trace.events < MaxEvents BY DEF Fiscal!Settle
  <2> QED BY FiscalParameters, <2>1, <2>2, <2>3 DEF Fiscal!EventsAssumption
<1>1. ASSUME nfse = <<>>, asking' = asking \cup {h},
             trace' = [trace EXCEPT !.events = @ + 1, !.twice = @ \/ asking # {}]
      PROVE  trace' \in Traces /\ trace'.lost = trace.lost /\ (Clean' => Clean /\ asks)
  <2>1. trace' \in Traces /\ trace'.lost = trace.lost BY <1>0, <1>1
  <2>2. Fiscal!Live = {} BY <1>1 DEF Fiscal!Live
  <2>3. Clean' => Clean /\ asking = {} BY <1>0, <1>1 DEF Clean
  <2> QED BY <1>1, <2>1, <2>2, <2>3
<1>2. ASSUME NEW i \in DOMAIN nfse,
             asking' = IF Fiscal!Asks(i) THEN asking \cup {h} ELSE asking,
             trace' = [trace EXCEPT !.events = @ + 1,
                         !.twice  = @ \/ (Fiscal!Asks(i) /\ asking # {}),
                         !.hidden = @ \/ (i \notin Fiscal!Live /\ Fiscal!Live # {})]
      PROVE  trace' \in Traces /\ trace'.lost = trace.lost /\ (Clean' => Clean /\ asks)
  <2>1. trace' \in Traces /\ trace'.lost = trace.lost BY <1>0, <1>2
  <2>2. Clean' => /\ Clean /\ ~(Fiscal!Asks(i) /\ asking # {})
                  /\ ~(i \notin Fiscal!Live /\ Fiscal!Live # {})
    BY <1>0, <1>2 DEF Clean
  <2> QED BY <1>2, <2>1, <2>2 DEF Fiscal!Asks
<1>3. UNCHANGED <<nfse, issued, post>> /\ asking' \subseteq Handlers
  BY DEF Fiscal!Settle, FiscalInv
<1>4. trace' \in Traces /\ trace'.lost = trace.lost /\ (Clean' => Clean /\ asks)
  BY <1>1, <1>2 DEF Fiscal!Settle
<1> HIDE DEF asks, Traces
<1>5. Clean' => Clean /\ (asking' = asking \/ (asking = {} /\ asking' = {h} /\ Fiscal!Live = {}))
  BY <1>4 DEF asks
<1>6. ASSUME Fiscal!Live = {}, Clean PROVE Fiscal!Standing = {}
  BY <1>6 DEF Fiscal!Live, Fiscal!Standing, FiscalInv, Clean
<1>7. Fiscal!Standing' = Fiscal!Standing BY <1>3 DEF Fiscal!Standing
<1>8. Clean' => /\ \A g, k \in asking' : g = k
                /\ asking' # {} => Fiscal!Standing' = {}
                /\ \A j, k \in Fiscal!Standing' : j = k
  BY <1>5, <1>6, <1>7 DEF FiscalInv
<1> QED BY <1>3, <1>4, <1>8 DEF FiscalInv, Traces

LEMMA FiscalAnswer ==
  ASSUME FiscalInv, NEW h \in Handlers, NEW how \in {"made", "refused", "lost"},
         Fiscal!Answer(h, how)
  PROVE  FiscalInv'
<1> DEFINE row == IF how = "made" THEN [st |-> "scheduled", id |-> Len(issued')]
                  ELSE [st |-> "error", id |-> 0]
<1>1. /\ h \in asking /\ asking' = asking \ {h} /\ post' = post
      /\ issued' = IF how = "refused" THEN issued ELSE Append(issued, "scheduled")
      /\ nfse' = Append(nfse, row)
      /\ trace' = [trace EXCEPT !.lost = @ \/ how = "lost"]
  BY DEF Fiscal!Answer
<1>2. /\ nfse \in Seq([st : NoteStatus, id : Nat]) /\ issued \in Seq(NoteStatus)
      /\ trace \in [events : 0 .. MaxEvents, twice : BOOLEAN, lost : BOOLEAN, hidden : BOOLEAN]
  BY DEF FiscalInv
<1>3. /\ issued' \in Seq(NoteStatus) /\ Len(issued') >= Len(issued)
      /\ \A k \in DOMAIN issued : k \in DOMAIN issued' /\ issued'[k] = issued[k]
      /\ \A k \in DOMAIN issued' : k \in DOMAIN issued
                                  \/ (k = Len(issued') /\ how # "refused")
      /\ how = "made" => Len(issued') \in DOMAIN issued'
      /\ how = "refused" => issued' = issued
  <2>1. "scheduled" \in NoteStatus BY DEF NoteStatus
  <2>2. /\ Len(issued) \in Nat /\ DOMAIN issued = 1 .. Len(issued)
    BY <1>2, SeqFacts
  <2>3. CASE how = "refused" BY <1>1, <1>2, <2>2, <2>3
  <2>4. CASE how # "refused"
    <3>1. issued' = Append(issued, "scheduled") BY <1>1, <2>4
    <3>2. /\ issued' \in Seq(NoteStatus) /\ Len(issued') = Len(issued) + 1
          /\ DOMAIN issued' = 1 .. Len(issued) + 1
          /\ \A i \in DOMAIN issued : issued'[i] = issued[i]
      BY <1>2, <2>1, <3>1, AppendFacts
    <3> QED BY <2>2, <2>4, <3>2
  <2> QED BY <2>3, <2>4
<1>4. row \in [st : NoteStatus, id : Nat] /\ row.id \in 0 .. Len(issued')
  BY <1>3 DEF NoteStatus
<1>5. /\ nfse' \in Seq([st : NoteStatus, id : Nat])
      /\ \A i \in DOMAIN nfse : i \in DOMAIN nfse' /\ nfse'[i] = nfse[i]
      /\ \A i \in DOMAIN nfse' : i \in DOMAIN nfse \/ (i = Len(nfse') /\ nfse'[i] = row)
      /\ Len(nfse') \in DOMAIN nfse' /\ nfse'[Len(nfse')] = row
  <2> HIDE DEF row
  <2>1. Len(nfse) \in Nat /\ DOMAIN nfse = 1 .. Len(nfse) BY <1>2, SeqFacts
  <2>2. /\ nfse' \in Seq([st : NoteStatus, id : Nat]) /\ Len(nfse') = Len(nfse) + 1
        /\ DOMAIN nfse' = 1 .. Len(nfse) + 1
        /\ \A i \in DOMAIN nfse : nfse'[i] = nfse[i]
        /\ nfse'[Len(nfse) + 1] = row
    BY <1>1, <1>2, <1>4, AppendFacts
  <2> QED BY <2>1, <2>2
<1> HIDE DEF row
<1>6. row.id # 0 => row.st = "scheduled" BY DEF row
<1>7. \A i \in DOMAIN nfse' : nfse'[i].id \in 0 .. Len(issued')
  BY <1>2, <1>3, <1>4, <1>5 DEF FiscalInv
<1>8. \A i \in DOMAIN nfse' : nfse'[i].id # 0 /\ nfse'[i].st \in Fiscal!Dead
                             => issued'[nfse'[i].id] \in Fiscal!Dead
  BY <1>2, <1>3, <1>5, <1>6 DEF FiscalInv, Fiscal!Dead
<1>9. \A e \in post' : /\ e.id \in DOMAIN issued'
                       /\ e.st \in Fiscal!Dead => issued'[e.id] \in Fiscal!Dead
  BY <1>1, <1>3 DEF FiscalInv
<1>10. trace' \in [events : 0 .. MaxEvents, twice : BOOLEAN, lost : BOOLEAN, hidden : BOOLEAN]
  BY <1>1, <1>2
<1>11. /\ ~trace'.lost => ~trace.lost /\ how # "lost"
       /\ Clean' => Clean
  BY <1>1, <1>2 DEF Clean
<1>12. ~trace'.lost => \A k \in DOMAIN issued' : \E i \in DOMAIN nfse' : nfse'[i].id = k
  <2> SUFFICES ASSUME ~trace'.lost, NEW k \in DOMAIN issued'
               PROVE  \E i \in DOMAIN nfse' : nfse'[i].id = k
    OBVIOUS
  <2>1. CASE k \in DOMAIN issued BY <2>1, <1>5, <1>11 DEF FiscalInv
  <2>2. CASE k = Len(issued') /\ how = "made"
    <3>1. row.id = k BY <2>2 DEF row
    <3> QED BY <3>1, <1>5
  <2> QED BY <2>1, <2>2, <1>3, <1>11
<1>13. Clean' => /\ \A g, k \in asking' : g = k
                 /\ asking' # {} => Fiscal!Standing' = {}
                 /\ \A j, k \in Fiscal!Standing' : j = k
  <2> SUFFICES ASSUME Clean' PROVE asking' = {} /\ \A j, k \in Fiscal!Standing' : j = k
    OBVIOUS
  <2>1. asking' = {} BY <1>1, <1>11 DEF FiscalInv
  <2>2. Fiscal!Standing = {} BY <1>1, <1>11 DEF FiscalInv
  <2>3. \A k \in Fiscal!Standing' : k = Len(issued')
    BY <2>2, <1>3 DEF Fiscal!Standing
  <2> QED BY <2>1, <2>3
<1> QED BY <1>1, <1>3, <1>5, <1>7, <1>8, <1>9, <1>10, <1>12, <1>13 DEF FiscalInv

\* Of the gateway's own steps none brings an invoice back.
LEMMA FiscalMoves ==
  ASSUME FiscalInv, NEW k \in DOMAIN issued,
         NEW to \in {"synchronized", "authorized", "canceled", "error"}, Fiscal!Moves(k, to)
  PROVE  FiscalInv'
<1>1. /\ issued[k] \notin Fiscal!Dead
      /\ issued' = [issued EXCEPT ![k] = to] /\ post' = post \cup {[id |-> k, st |-> to]}
      /\ UNCHANGED <<nfse, asking, trace>>
  BY DEF Fiscal!Moves, Fiscal!Dead
<1>2. issued \in Seq(NoteStatus) /\ k \in Nat BY DEF FiscalInv
<1>3. /\ issued' \in Seq(NoteStatus) /\ DOMAIN issued' = DOMAIN issued
      /\ Len(issued') = Len(issued)
      /\ \A j \in DOMAIN issued : issued'[j] = IF j = k THEN to ELSE issued[j]
  BY <1>1, <1>2 DEF NoteStatus
<1>4. \A j \in DOMAIN issued : issued[j] \in Fiscal!Dead => issued'[j] \in Fiscal!Dead
  BY <1>1, <1>3
<1>5. \A e \in post' : /\ e.id \in DOMAIN issued'
                       /\ e.st \in Fiscal!Dead => issued'[e.id] \in Fiscal!Dead
  BY <1>1, <1>3, <1>4 DEF FiscalInv
<1>6. post' \subseteq [id : Nat, st : NoteStatus] BY <1>1, <1>2 DEF FiscalInv, NoteStatus
<1>7. \A i \in DOMAIN nfse' : nfse'[i].id # 0 /\ nfse'[i].st \in Fiscal!Dead
                             => issued'[nfse'[i].id] \in Fiscal!Dead
  <2>1. \A i \in DOMAIN nfse : nfse[i].id # 0 => nfse[i].id \in DOMAIN issued
    BY <1>2 DEF FiscalInv
  <2> QED BY <2>1, <1>1, <1>4 DEF FiscalInv
<1>8. Fiscal!Standing' \subseteq Fiscal!Standing BY <1>1, <1>3, <1>4 DEF Fiscal!Standing
<1>9. Clean' = Clean BY <1>1 DEF Clean
<1> QED BY <1>1, <1>3, <1>5, <1>6, <1>7, <1>8, <1>9 DEF FiscalInv

\* What a row hears of an end is true.
LEMMA FiscalHears == ASSUME FiscalInv, NEW e \in post, Fiscal!Hears(e) PROVE FiscalInv'
<1>1. /\ post' = post \ {e} /\ UNCHANGED <<issued, asking, trace>>
      /\ nfse' = [i \in DOMAIN nfse |-> IF nfse[i].id = e.id THEN [nfse[i] EXCEPT !.st = e.st]
                                        ELSE nfse[i]]
  BY DEF Fiscal!Hears
<1>2. /\ nfse \in Seq([st : NoteStatus, id : Nat]) /\ e.st \in NoteStatus
      /\ e.id \in DOMAIN issued /\ (e.st \in Fiscal!Dead => issued[e.id] \in Fiscal!Dead)
  BY DEF FiscalInv
<1>3. DOMAIN nfse = 1 .. Len(nfse) /\ \A i \in DOMAIN nfse : nfse[i] \in [st : NoteStatus, id : Nat]
  BY <1>2, SeqFacts
<1>4. \A i \in DOMAIN nfse : /\ nfse'[i] \in [st : NoteStatus, id : Nat]
                             /\ nfse'[i].id = nfse[i].id
                             /\ nfse'[i].st = IF nfse[i].id = e.id THEN e.st ELSE nfse[i].st
  BY <1>1, <1>2, <1>3
<1>5. DOMAIN nfse' = DOMAIN nfse BY <1>1
<1>6. nfse' \in Seq([st : NoteStatus, id : Nat]) BY <1>1, <1>3, <1>4, <1>5
<1>7. /\ \A i \in DOMAIN nfse' : nfse'[i].id \in 0 .. Len(issued')
      /\ \A i \in DOMAIN nfse' : nfse'[i].id # 0 /\ nfse'[i].st \in Fiscal!Dead
                                => issued'[nfse'[i].id] \in Fiscal!Dead
  BY <1>1, <1>2, <1>4, <1>5 DEF FiscalInv
<1>8. ~trace'.lost => \A k \in DOMAIN issued' : \E i \in DOMAIN nfse' : nfse'[i].id = k
  BY <1>1, <1>4, <1>5 DEF FiscalInv
<1>9. Fiscal!Standing' = Fiscal!Standing /\ Clean' = Clean BY <1>1 DEF Fiscal!Standing, Clean
<1> QED BY <1>1, <1>6, <1>7, <1>8, <1>9 DEF FiscalInv

LEMMA FiscalNext == ASSUME FiscalInv, [Fiscal!Next]_OfFiscal PROVE FiscalInv'
<1>1. CASE Fiscal!Next
  BY <1>1, FiscalSettle, FiscalAnswer, FiscalMoves, FiscalHears DEF Fiscal!Next
<1>2. CASE UNCHANGED OfFiscal
  BY <1>2 DEF OfFiscal, FiscalInv, Clean, Fiscal!Standing
<1> QED BY <1>1, <1>2

LEMMA FiscalFollows == ASSUME FiscalInv PROVE Fiscal!TypeOK /\ Fiscal!OneNoteStands
<1>1. Fiscal!TypeOK
  <2>1. \A i \in DOMAIN nfse : nfse[i] \in [st : NoteStatus, id : 0 .. Len(issued)]
    <3>1. \A i \in DOMAIN nfse : nfse[i] \in [st : NoteStatus, id : Nat]
      BY SeqFacts DEF FiscalInv
    <3> QED BY <3>1 DEF FiscalInv
  <2>2. NoteStatus = {"scheduled", "synchronized", "authorized"} \cup Fiscal!Dead
    BY DEF NoteStatus, Fiscal!Dead
  <2>3. trace.events \in 0 .. MaxEvents /\ asking \subseteq Handlers BY DEF FiscalInv
  <2> QED BY <2>1, <2>2, <2>3 DEF Fiscal!TypeOK
<1>2. Fiscal!OneNoteStands BY DEF FiscalInv, Clean, Fiscal!OneNoteStands
<1> QED BY <1>1, <1>2

----------------------------------------------------------------------------
(* Invitations of tutors *)

Converting == [op : {"convert"}, type : Tutor!Rewards, payout : BOOLEAN, paid : SUBSET Tutor!Sides,
               held : SUBSET Tutor!Sides, stale : BOOLEAN]
Applying   == [op : {"apply"}, side : Tutor!Sides, held : SUBSET Tutor!Sides, stale : BOOLEAN]

\* A request whose reading is not stale holds back what the row does, and converts an
\* invitation that is not converted.
Reading(t) == t.op \in {"convert", "apply"} /\ ~t.stale =>
                /\ t.held = kept
                /\ t.op = "convert" => invite.st = "registered"

\* Before the reward is granted nobody has any of it; then each side has it once.
TutorInv ==
  /\ Tutor!TypeOK
  /\ turn \in [Handlers -> {Tutor!None} \cup Converting \cup Applying]
  /\ \A h \in Handlers : Reading(turn[h])
  /\ invite.st # "converted" => invite.reward = "not_eligible"
  /\ ~invite.raced /\ invite.reward # "granted" =>
       kept = {} /\ \A s \in Tutor!Sides : given[s] = 0
  /\ Tutor!RewardedOnce

LEMMA TutorInit == ASSUME Tutor!Init PROVE TutorInv
BY DEF Tutor!Init, TutorInv, Tutor!TypeOK, Tutor!RewardedOnce, Tutor!Rewards, Tutor!None,
   Reading

\* After a commit the readings of the others are stale.
LEMMA TutorDone ==
  ASSUME TutorInv, NEW h \in Handlers, Tutor!Done(h)
  PROVE  /\ turn' \in [Handlers -> {Tutor!None} \cup Converting \cup Applying]
         /\ \A g \in Handlers : Reading(turn[g])'
<1>1. ASSUME NEW g \in Handlers
      PROVE  /\ turn'[g] \in {Tutor!None} \cup Converting \cup Applying
             /\ turn'[g] = Tutor!None \/ turn'[g].stale
  <2>1. turn'[g] = IF g = h \/ turn[g] = Tutor!None THEN Tutor!None
                   ELSE [turn[g] EXCEPT !.stale = TRUE]
    BY DEF Tutor!Done
  <2>2. turn[g] \in {Tutor!None} \cup Converting \cup Applying BY DEF TutorInv
  <2>3. CASE g = h \/ turn[g] = Tutor!None BY <2>1, <2>3
  <2>4. CASE turn[g] \in Converting /\ g # h /\ turn[g] # Tutor!None
    <3>1. turn'[g] = [turn[g] EXCEPT !.stale = TRUE] BY <2>1, <2>4
    <3>2. turn'[g] \in Converting BY <2>4, <3>1 DEF Converting
    <3>3. turn'[g].stale BY <2>4, <3>1 DEF Converting
    <3> QED BY <3>2, <3>3
  <2>5. CASE turn[g] \in Applying /\ g # h /\ turn[g] # Tutor!None
    BY <2>1, <2>5 DEF Applying
  <2> QED BY <2>2, <2>3, <2>4, <2>5
<1>2. turn' \in [Handlers -> {Tutor!None} \cup Converting \cup Applying]
  <2>1. turn' = [g \in Handlers |-> turn'[g]] BY DEF Tutor!Done
  <2> QED BY <1>1, <2>1
<1>3. ASSUME NEW g \in Handlers PROVE Reading(turn[g])'
  BY <1>1 DEF Reading, Tutor!None
<1> QED BY <1>2, <1>3

LEMMA TutorConvert ==
  ASSUME TutorInv, NEW h \in Handlers, Tutor!CommitConvert(h)
  PROVE  TutorInv'
<1> DEFINE t == turn[h]
<1>1. t \in Converting
  BY DEF Tutor!CommitConvert, TutorInv, Tutor!None, Applying
<1>2. /\ invite' = [st |-> "converted", type |-> t.type, raced |-> invite.raced \/ t.stale,
                    reward |-> IF t.payout THEN "granted" ELSE "eligible"]
      /\ kept'  = IF t.payout THEN Tutor!KeptBy(t) ELSE kept
      /\ given' = IF t.payout THEN Tutor!GivenBy(t) ELSE given
      /\ Tutor!Done(h) /\ UNCHANGED <<member, earned>>
  BY DEF Tutor!CommitConvert
<1>3. /\ t.type \in {"coupon", "credit"} /\ t.payout \in BOOLEAN /\ t.stale \in BOOLEAN
      /\ t.paid \subseteq Tutor!Sides /\ t.held \subseteq Tutor!Sides /\ t.op = "convert"
  BY <1>1 DEF Converting, Tutor!Rewards
<1>4. /\ invite.raced \in BOOLEAN /\ kept \subseteq Tutor!Sides
      /\ given \in [Tutor!Sides -> Nat]
  BY DEF TutorInv, Tutor!TypeOK
<1>5. invite' \in [st : {"none", "pending", "registered", "converted"}, type : Tutor!Rewards,
                   reward : {"not_eligible", "eligible", "granted"}, raced : BOOLEAN]
  BY <1>2, <1>3, <1>4 DEF Tutor!Rewards
<1>6. kept' \subseteq Tutor!Sides BY <1>2, <1>3, <1>4 DEF Tutor!KeptBy
<1> HIDE DEF t
<1>7. ASSUME NEW s \in Tutor!Sides
      PROVE  Tutor!GivenBy(t)[s] = IF t.type = "coupon" THEN (IF given[s] = 0 THEN 1 ELSE given[s])
                                   ELSE IF s \in t.paid THEN given[s] + 1 ELSE given[s]
  BY <1>3 DEF Tutor!GivenBy
<1>8. given' \in [Tutor!Sides -> Nat]
  <2>1. Tutor!GivenBy(t) = [s \in Tutor!Sides |-> Tutor!GivenBy(t)[s]] BY DEF Tutor!GivenBy
  <2>2. \A s \in Tutor!Sides : Tutor!GivenBy(t)[s] \in Nat BY <1>4, <1>7
  <2> QED BY <1>2, <1>4, <2>1, <2>2
<1>9. ASSUME ~invite'.raced
      PROVE  /\ ~t.payout => kept' = {} /\ \A s \in Tutor!Sides : given'[s] = 0
             /\ t.payout => \A s \in Tutor!Sides : given'[s] + (IF s \in kept' THEN 1 ELSE 0) = 1
  <2>1. ~invite.raced /\ ~t.stale BY <1>2, <1>3, <1>4, <1>9
  <2>2. t.held = kept /\ invite.st = "registered" BY <2>1, <1>3 DEF TutorInv, Reading, t
  <2>3. kept = {} /\ \A s \in Tutor!Sides : given[s] = 0 BY <2>1, <2>2 DEF TutorInv
  <2>4. CASE ~t.payout BY <1>2, <2>3, <2>4
  <2>5. CASE t.payout
    <3> SUFFICES ASSUME NEW s \in Tutor!Sides
                 PROVE  given'[s] + (IF s \in kept' THEN 1 ELSE 0) = 1
      BY <2>5
    <3>1. kept' = IF t.type = "credit" THEN Tutor!Sides \ t.paid ELSE {}
      BY <1>2, <2>2, <2>3, <2>5 DEF Tutor!KeptBy
    <3>2. given'[s] = IF t.type = "coupon" THEN 1 ELSE IF s \in t.paid THEN 1 ELSE 0
      BY <1>2, <1>7, <2>3, <2>5
    <3> QED BY <1>3, <3>1, <3>2
  <2> QED BY <2>4, <2>5
<1>10. /\ invite'.st = "converted"
       /\ invite'.reward = "granted" <=> t.payout
  BY <1>2, <1>3
<1>11. Tutor!TypeOK' BY <1>2, <1>5, <1>6, <1>8 DEF TutorInv, Tutor!TypeOK
<1>12. Tutor!RewardedOnce' BY <1>9, <1>10 DEF Tutor!RewardedOnce
<1> QED BY <1>2, <1>9, <1>10, <1>11, <1>12, TutorDone DEF TutorInv

LEMMA TutorApply ==
  ASSUME TutorInv, NEW h \in Handlers, Tutor!CommitApply(h)
  PROVE  TutorInv'
<1> DEFINE t == turn[h]
           takes == t.side \in t.held
<1>1. t \in Applying
  BY DEF Tutor!CommitApply, TutorInv, Tutor!None, Converting
<1>2. /\ member' = member \cup {t.side}
      /\ kept'   = IF takes THEN t.held \ {t.side} ELSE kept
      /\ given'  = IF takes THEN [given EXCEPT ![t.side] = @ + 1] ELSE given
      /\ invite' = IF takes THEN [invite EXCEPT !.raced = @ \/ t.stale] ELSE invite
      /\ Tutor!Done(h) /\ UNCHANGED earned
  BY DEF Tutor!CommitApply, Tutor!StillKept
<1>3. /\ t.side \in Tutor!Sides /\ t.held \subseteq Tutor!Sides /\ t.stale \in BOOLEAN
      /\ t.op = "apply"
  BY <1>1 DEF Applying
<1>4. Reading(t) BY DEF TutorInv
<1> HIDE DEF t
<1>5. Tutor!TypeOK' BY <1>2, <1>3 DEF TutorInv, Tutor!TypeOK
<1>6. /\ invite'.st = invite.st /\ invite'.reward = invite.reward
      /\ ~invite'.raced => ~invite.raced /\ (takes => ~t.stale)
  BY <1>2, <1>3 DEF TutorInv, Tutor!TypeOK
<1>7. ASSUME takes, ~invite'.raced
      PROVE  /\ invite.reward = "granted"
             /\ \A s \in Tutor!Sides : given'[s] + (IF s \in kept' THEN 1 ELSE 0) = 1
  <2>1. t.held = kept BY <1>3, <1>4, <1>6, <1>7 DEF Reading
  <2>2. invite.reward = "granted" BY <1>6, <1>7, <2>1 DEF TutorInv
  <2>3. \A s \in Tutor!Sides : given[s] + (IF s \in kept THEN 1 ELSE 0) = 1
    BY <1>6, <1>7, <2>2 DEF TutorInv, Tutor!RewardedOnce
  <2>4. given \in [Tutor!Sides -> Nat] BY DEF TutorInv, Tutor!TypeOK
  <2> QED BY <1>2, <1>3, <1>7, <2>1, <2>2, <2>3, <2>4
<1>8. Tutor!RewardedOnce'
  <2>1. CASE takes BY <1>7, <2>1 DEF Tutor!RewardedOnce
  <2>2. CASE ~takes BY <1>2, <2>2 DEF TutorInv, Tutor!RewardedOnce
  <2> QED BY <2>1, <2>2
<1>9. ~invite'.raced /\ invite'.reward # "granted" =>
        kept' = {} /\ \A s \in Tutor!Sides : given'[s] = 0
  <2>1. CASE takes BY <1>6, <1>7, <2>1
  <2>2. CASE ~takes BY <1>2, <2>2 DEF TutorInv
  <2> QED BY <2>1, <2>2
<1> QED BY <1>2, <1>5, <1>6, <1>8, <1>9, TutorDone DEF TutorInv

LEMMA TutorQuiet ==
  ASSUME TutorInv,
         \/ Tutor!Create \/ Tutor!Link \/ Tutor!Earns \/ UNCHANGED OfTutor
         \/ \E s \in Tutor!Sides : Tutor!Lapses(s)
  PROVE  TutorInv'
<1>1. kept' = kept /\ given' = given /\ turn' = turn
  BY DEF Tutor!Create, Tutor!Link, Tutor!Earns, Tutor!Lapses, OfTutor
<1>2. member' \subseteq Tutor!Sides /\ earned' \in BOOLEAN
  BY DEF Tutor!Create, Tutor!Link, Tutor!Earns, Tutor!Lapses, OfTutor, TutorInv, Tutor!TypeOK
<1>3. /\ invite' \in [st : {"none", "pending", "registered", "converted"}, type : Tutor!Rewards,
                      reward : {"not_eligible", "eligible", "granted"}, raced : BOOLEAN]
      /\ invite'.reward = invite.reward /\ invite'.raced = invite.raced
      /\ invite'.st = "converted" <=> invite.st = "converted"
      /\ invite.st = "registered" => invite'.st = "registered"
  BY DEF Tutor!Create, Tutor!Link, Tutor!Earns, Tutor!Lapses, OfTutor, TutorInv, Tutor!TypeOK
<1> QED BY <1>1, <1>2, <1>3 DEF TutorInv, Tutor!TypeOK, Tutor!RewardedOnce, Reading

LEMMA TutorBegins ==
  ASSUME TutorInv, NEW h \in Handlers,
         \/ \E type \in Tutor!Rewards, payout \in BOOLEAN : Tutor!BeginConvert(h, type, payout)
         \/ \E s \in Tutor!Sides : Tutor!BeginApply(h, s)
  PROVE  TutorInv'
<1>1. PICK t : /\ t \in Converting \cup Applying
               /\ t.held = kept /\ (t.op = "convert" => invite.st = "registered")
               /\ Tutor!Begin(h, t)
  <2>1. ASSUME NEW type \in Tutor!Rewards, NEW payout \in BOOLEAN,
               Tutor!BeginConvert(h, type, payout)
        PROVE  \E t : /\ t \in Converting \cup Applying
                      /\ t.held = kept /\ (t.op = "convert" => invite.st = "registered")
                      /\ Tutor!Begin(h, t)
    <3> DEFINE t == [op |-> "convert", type |-> type, payout |-> payout, paid |-> member,
                     held |-> kept, stale |-> FALSE]
    <3>1. t \in Converting BY DEF Converting, TutorInv, Tutor!TypeOK
    <3>2. Tutor!Begin(h, t) /\ invite.st = "registered"
      BY <2>1 DEF Tutor!BeginConvert, Tutor!MayConvert
    <3> QED BY <3>1, <3>2
  <2>2. ASSUME NEW s \in Tutor!Sides, Tutor!BeginApply(h, s)
        PROVE  \E t : /\ t \in Converting \cup Applying
                      /\ t.held = kept /\ (t.op = "convert" => invite.st = "registered")
                      /\ Tutor!Begin(h, t)
    <3> DEFINE t == [op |-> "apply", side |-> s, held |-> kept, stale |-> FALSE]
    <3>1. t \in Applying BY DEF Applying, TutorInv, Tutor!TypeOK
    <3>2. Tutor!Begin(h, t) BY <2>2 DEF Tutor!BeginApply
    <3> QED BY <3>1, <3>2
  <2> QED BY <2>1, <2>2
<1>2. turn' = [turn EXCEPT ![h] = t] /\ UNCHANGED <<invite, kept, given, member, earned>>
  BY <1>1 DEF Tutor!Begin
<1>3. Reading(t) BY <1>1 DEF Reading
<1>4. \A g \in Handlers : turn'[g] = IF g = h THEN t ELSE turn[g] BY <1>2 DEF TutorInv
<1>5. \A g \in Handlers : Reading(turn[g])' BY <1>2, <1>3, <1>4 DEF TutorInv, Reading
<1>6. turn' \in [Handlers -> {Tutor!None} \cup Converting \cup Applying]
  BY <1>1, <1>2 DEF TutorInv
<1> QED BY <1>2, <1>5, <1>6 DEF TutorInv, Tutor!TypeOK, Tutor!RewardedOnce

LEMMA TutorNext == ASSUME TutorInv, [Tutor!Next]_OfTutor PROVE TutorInv'
BY TutorQuiet, TutorBegins, TutorConvert, TutorApply DEF Tutor!Next

----------------------------------------------------------------------------
(* Referrals of walkers *)

Row      == [st : Walker!Statuses, to : Invited \cup {Walker!Unlinked},
             reward : {"not_eligible", "pending", "eligible", "paid", "cancelled"}]
Bonuses  == {"referrer", "referred"} \X (Invited \cup {Walker!Referrer}) \X Nat
Linking  == [op : {"link"}, who : Invited]
Counting == [op : {"walk"}, who : Invited, on : BOOLEAN, read : Row, entries : SUBSET Bonuses,
             count : Nat]

\* Both sides have their bonus, each once.
Full(B) == \E p, q, m, n : B = {<<"referrer", p, m>>, <<"referred", q, n>>}

\* The approvals in flight of the walks of p.
Approvals(p) == {h \in Handlers : step[h].op = "walk" /\ step[h].who = p}

\* The bonuses are entered together, so what an approval read is none of them or both.
WalkerInv ==
  /\ referral \in Row /\ bonus \subseteq Bonuses /\ walked \in [Invited -> Nat]
  /\ step \in [Handlers -> {Walker!Out} \cup Linking \cup Counting]
  /\ bonus = {} \/ Full(bonus)
  /\ \A h \in Handlers : step[h].op = "walk" => step[h].entries = {} \/ Full(step[h].entries)
  /\ \A p \in Invited : walked[p] + Cardinality(Approvals(p)) <= MaxWalks

LEMMA WalkerCounts ==
  /\ \A S : Walker!Cardinality(S) = Cardinality(S)
  /\ IsFiniteSet(Handlers) /\ BonusAfter \in Nat /\ MaxWalks \in Nat
BY WalkerParameters
   DEF Walker!Cardinality, Cardinality, Walker!IsFiniteSet, IsFiniteSet,
       Walker!ParametersAssumption

LEMMA ApprovalsAreFinite ==
  ASSUME NEW p PROVE IsFiniteSet(Approvals(p)) /\ Cardinality(Approvals(p)) \in Nat
<1>1. Approvals(p) \subseteq Handlers BY DEF Approvals
<1> QED BY <1>1, WalkerCounts, FS_Subset, FS_CardinalityType

LEMMA WalkerInit == ASSUME Walker!Init PROVE WalkerInv
<1>1. ASSUME NEW p \in Invited PROVE walked[p] + Cardinality(Approvals(p)) <= MaxWalks
  <2>1. Approvals(p) = {} BY DEF Walker!Init, Walker!Out, Approvals
  <2>2. Cardinality(Approvals(p)) = 0 BY <2>1, FS_EmptySet
  <2> QED BY <2>2, WalkerCounts DEF Walker!Init
<1> QED BY <1>1 DEF Walker!Init, WalkerInv, Walker!Out, Row, Walker!Statuses

\* Decisions on the row alone.
LEMMA WalkerDecides ==
  ASSUME WalkerInv,
         \/ Walker!UnderReview \/ Walker!Approved \/ Walker!Rejected \/ UNCHANGED OfWalker
         \/ \E s \in Walker!Statuses, enough \in BOOLEAN : Walker!ByStaff(s, enough)
  PROVE  WalkerInv'
<1>1. referral' \in Row /\ UNCHANGED <<bonus, walked, step>>
  <2>1. CASE \/ Walker!UnderReview \/ Walker!Approved \/ Walker!Rejected \/ UNCHANGED OfWalker
    BY <2>1 DEF Walker!UnderReview, Walker!Approved, Walker!Rejected, OfWalker, Walker!Decide,
                WalkerInv, Row, Walker!Statuses
  <2>2. ASSUME NEW s \in Walker!Statuses, NEW enough \in BOOLEAN, Walker!ByStaff(s, enough)
        PROVE  referral' \in Row /\ UNCHANGED <<bonus, walked, step>>
    <3> DEFINE reward == CASE s = "approved"                 -> "pending"
                           [] s \in {"rejected", "cancelled"} -> "cancelled"
                           [] s = "converted"                -> "eligible"
                           [] OTHER                          -> referral.reward
    <3>1. reward \in {"not_eligible", "pending", "eligible", "paid", "cancelled"}
      <4>1. referral.reward \in {"not_eligible", "pending", "eligible", "paid", "cancelled"}
        BY DEF WalkerInv, Row
      <4> QED BY Zenon, <4>1
    <3>2. /\ referral' = IF enough /\ s = "approved"
                         THEN [referral EXCEPT !.st = "converted", !.reward = "eligible"]
                         ELSE [referral EXCEPT !.st = s, !.reward = reward]
          /\ UNCHANGED <<bonus, walked, step>>
      BY <2>2 DEF Walker!ByStaff, Walker!Decide
    <3> HIDE DEF reward
    <3> QED BY <3>1, <3>2 DEF WalkerInv, Row, Walker!Statuses
  <2> QED BY <2>1, <2>2
<1> QED BY <1>1 DEF WalkerInv, Approvals

\* A request begins.
LEMMA WalkerBegins ==
  ASSUME WalkerInv, NEW h \in Handlers, NEW p \in Invited,
         Walker!BeginLink(h, p) \/ \E on \in BOOLEAN : Walker!BeginWalk(h, p, on)
  PROVE  WalkerInv'
<1>1. step[h] = Walker!Out /\ UNCHANGED <<referral, bonus, walked>>
  BY DEF Walker!BeginLink, Walker!BeginWalk, Walker!Begin
<1>2. CASE Walker!BeginLink(h, p)
  <2>1. step' = [step EXCEPT ![h] = [op |-> "link", who |-> p]]
    BY <1>2 DEF Walker!BeginLink, Walker!Begin
  <2>2. [op |-> "link", who |-> p] \in Linking BY DEF Linking
  <2>3. step' \in [Handlers -> {Walker!Out} \cup Linking \cup Counting]
    BY <2>1, <2>2 DEF WalkerInv
  <2>4. \A q : Approvals(q)' = Approvals(q)
    BY <1>1, <2>1 DEF Approvals, Walker!Out, WalkerInv
  <2>5. \A g \in Handlers : step'[g].op = "walk" => g # h /\ step'[g] = step[g]
    BY <2>1 DEF WalkerInv
  <2> QED BY <1>1, <2>3, <2>4, <2>5 DEF WalkerInv
<1>3. ASSUME NEW on \in BOOLEAN, Walker!BeginWalk(h, p, on) PROVE WalkerInv'
  <2> DEFINE s == [op |-> "walk", who |-> p, on |-> on, read |-> referral, entries |-> bonus,
                   count |-> walked[p] + 1]
             flying == {g \in Handlers : step[g].op = "walk"}
  <2>1. /\ step' = [step EXCEPT ![h] = s]
        /\ walked[p] + Cardinality(flying) < MaxWalks
    BY <1>3, WalkerCounts DEF Walker!BeginWalk, Walker!Begin
  <2>2. s \in Counting BY DEF Counting, WalkerInv
  <2>3. step' \in [Handlers -> {Walker!Out} \cup Linking \cup Counting]
    BY <2>1, <2>2 DEF WalkerInv
  <2>4. \A g \in Handlers : step'[g] = IF g = h THEN s ELSE step[g] BY <2>1 DEF WalkerInv
  <2>5. \A g \in Handlers : step'[g].op = "walk" =>
                             step'[g].entries = {} \/ Full(step'[g].entries)
    BY <2>4 DEF WalkerInv
  <2> HIDE DEF flying
  <2>6. ASSUME NEW q \in Invited PROVE walked[q] + Cardinality(Approvals(q)') <= MaxWalks
    <3>1. CASE q # p
      <4>1. Approvals(q)' = Approvals(q) BY <1>1, <2>4, <3>1 DEF Approvals, Walker!Out
      <4> QED BY <4>1 DEF WalkerInv
    <3>2. CASE q = p
      <4>1. Approvals(q)' = Approvals(q) \cup {h} /\ h \notin Approvals(q)
        BY <1>1, <2>4, <3>2 DEF Approvals, Walker!Out
      <4>2. Cardinality(Approvals(q)') = Cardinality(Approvals(q)) + 1
        BY <4>1, ApprovalsAreFinite, FS_AddElement
      <4>3. Approvals(q) \subseteq flying /\ flying \subseteq Handlers
        BY DEF Approvals, flying
      <4>4. Cardinality(Approvals(q)) <= Cardinality(flying) /\ Cardinality(flying) \in Nat
        BY <4>3, WalkerCounts, FS_Subset, FS_CardinalityType
      <4>5. walked[q] \in Nat /\ Cardinality(Approvals(q)) \in Nat
        BY ApprovalsAreFinite DEF WalkerInv
      <4> QED BY <2>1, <3>2, <4>2, <4>4, <4>5, WalkerCounts
    <3> QED BY <3>1, <3>2
  <2> QED BY <1>1, <2>3, <2>5, <2>6 DEF WalkerInv
<1> QED BY <1>2, <1>3

\* A request is over.
LEMMA WalkerOver ==
  ASSUME WalkerInv, NEW h \in Handlers, Walker!Over(h)
  PROVE  /\ step' \in [Handlers -> {Walker!Out} \cup Linking \cup Counting]
         /\ \A g \in Handlers : step'[g].op = "walk" =>
                                step'[g].entries = {} \/ Full(step'[g].entries)
         /\ \A p : Approvals(p)' = Approvals(p) \ {h}
<1>1. /\ step' \in [Handlers -> {Walker!Out} \cup Linking \cup Counting]
      /\ \A g \in Handlers : step'[g] = IF g = h THEN Walker!Out ELSE step[g]
  BY DEF Walker!Over, WalkerInv
<1>2. \A g \in Handlers : step'[g].op = "walk" => g # h /\ step'[g] = step[g]
  BY <1>1 DEF Walker!Out
<1> QED BY <1>1, <1>2 DEF WalkerInv, Approvals

LEMMA WalkerLinks ==
  ASSUME WalkerInv, NEW h \in Handlers, Walker!CommitLink(h)
  PROVE  WalkerInv'
<1>1. /\ step[h].op = "link" /\ Walker!Over(h) /\ UNCHANGED <<bonus, walked>>
      /\ referral' = [referral EXCEPT !.to = step[h].who, !.st = "registered"]
  BY DEF Walker!CommitLink
<1>2. step[h].who \in Invited
  BY <1>1 DEF WalkerInv, Linking, Counting, Walker!Out
<1>3. referral' \in Row BY <1>1, <1>2 DEF WalkerInv, Row, Walker!Statuses
<1>4. \A p : Approvals(p)' = Approvals(p)
  <2>1. \A p : h \notin Approvals(p) BY <1>1 DEF Approvals
  <2> QED BY <1>1, <2>1, WalkerOver
<1> QED BY <1>1, <1>3, <1>4, WalkerOver DEF WalkerInv

\* An approval enters both bonuses, or none: what it finds missing is what its reading
\* had not, and a bonus entered since then stops it.
LEMMA WalkerCommits ==
  ASSUME WalkerInv, NEW h \in Handlers, Walker!CommitWalk(h)
  PROVE  WalkerInv'
<1> DEFINE s   == step[h]
           new == IF Walker!Pays(s) THEN Walker!Missing(s) ELSE {}
<1>1. s \in Counting /\ s.op = "walk"
  BY DEF Walker!CommitWalk, WalkerInv, Walker!Out, Linking
<1>2. s.who \in Invited /\ s.read \in Row /\ s.entries \subseteq Bonuses
  BY <1>1 DEF Counting
<1>3. s.entries = {} \/ Full(s.entries) BY <1>1 DEF WalkerInv
<1>0. PICK who \in Invited : who = s.who BY <1>2
<1>4. Walker!Over(h) BY DEF Walker!CommitWalk
<1>5. \A p \in Invited : /\ walked[p] \in Nat /\ Cardinality(Approvals(p)) \in Nat
                         /\ walked[p] + Cardinality(Approvals(p)) <= MaxWalks
  BY ApprovalsAreFinite DEF WalkerInv
<1>6. Cardinality(Approvals(who)') = Cardinality(Approvals(who)) - 1
  <2>1. h \in Approvals(who) BY <1>0, <1>1 DEF Approvals
  <2>2. Approvals(who)' = Approvals(who) \ {h} BY <1>4, WalkerOver
  <2> QED BY <2>1, <2>2, ApprovalsAreFinite, FS_RemoveElement
<1>7. \A p \in Invited \ {who} : Approvals(p)' = Approvals(p)
  <2> SUFFICES ASSUME NEW p \in Invited \ {who} PROVE Approvals(p)' = Approvals(p) OBVIOUS
  <2>1. h \notin Approvals(p) BY <1>0 DEF Approvals
  <2>2. Approvals(p)' = Approvals(p) \ {h} BY <1>4, WalkerOver
  <2> QED BY <2>1, <2>2
<1>8. CASE Walker!Clash(new)
  <2>1. UNCHANGED <<referral, bonus, walked>> BY <1>8 DEF Walker!CommitWalk
  <2>2. \A p \in Invited : walked[p] + Cardinality(Approvals(p)') <= MaxWalks
    BY <1>5, <1>6, <1>7, WalkerCounts
  <2> QED BY <1>4, <2>1, <2>2, WalkerOver DEF WalkerInv
<1>9. CASE ~Walker!Clash(new)
  <2>1. /\ walked' = [walked EXCEPT ![s.who] = @ + 1]
        /\ bonus'  = bonus \cup {<<e[1], e[2], walked[s.who]>> : e \in new}
        /\ referral'  = [referral EXCEPT
             !.st = IF Walker!Counted(s).st # s.read.st THEN Walker!Counted(s).st ELSE @,
             !.reward = CASE Walker!Pays(s) -> "paid"
                          [] Walker!Counted(s).reward # s.read.reward -> Walker!Counted(s).reward
                          [] OTHER -> @]
    BY <1>9 DEF Walker!CommitWalk
  <2>2. Walker!Counted(s) \in Row BY <1>2 DEF Walker!Counted, Row, Walker!Statuses
  <2>3. referral' \in Row
    <3> DEFINE st == IF Walker!Counted(s).st # s.read.st THEN Walker!Counted(s).st
                     ELSE referral.st
               reward == CASE Walker!Pays(s) -> "paid"
                           [] Walker!Counted(s).reward # s.read.reward -> Walker!Counted(s).reward
                           [] OTHER -> referral.reward
    <3>1. st \in Walker!Statuses BY <2>2 DEF Row, WalkerInv
    <3>2. reward \in {"not_eligible", "pending", "eligible", "paid", "cancelled"}
      <4>1. /\ Walker!Counted(s).reward \in {"not_eligible", "pending", "eligible", "paid", "cancelled"}
            /\ referral.reward \in {"not_eligible", "pending", "eligible", "paid", "cancelled"}
        BY <2>2 DEF Row, WalkerInv
      <4> QED BY Zenon, <4>1
    <3>3. referral' = [referral EXCEPT !.st = st, !.reward = reward] BY <2>1
    <3> HIDE DEF st, reward
    <3> QED BY <3>1, <3>2, <3>3 DEF Row, WalkerInv
  <2>4. walked' \in [Invited -> Nat] /\ walked'[who] = walked[who] + 1
        /\ \A p \in Invited \ {who} : walked'[p] = walked[p]
    BY <1>0, <1>2, <1>5, <2>1 DEF WalkerInv
  <2>5. \A p \in Invited : walked'[p] + Cardinality(Approvals(p)') <= MaxWalks
    BY <1>5, <1>6, <1>7, <2>4, WalkerCounts
  <2>6. bonus' \subseteq Bonuses /\ (bonus' = {} \/ Full(bonus'))
    <3>1. CASE new = {}
      BY <2>1, <3>1 DEF WalkerInv
    <3>2. CASE new # {}
      <4>1. Walker!Pays(s) /\ new = Walker!Missing(s) BY <3>2
      <4>2. s.read.to = s.who BY <4>1 DEF Walker!Pays, Walker!Counted
      <4>3. s.entries = {}
        <5>1. Full(s.entries) => Walker!Missing(s) = {}
          <6> SUFFICES ASSUME Full(s.entries) PROVE Walker!Missing(s) = {} OBVIOUS
          <6>1. PICK p, q, m, n : s.entries = {<<"referrer", p, m>>, <<"referred", q, n>>}
            BY DEF Full
          <6> QED BY <6>1 DEF Walker!Missing
        <5> QED BY <1>3, <3>2, <4>1, <5>1
      <4>4. new = {<<"referrer", Walker!Referrer>>, <<"referred", s.who>>}
        BY <4>1, <4>2, <4>3 DEF Walker!Missing
      <4>5. bonus = {}
        <5>1. Full(bonus) => Walker!Clash(new)
          <6> SUFFICES ASSUME Full(bonus) PROVE Walker!Clash(new) OBVIOUS
          <6>1. PICK p, q, m, n : bonus = {<<"referrer", p, m>>, <<"referred", q, n>>}
            BY DEF Full
          <6> HIDE DEF new
          <6>2. <<"referrer", p, m>> \in bonus /\ <<"referrer", Walker!Referrer>> \in new
            BY <4>4, <6>1
          <6> QED BY <6>2 DEF Walker!Clash
        <5> QED BY <1>9, <5>1 DEF WalkerInv
      <4> HIDE DEF new
      <4>6. bonus' = {<<"referrer", Walker!Referrer, walked[s.who]>>,
                     <<"referred", s.who, walked[s.who]>>}
        BY <2>1, <4>4, <4>5
      <4>7. Full(bonus') BY <4>6 DEF Full
      <4>8. bonus' \subseteq Bonuses BY <1>2, <1>5, <4>6 DEF Bonuses
      <4> QED BY <4>7, <4>8
    <3> QED BY <3>1, <3>2
  <2> QED BY <1>4, <2>3, <2>4, <2>5, <2>6, WalkerOver DEF WalkerInv
<1> QED BY <1>8, <1>9

LEMMA WalkerNext == ASSUME WalkerInv, [Walker!Next]_OfWalker PROVE WalkerInv'
BY WalkerDecides, WalkerBegins, WalkerLinks, WalkerCommits DEF Walker!Next

LEMMA WalkerFollows == ASSUME WalkerInv PROVE Walker!TypeOK /\ Walker!BonusIsPaidOnce
<1>1. Walker!TypeOK
  <2>1. walked \in [Invited -> 0 .. MaxWalks]
    <3>1. \A p \in Invited : walked[p] \in 0 .. MaxWalks
      BY ApprovalsAreFinite, WalkerCounts DEF WalkerInv
    <3> QED BY <3>1 DEF WalkerInv
  <2>2. \A b \in bonus : b[1] \in {"referrer", "referred"} /\ b[2] \in Invited \cup {Walker!Referrer}
    BY DEF WalkerInv, Bonuses
  <2> QED BY <2>1, <2>2 DEF WalkerInv, Row, Walker!TypeOK
<1>2. CASE bonus = {}
  BY <1>1, <1>2, WalkerCounts, FS_EmptySet DEF Walker!BonusIsPaidOnce
<1>3. CASE Full(bonus)
  <2>1. PICK p, q, m, n : bonus = {<<"referrer", p, m>>, <<"referred", q, n>>}
    BY <1>3 DEF Full
  <2> DEFINE a == <<"referrer", p, m>>
             b == <<"referred", q, n>>
  <2>2. a # b /\ a[1] # b[1] OBVIOUS
  <2>3. bonus = {a} \cup {b} BY <2>1
  <2> HIDE DEF a, b
  <2>4. Cardinality(bonus) = 2
    <3>1. IsFiniteSet({a}) /\ Cardinality({a}) = 1 BY FS_Singleton
    <3>2. b \notin {a} BY <2>2
    <3>3. Cardinality({a} \cup {b}) = Cardinality({a}) + 1 BY <3>1, <3>2, FS_AddElement
    <3> QED BY <2>3, <3>1, <3>3
  <2>5. \A x, y \in bonus : x[1] = y[1] => x = y BY <2>2, <2>3
  <2> QED BY <1>1, <2>4, <2>5, WalkerCounts DEF Walker!BonusIsPaidOnce
<1> QED BY <1>2, <1>3 DEF WalkerInv

----------------------------------------------------------------------------
(* Shared walks *)

Asking == [op : {"join", "checkout", "confirm", "cancel"}, tutor : Shared!Tutors,
           stale : BOOLEAN, rows : SUBSET Shared!Rows]

\* What a request that is not stale has read is still so.
StillSo(a) ==
  a.op # "idle" /\ ~a.stale =>
    /\ a.op = "join"     => session.st = "forming" /\ Shared!MayJoin(seats, a.tutor)
    /\ a.op = "checkout" => a.rows = Shared!Quota(seats, a.tutor)
    /\ a.op = "confirm"  => session.st = "forming" /\ Shared!MayConfirm(seats)
    /\ a.op = "cancel"   => a.rows = Shared!Leaving(seats, a.tutor)

\* Who has not paid has no bill, and who paid has one.
BillsFit ==
  \A r \in Shared!Rows :
    /\ seats[r].st = "accepted" => seats[r].bills = 0
    /\ seats[r].st = "paid" /\ ~seats[r].stale => seats[r].bills = 1

SharedInv ==
  /\ Shared!TypeOK
  /\ asked \in [Handlers -> {Shared!NoTask} \cup Asking]
  /\ session.st = "none" => /\ \A h \in Handlers : asked[h] = Shared!NoTask
                            /\ \A r \in Shared!Rows : seats[r].st = "none"
  /\ \A h \in Handlers : StillSo(asked[h])
  /\ BillsFit
  /\ Shared!GroupIsSettled

LEMMA SharedCounts ==
  /\ \A S : Shared!Cardinality(S) = Cardinality(S)
  /\ IsFiniteSet(Shared!Rows)
  /\ Owned \in Nat /\ MaxTutors \in Nat \ {0} /\ MaxPets \in Nat /\ MaxDogs \in Nat
  /\ MaxRows \in Nat
<1>1. /\ Owned \in Nat /\ MaxTutors \in Nat \ {0} /\ MaxPets \in Nat /\ MaxDogs \in Nat
      /\ MaxRows \in Nat
  BY SharedParameters DEF Shared!LimitsAssumption
<1>2. \A S : Shared!Cardinality(S) = Cardinality(S)
  BY DEF Shared!Cardinality, Cardinality, Shared!IsFiniteSet, IsFiniteSet
<1>3. IsFiniteSet(Shared!Rows) BY <1>1, FS_Interval DEF Shared!Rows
<1> QED BY <1>1, <1>2, <1>3

\* Some rows, and their tutors.
LEMMA RowsAreFinite ==
  ASSUME NEW R \in SUBSET Shared!Rows
  PROVE  IsFiniteSet(R) /\ Cardinality(R) \in Nat
BY SharedCounts, FS_Subset, FS_CardinalityType

LEMMA TutorsAreFinite ==
  ASSUME NEW R \in SUBSET Shared!Rows, NEW f, NEW T, \A t \in T : \E r \in R : t = f[r].tutor
  PROVE  IsFiniteSet(T) /\ Cardinality(T) \in Nat
<1> DEFINE W == {f[r].tutor : r \in R}
           g == [r \in R |-> f[r].tutor]
<1>1. g \in Surjection(R, W) BY DEF Surjection
<1>2. IsFiniteSet(W) BY <1>1, RowsAreFinite, FS_Surjection
<1>3. T \subseteq W OBVIOUS
<1> HIDE DEF W
<1> QED BY <1>2, <1>3, FS_Subset, FS_CardinalityType

LEMMA SmallerFits ==
  ASSUME NEW S, NEW T, IsFiniteSet(T), S \subseteq T
  PROVE  IsFiniteSet(S) /\ Cardinality(S) \in Nat /\ Cardinality(S) <= Cardinality(T)
BY FS_Subset, FS_CardinalityType

\* The group fits as long as nobody comes.
LEMMA FitsStill ==
  ASSUME SharedInv, seats' \in [Shared!Rows -> Shared!Part],
         \A r \in Shared!Fresh' : r \in Shared!Fresh /\ seats'[r].tutor = seats[r].tutor
  PROVE  Shared!GroupFits'
<1> DEFINE old == {seats[r].tutor : r \in Shared!Fresh}
           new == {seats'[r].tutor : r \in Shared!Fresh'}
<1>1. Shared!Fresh \subseteq Shared!Rows /\ Shared!Fresh' \subseteq Shared!Rows
  BY DEF Shared!Fresh, Shared!Active
<1>2. Cardinality(old) <= MaxTutors
      /\ \A t \in Shared!Tutors : Cardinality({r \in Shared!Fresh : seats[r].tutor = t}) <= MaxPets
  BY SharedCounts DEF SharedInv, Shared!GroupIsSettled, Shared!GroupFits
<1>3. new \subseteq old OBVIOUS
<1>4. IsFiniteSet(old) /\ Cardinality(old) \in Nat
  <2>1. Shared!Fresh \in SUBSET Shared!Rows BY <1>1
  <2>2. \A t \in old : \E r \in Shared!Fresh : t = seats[r].tutor OBVIOUS
  <2> HIDE DEF old
  <2> QED BY <2>1, <2>2, TutorsAreFinite
<1> HIDE DEF old
<1>5. Cardinality(new) <= MaxTutors
  <2> HIDE DEF new
  <2> QED BY <1>2, <1>3, <1>4, SmallerFits, SharedCounts
<1>6. ASSUME NEW t \in Shared!Tutors
      PROVE  Cardinality({r \in Shared!Fresh' : seats'[r].tutor = t}) <= MaxPets
  <2> DEFINE O == {r \in Shared!Fresh : seats[r].tutor = t}
             N == {r \in Shared!Fresh' : seats'[r].tutor = t}
  <2>1. N \subseteq O OBVIOUS
  <2>2. O \subseteq Shared!Rows BY <1>1
  <2>3. Cardinality(O) <= MaxPets BY <1>2
  <2> HIDE DEF N, O
  <2>4. IsFiniteSet(O) /\ Cardinality(O) \in Nat BY <2>2, RowsAreFinite
  <2>5. Cardinality(N) <= MaxPets BY <2>1, <2>3, <2>4, SmallerFits, SharedCounts
  <2> QED BY <2>5 DEF N
<1> QED BY <1>5, <1>6, SharedCounts DEF Shared!GroupFits

\* The group of a session nobody is in.
LEMMA EmptyFits ==
  ASSUME Shared!Fresh = {}
  PROVE  Shared!GroupFits
<1>1. /\ {seats[r].tutor : r \in Shared!Fresh} = {}
      /\ \A t \in Shared!Tutors : {r \in Shared!Fresh : seats[r].tutor = t} = {}
  OBVIOUS
<1> QED BY <1>1, SharedCounts, FS_EmptySet DEF Shared!GroupFits

LEMMA SharedInit == ASSUME Shared!Init PROVE SharedInv
<1>1. /\ session = [st |-> "none", stale |-> FALSE]
      /\ seats   = [r \in Shared!Rows |-> Shared!NoPart]
      /\ asked   = [h \in Handlers |-> Shared!NoTask]
  BY DEF Shared!Init
<1>2. Shared!NoPart \in Shared!Part BY DEF Shared!NoPart, Shared!Part, Shared!Tutors
<1>3. Shared!TypeOK BY <1>1, <1>2 DEF Shared!TypeOK, Shared!Session, Shared!States
<1>4. \A r \in Shared!Rows : seats[r].st = "none" BY <1>1 DEF Shared!NoPart
<1>5. Shared!Fresh = {} BY <1>4 DEF Shared!Fresh, Shared!Active
<1>6. \A h \in Handlers : asked[h] = Shared!NoTask /\ asked[h].op = "idle"
  BY <1>1 DEF Shared!NoTask
<1>7. Shared!GroupIsSettled
  BY <1>1, <1>5, EmptyFits
     DEF Shared!GroupIsSettled, Shared!ConfirmedIsPaid, Shared!NobodyLeftBehind
<1> QED BY <1>1, <1>3, <1>4, <1>6, <1>7 DEF SharedInv, StillSo, BillsFit

\* A request that ends is forgotten, and leaves the others stale.
LEMMA SharedDone ==
  ASSUME SharedInv, NEW h \in Handlers, Shared!Done(h), session.st # "none",
         session'.st # "none"
  PROVE  /\ asked' \in [Handlers -> {Shared!NoTask} \cup Asking]
         /\ \A g \in Handlers : StillSo(asked[g])'
         /\ session'.st = "none" => /\ \A g \in Handlers : asked'[g] = Shared!NoTask
                                    /\ \A r \in Shared!Rows : seats'[r].st = "none"
<1>1. asked' = [g \in Handlers |-> IF g = h \/ asked[g].op = "idle" THEN Shared!NoTask
                                   ELSE [asked[g] EXCEPT !.stale = TRUE]]
  BY DEF Shared!Done
<1>2. ASSUME NEW g \in Handlers
      PROVE  /\ asked'[g] \in {Shared!NoTask} \cup Asking
             /\ asked'[g] = Shared!NoTask \/ asked'[g].stale = TRUE
  BY <1>1 DEF SharedInv, Shared!NoTask, Asking
<1>3. asked' \in [Handlers -> {Shared!NoTask} \cup Asking] BY <1>1, <1>2
<1>4. \A g \in Handlers : StillSo(asked[g])'
  <2> SUFFICES ASSUME NEW g \in Handlers PROVE StillSo(asked[g])' OBVIOUS
  <2>1. asked'[g].op = "idle" \/ asked'[g].stale = TRUE
    <3>1. Shared!NoTask.op = "idle" BY DEF Shared!NoTask
    <3> QED BY Zenon, <1>2, <3>1
  <2> QED BY Zenon, <2>1 DEF StillSo
<1> QED BY <1>3, <1>4

LEMMA SharedCreate ==
  ASSUME SharedInv, NEW n \in Shared!Rows, Shared!Create(n)
  PROVE  SharedInv'
<1> DEFINE first == [Shared!NoPart EXCEPT !.st = "accepted"]
<1>1. /\ session.st = "none" /\ n \in 1 .. Owned /\ n <= MaxPets /\ n <= MaxDogs
      /\ session' = [session EXCEPT !.st = "forming"] /\ asked' = asked
      /\ seats' = [r \in Shared!Rows |-> IF r <= n THEN first ELSE seats[r]]
  BY DEF Shared!Create
<1>2. /\ first \in Shared!Part /\ first.st = "accepted" /\ first.tutor = Host
      /\ first.bills = 0 /\ ~first.stale
  <2>1. /\ Shared!NoPart \in Shared!Part /\ Shared!NoPart.tutor = Host
        /\ Shared!NoPart.bills = 0 /\ ~Shared!NoPart.stale
    BY DEF Shared!NoPart, Shared!Part, Shared!Tutors
  <2> QED BY <2>1 DEF Shared!Part
<1> HIDE DEF first
<1>3. Shared!TypeOK' BY <1>1, <1>2 DEF SharedInv, Shared!TypeOK, Shared!Session, Shared!States
<1>4. session'.st = "forming" BY <1>1 DEF SharedInv, Shared!TypeOK, Shared!Session
<1>5. \A r \in Shared!Rows : \/ (seats'[r] = first /\ r \in 1 .. n)
                             \/ seats'[r].st = "none"
  BY <1>1, SharedCounts DEF SharedInv, Shared!Rows
<1>6. Shared!Fresh' \subseteq 1 .. n /\ Shared!Fresh' \subseteq Shared!Rows
      /\ \A r \in Shared!Fresh' : seats'[r].tutor = Host
  BY <1>2, <1>5 DEF Shared!Fresh, Shared!Active
<1>7. \A S : S \subseteq 1 .. n => Cardinality(S) <= n
  <2>1. IsFiniteSet(1 .. n) /\ Cardinality(1 .. n) = n
    <3>1. n \in Nat BY <1>1
    <3> QED BY <3>1, FS_Interval
  <2> QED BY <2>1, SmallerFits
<1>8. Shared!GroupFits'
  <2> DEFINE T == {seats'[r].tutor : r \in Shared!Fresh'}
  <2>1. Cardinality(T) <= 1
    <3>1. T \subseteq {Host} BY <1>6
    <3>2. IsFiniteSet({Host}) /\ Cardinality({Host}) = 1 BY FS_Singleton
    <3> HIDE DEF T
    <3> QED BY <3>1, <3>2, SmallerFits
  <2>2. T \subseteq {Host} BY <1>6
  <2>3. Cardinality(T) \in Nat
    <3>1. IsFiniteSet({Host}) BY FS_Singleton
    <3> HIDE DEF T
    <3> QED BY <2>2, <3>1, SmallerFits
  <2>4. ASSUME NEW t \in Shared!Tutors
        PROVE  Cardinality({r \in Shared!Fresh' : seats'[r].tutor = t}) <= MaxPets
    <3> DEFINE S == {r \in Shared!Fresh' : seats'[r].tutor = t}
    <3>1. S \subseteq 1 .. n /\ S \in SUBSET Shared!Rows BY <1>6
    <3> HIDE DEF S
    <3>2. Cardinality(S) <= n /\ Cardinality(S) \in Nat BY <1>7, <3>1, RowsAreFinite
    <3>3. Cardinality(S) <= MaxPets BY <1>1, <3>2, SharedCounts
    <3> QED BY <3>3 DEF S
  <2> HIDE DEF T
  <2>5. Cardinality(T) <= MaxTutors BY <2>1, <2>3, SharedCounts
  <2> QED BY <2>4, <2>5, SharedCounts DEF Shared!GroupFits, T
<1>9. \A h \in Handlers : asked'[h] = Shared!NoTask BY <1>1 DEF SharedInv
<1>10. BillsFit' BY <1>2, <1>5 DEF BillsFit
<1>11. \A h \in Handlers : StillSo(asked[h])' BY <1>9 DEF StillSo, Shared!NoTask
<1>12. Shared!GroupIsSettled'
  BY <1>4, <1>8 DEF Shared!GroupIsSettled, Shared!ConfirmedIsPaid, Shared!NobodyLeftBehind
<1> QED BY <1>1, <1>3, <1>4, <1>10, <1>11, <1>12 DEF SharedInv

LEMMA SharedBegin ==
  ASSUME SharedInv, NEW h \in Handlers, NEW t \in Shared!Tutors,
         NEW op \in {"join", "checkout", "confirm", "cancel"}, Shared!Begin(h, op, t)
  PROVE  SharedInv'
<1> DEFINE rows == CASE op = "checkout" -> Shared!Quota(seats, t)
                     [] op = "cancel" -> Shared!Leaving(seats, t)
                     [] OTHER -> {}
           a == [op |-> op, tutor |-> t, stale |-> FALSE, rows |-> rows]
<1>1. /\ session.st # "none" /\ Shared!Allowed(op, t)
      /\ session' = session /\ seats' = seats
      /\ asked' = [asked EXCEPT ![h] = a]
  BY DEF Shared!Begin
<1>2. rows \in SUBSET Shared!Rows
  <2>1. /\ Shared!Quota(seats, t) \in SUBSET Shared!Rows
        /\ Shared!Leaving(seats, t) \in SUBSET Shared!Rows
        /\ {} \in SUBSET Shared!Rows
    BY DEF Shared!Quota, Shared!Leaving
  <2> QED BY Zenon, <2>1
<1>3. /\ op = "checkout" => rows = Shared!Quota(seats, t)
      /\ op = "cancel" => rows = Shared!Leaving(seats, t)
  OBVIOUS
<1>4. /\ op = "join" => session.st = "forming" /\ Shared!MayJoin(seats, t)
      /\ op = "confirm" => session.st = "forming" /\ Shared!MayConfirm(seats)
  BY <1>1 DEF Shared!Allowed
<1> HIDE DEF rows
<1>5. a \in Asking /\ StillSo(a) BY <1>2, <1>3, <1>4 DEF Asking, StillSo
<1> HIDE DEF a
<1>6. \A g \in Handlers : asked'[g] = asked[g] \/ asked'[g] = a
  BY <1>1 DEF SharedInv
<1>7. asked' \in [Handlers -> {Shared!NoTask} \cup Asking] BY <1>1, <1>5 DEF SharedInv
<1>8. \A g \in Handlers : StillSo(asked'[g]) BY <1>5, <1>6 DEF SharedInv
<1>9. \A g \in Handlers : StillSo(asked[g])'
  <2> SUFFICES ASSUME NEW g \in Handlers PROVE StillSo(asked[g])' OBVIOUS
  <2>1. StillSo(asked'[g]) BY <1>8
  <2> QED BY <1>1, <2>1 DEF StillSo
<1>10. Shared!TypeOK' /\ BillsFit' BY <1>1 DEF SharedInv, Shared!TypeOK, BillsFit
<1>11. Shared!GroupIsSettled'
  BY <1>1 DEF SharedInv, Shared!GroupIsSettled, Shared!GroupFits, Shared!ConfirmedIsPaid,
     Shared!NobodyLeftBehind, Shared!Fresh, Shared!Active
<1> QED BY <1>1, <1>7, <1>9, <1>10, <1>11 DEF SharedInv

\* What a request in flight is, and what it knows.
LEMMA SharedAsking ==
  ASSUME SharedInv, NEW h \in Handlers, asked[h].op # "idle"
  PROVE  /\ asked[h] \in Asking /\ session.st # "none"
         /\ asked[h].stale \/ StillSo(asked[h])
         /\ seats \in [Shared!Rows -> Shared!Part]
         /\ session \in Shared!Session
<1>1. asked[h] # Shared!NoTask BY DEF Shared!NoTask
<1> QED BY <1>1 DEF SharedInv, Shared!TypeOK

LEMMA SharedJoin ==
  ASSUME SharedInv, NEW h \in Handlers, Shared!CommitJoin(h)
  PROVE  SharedInv'
<1> DEFINE a == asked[h]
           ghost == a.stale \/ Shared!InByStale(a.tutor)
           row == [Shared!NoPart EXCEPT !.st = "accepted", !.tutor = a.tutor, !.stale = ghost]
<1>0. a.op = "join" BY DEF Shared!CommitJoin
<1>1. /\ a \in Asking /\ session.st # "none" /\ (a.stale \/ StillSo(a))
      /\ seats \in [Shared!Rows -> Shared!Part] /\ session \in Shared!Session
  BY <1>0, SharedAsking
<1>2. PICK r \in Shared!Unused : seats' = [seats EXCEPT ![r] = row]
  BY DEF Shared!CommitJoin
<1>3. Shared!Done(h) /\ session' = session BY DEF Shared!CommitJoin
<1>4. r \in Shared!Rows /\ seats[r].st = "none" BY <1>2 DEF Shared!Unused
<1>5. ghost \in BOOLEAN BY <1>1 DEF Asking, Shared!InByStale
<1>6. /\ row \in Shared!Part /\ row.st = "accepted" /\ row.tutor = a.tutor
      /\ row.bills = 0 /\ row.stale = ghost
  <2>1. /\ Shared!NoPart \in Shared!Part /\ Shared!NoPart.bills = 0
    BY DEF Shared!NoPart, Shared!Part, Shared!Tutors
  <2> HIDE DEF ghost
  <2> QED BY <1>1, <1>5, <2>1 DEF Shared!Part, Asking
<1> HIDE DEF row
<1>7. /\ seats' \in [Shared!Rows -> Shared!Part] /\ seats'[r] = row
      /\ \A q \in Shared!Rows : q # r => seats'[q] = seats[q]
  BY <1>1, <1>2, <1>4, <1>6
<1>8. Shared!TypeOK' /\ BillsFit'
  <2>1. BillsFit BY DEF SharedInv
  <2> QED BY <1>1, <1>3, <1>6, <1>7, <2>1 DEF Shared!TypeOK, BillsFit
<1>9. Shared!GroupIsSettled BY DEF SharedInv
<1>10. CASE ghost
  <2>1. Shared!Fresh' = Shared!Fresh
    BY <1>4, <1>6, <1>7, <1>10 DEF Shared!Fresh, Shared!Active
  <2>2. \A q \in Shared!Fresh' : q \in Shared!Fresh /\ seats'[q] = seats[q]
    BY <1>4, <1>7, <2>1 DEF Shared!Fresh, Shared!Active
  <2>3. Shared!GroupFits' BY <1>7, <2>2, FitsStill
  <2>4. Shared!GroupIsSettled'
    BY <1>3, <1>9, <2>1, <2>2, <2>3
       DEF Shared!GroupIsSettled, Shared!ConfirmedIsPaid, Shared!NobodyLeftBehind
  <2> QED BY <1>1, <1>3, <1>8, <2>4, SharedDone DEF SharedInv
<1>11. CASE ~ghost
  <2>1. /\ session.st = "forming" /\ Shared!MayJoin(seats, a.tutor)
        /\ ~Shared!InByStale(a.tutor)
    BY <1>0, <1>1, <1>11 DEF StillSo
  <2>2. /\ Shared!Fresh' = Shared!Fresh \cup {r} /\ r \notin Shared!Fresh
        /\ Shared!Fresh \in SUBSET Shared!Rows
        /\ \A q \in Shared!Fresh : seats'[q] = seats[q]
    BY <1>4, <1>6, <1>7, <1>11 DEF Shared!Fresh, Shared!Active
  <2> DEFINE old == {seats[q].tutor : q \in Shared!Fresh}
             new == {seats'[q].tutor : q \in Shared!Fresh'}
  <2>3. new = old \cup {a.tutor} BY <1>6, <1>7, <2>2
  <2>4. IsFiniteSet(old) /\ Cardinality(old) \in Nat
    <3>1. \A t \in old : \E q \in Shared!Fresh : t = seats[q].tutor OBVIOUS
    <3> HIDE DEF old
    <3> QED BY <2>2, <3>1, TutorsAreFinite
  <2>5. Cardinality(old) <= MaxTutors
        /\ \A t \in Shared!Tutors : Cardinality({q \in Shared!Fresh : seats[q].tutor = t}) <= MaxPets
    BY <1>9, SharedCounts DEF Shared!GroupIsSettled, Shared!GroupFits
  <2>6. Cardinality(new) <= MaxTutors
    <3>1. CASE a.tutor \in Shared!Tutors_(seats)
      <4>1. PICK q \in Shared!Active(seats) : seats[q].tutor = a.tutor
        BY <3>1 DEF Shared!Tutors_
      <4>2. q \in Shared!Fresh BY <2>1, <4>1 DEF Shared!Fresh, Shared!Active, Shared!InByStale
      <4>3. new = old BY <2>3, <4>1, <4>2
      <4> HIDE DEF new, old
      <4> QED BY <2>5, <4>3
    <3>2. CASE Cardinality(Shared!Tutors_(seats)) < MaxTutors
      <4>1. old \subseteq Shared!Tutors_(seats) BY DEF Shared!Fresh, Shared!Tutors_
      <4>2. IsFiniteSet(Shared!Tutors_(seats)) /\ Cardinality(Shared!Tutors_(seats)) \in Nat
        <5>1. Shared!Active(seats) \in SUBSET Shared!Rows BY DEF Shared!Active
        <5>2. \A t \in Shared!Tutors_(seats) : \E q \in Shared!Active(seats) : t = seats[q].tutor
          BY DEF Shared!Tutors_
        <5> QED BY <5>1, <5>2, TutorsAreFinite
      <4> HIDE DEF new, old
      <4>3. Cardinality(old) <= Cardinality(Shared!Tutors_(seats)) BY <4>1, <4>2, SmallerFits
      <4>4. Cardinality(new) <= Cardinality(old) + 1
        <5>1. CASE a.tutor \in old
          <6>1. new = old BY <2>3, <5>1
          <6> QED BY <2>4, <6>1
        <5>2. CASE a.tutor \notin old
          <6>1. Cardinality(old \cup {a.tutor}) = Cardinality(old) + 1
            BY <2>4, <5>2, FS_AddElement
          <6> HIDE DEF a
          <6> QED BY <2>3, <2>4, <6>1
        <5> QED BY <5>1, <5>2
      <4>5. Cardinality(new) \in Nat BY <2>3, <2>4, FS_AddElement, FS_CardinalityType
      <4> QED BY <2>4, <3>2, <4>2, <4>3, <4>4, <4>5, SharedCounts
    <3> QED BY <2>1, <3>1, <3>2, SharedCounts DEF Shared!MayJoin
  <2>7. ASSUME NEW t \in Shared!Tutors
        PROVE  Cardinality({q \in Shared!Fresh' : seats'[q].tutor = t}) <= MaxPets
    <3> DEFINE O == {q \in Shared!Fresh : seats[q].tutor = t}
               N == {q \in Shared!Fresh' : seats'[q].tutor = t}
    <3>1. CASE t # a.tutor
      <4>1. N = O BY <1>6, <1>7, <2>2, <3>1
      <4> QED BY <2>5, <4>1
    <3>2. CASE t = a.tutor
      <4>1. N = O \cup {r} BY <1>6, <1>7, <2>2, <3>2
      <4>2. O \in SUBSET Shared!Rows BY <2>2
      <4>3. O \subseteq Shared!Of(seats, t) /\ Shared!Of(seats, t) \in SUBSET Shared!Rows
        BY DEF Shared!Fresh, Shared!Of, Shared!Active
      <4>4. Cardinality(Shared!Of(seats, t)) < MaxPets
        BY <2>1, <3>2, SharedCounts DEF Shared!MayJoin
      <4>5. r \notin O BY <2>2
      <4> HIDE DEF N, O
      <4>6. /\ IsFiniteSet(O) /\ Cardinality(O) \in Nat
            /\ Cardinality(Shared!Of(seats, t)) \in Nat /\ IsFiniteSet(Shared!Of(seats, t))
        BY <4>2, <4>3, RowsAreFinite
      <4>7. Cardinality(O) <= Cardinality(Shared!Of(seats, t)) BY <4>3, <4>6, SmallerFits
      <4>8. Cardinality(N) = Cardinality(O) + 1 BY <4>1, <4>5, <4>6, FS_AddElement
      <4>9. Cardinality(N) <= MaxPets BY <4>4, <4>6, <4>7, <4>8, SharedCounts
      <4> QED BY <4>9 DEF N
    <3> QED BY <3>1, <3>2
  <2>8. Shared!GroupFits'
    <3> HIDE DEF old
    <3> QED BY <2>6, <2>7, SharedCounts DEF Shared!GroupFits
  <2>9. Shared!GroupIsSettled'
    BY <1>3, <2>1, <2>8
       DEF Shared!GroupIsSettled, Shared!ConfirmedIsPaid, Shared!NobodyLeftBehind
  <2> QED BY <1>1, <1>3, <1>8, <2>9, SharedDone DEF SharedInv
<1> QED BY <1>10, <1>11

LEMMA SharedCheckout ==
  ASSUME SharedInv, NEW h \in Handlers, Shared!CommitCheckout(h)
  PROVE  SharedInv'
<1> DEFINE a == asked[h]
<1>0. a.op = "checkout" BY DEF Shared!CommitCheckout
<1>1. /\ a \in Asking /\ session.st # "none" /\ (a.stale \/ StillSo(a))
      /\ seats \in [Shared!Rows -> Shared!Part] /\ session \in Shared!Session
  BY <1>0, SharedAsking
<1>2. /\ Shared!Done(h) /\ session' = session
      /\ seats' = [r \in Shared!Rows |-> IF r \notin a.rows THEN seats[r]
           ELSE [seats[r] EXCEPT !.st = "paid", !.stale = @ \/ a.stale,
                                !.bills = IF @ = 2 THEN 2 ELSE @ + 1]]
  BY DEF Shared!CommitCheckout
<1>3. \/ a.stale
      \/ \A r \in a.rows : r \in Shared!Rows /\ seats[r].st = "accepted" /\ seats[r].bills = 0
  <2>1. a.stale \/ a.rows = Shared!Quota(seats, a.tutor) BY <1>0, <1>1 DEF StillSo
  <2>2. \A r \in Shared!Quota(seats, a.tutor) :
          r \in Shared!Rows /\ seats[r].st = "accepted" /\ seats[r].bills = 0
    <3>1. \A r \in Shared!Rows : seats[r].st = "accepted" => seats[r].bills = 0
      BY DEF SharedInv, BillsFit
    <3> QED BY <3>1 DEF Shared!Quota
  <2> QED BY <2>1, <2>2
<1>4. ASSUME NEW r \in Shared!Rows
      PROVE  /\ seats'[r] \in Shared!Part /\ seats'[r].tutor = seats[r].tutor
             /\ r \notin a.rows => seats'[r] = seats[r]
             /\ r \in a.rows => /\ seats'[r].st = "paid"
                                /\ seats'[r].stale <=> seats[r].stale \/ a.stale
                                /\ seats[r].bills = 0 => seats'[r].bills = 1
  <2> DEFINE b == IF seats[r].bills = 2 THEN 2 ELSE seats[r].bills + 1
             g == seats[r].stale \/ a.stale
  <2>1. seats[r] \in Shared!Part BY <1>1
  <2>2. b \in 0 .. 2 /\ (seats[r].bills = 0 => b = 1) BY <2>1 DEF Shared!Part
  <2>3. g \in BOOLEAN BY <1>1, <2>1 DEF Shared!Part, Asking
  <2>4. seats'[r] = IF r \notin a.rows THEN seats[r]
                    ELSE [seats[r] EXCEPT !.st = "paid", !.stale = g, !.bills = b]
    BY <1>2
  <2>5. g <=> seats[r].stale \/ a.stale OBVIOUS
  <2> HIDE DEF b, g
  <2>6. CASE r \notin a.rows BY <2>1, <2>4, <2>6
  <2>7. CASE r \in a.rows
    <3>1. seats'[r] = [seats[r] EXCEPT !.st = "paid", !.stale = g, !.bills = b] BY <2>4, <2>7
    <3>2. /\ seats'[r] \in Shared!Part /\ seats'[r].tutor = seats[r].tutor
          /\ seats'[r].st = "paid" /\ seats'[r].stale = g /\ seats'[r].bills = b
      BY <2>1, <2>2, <2>3, <3>1 DEF Shared!Part
    <3> QED BY <2>2, <2>5, <2>7, <3>2
  <2> QED BY <2>6, <2>7
<1>5. seats' \in [Shared!Rows -> Shared!Part] BY <1>2, <1>4
<1>6. \A r \in Shared!Fresh' : /\ r \in Shared!Fresh /\ seats'[r].tutor = seats[r].tutor
                               /\ seats[r].st = "paid" /\ seats[r].bills = 1 =>
                                     seats'[r] = seats[r]
  BY <1>3, <1>4 DEF Shared!Fresh, Shared!Active
<1>7. Shared!GroupFits' BY <1>5, <1>6, FitsStill
<1>8. Shared!TypeOK' /\ BillsFit'
  <2>1. BillsFit BY DEF SharedInv
  <2> QED BY <1>1, <1>2, <1>3, <1>4, <1>5, <2>1 DEF Shared!TypeOK, BillsFit
<1>9. Shared!GroupIsSettled'
  <2>1. Shared!GroupIsSettled BY DEF SharedInv
  <2> QED BY <1>2, <1>6, <1>7, <2>1
     DEF Shared!GroupIsSettled, Shared!ConfirmedIsPaid, Shared!NobodyLeftBehind
<1> QED BY <1>1, <1>2, <1>8, <1>9, SharedDone DEF SharedInv

LEMMA SharedConfirm ==
  ASSUME SharedInv, NEW h \in Handlers, Shared!CommitConfirm(h)
  PROVE  SharedInv'
<1> DEFINE a == asked[h]
<1>0. a.op = "confirm" BY DEF Shared!CommitConfirm
<1>1. /\ a \in Asking /\ session.st # "none" /\ (a.stale \/ StillSo(a))
      /\ seats \in [Shared!Rows -> Shared!Part] /\ session \in Shared!Session
  BY <1>0, SharedAsking
<1>2. /\ Shared!Done(h) /\ seats' = seats
      /\ session' = [st |-> "confirmed", stale |-> a.stale]
  BY DEF Shared!CommitConfirm
<1>3. session' \in Shared!Session /\ session'.st = "confirmed" /\ session'.stale = a.stale
  BY <1>1, <1>2 DEF Shared!Session, Shared!States, Asking
<1>4. Shared!TypeOK' /\ BillsFit' BY <1>2, <1>3 DEF SharedInv, Shared!TypeOK, BillsFit
<1>5. Shared!Fresh' = Shared!Fresh BY <1>2 DEF Shared!Fresh, Shared!Active
<1>6. Shared!GroupFits' BY <1>2, <1>5 DEF SharedInv, Shared!GroupIsSettled, Shared!GroupFits
<1>7. a.stale \/ \A r \in Shared!Fresh : seats[r].st = "paid" /\ seats[r].bills = 1
  <2>1. a.stale \/ Shared!MayConfirm(seats) BY <1>0, <1>1 DEF StillSo
  <2> QED BY <2>1 DEF Shared!MayConfirm, Shared!Fresh, Shared!Active, SharedInv, BillsFit
<1>8. Shared!GroupIsSettled'
  BY <1>2, <1>3, <1>5, <1>6, <1>7
     DEF Shared!GroupIsSettled, Shared!ConfirmedIsPaid, Shared!NobodyLeftBehind
<1> QED BY <1>1, <1>2, <1>3, <1>4, <1>8, SharedDone DEF SharedInv

LEMMA SharedCancel ==
  ASSUME SharedInv, NEW h \in Handlers, Shared!CommitCancel(h)
  PROVE  SharedInv'
<1> DEFINE a == asked[h]
<1>0. a.op = "cancel" BY DEF Shared!CommitCancel
<1>1. /\ a \in Asking /\ session.st # "none" /\ (a.stale \/ StillSo(a))
      /\ seats \in [Shared!Rows -> Shared!Part] /\ session \in Shared!Session
  BY <1>0, SharedAsking
<1>2. /\ Shared!Done(h)
      /\ session' = IF a.tutor = Host
                    THEN [st |-> "cancelled", stale |-> session.stale \/ a.stale] ELSE session
      /\ seats' = [r \in Shared!Rows |-> IF r \in a.rows
                    THEN [seats[r] EXCEPT !.st = "cancelled"] ELSE seats[r]]
  BY DEF Shared!CommitCancel
<1>3. ASSUME NEW r \in Shared!Rows
      PROVE  /\ seats'[r] \in Shared!Part
             /\ r \in a.rows => seats'[r].st = "cancelled"
             /\ r \notin a.rows => seats'[r] = seats[r]
  <2>1. seats[r] \in Shared!Part BY <1>1
  <2> QED BY <1>2, <2>1 DEF Shared!Part
<1>4. seats' \in [Shared!Rows -> Shared!Part] BY <1>2, <1>3
<1>5. \A r \in Shared!Fresh' : r \in Shared!Fresh /\ r \notin a.rows /\ seats'[r] = seats[r]
  BY <1>3 DEF Shared!Fresh, Shared!Active
<1>6. Shared!GroupFits' BY <1>4, <1>5, FitsStill
<1>7. session' \in Shared!Session /\ session'.st # "none"
  <2> DEFINE g == session.stale \/ a.stale
  <2>1. g \in BOOLEAN BY <1>1 DEF Shared!Session, Asking
  <2>2. session' = IF a.tutor = Host THEN [st |-> "cancelled", stale |-> g] ELSE session
    BY <1>2
  <2> HIDE DEF g
  <2> QED BY <1>1, <2>1, <2>2 DEF Shared!Session, Shared!States
<1>8. Shared!TypeOK' /\ BillsFit'
  <2>1. BillsFit BY DEF SharedInv
  <2> QED BY <1>3, <1>4, <1>7, <2>1 DEF Shared!TypeOK, BillsFit
<1>9. Shared!GroupIsSettled'
  <2>1. Shared!GroupIsSettled BY DEF SharedInv
  <2>2. CASE a.tutor # Host
    <3>1. session' = session BY <1>2, <2>2
    <3> QED BY <1>5, <1>6, <2>1, <3>1
       DEF Shared!GroupIsSettled, Shared!ConfirmedIsPaid, Shared!NobodyLeftBehind
  <2>3. CASE a.tutor = Host
    <3>1. session'.st = "cancelled" /\ (session'.stale <=> session.stale \/ a.stale)
      BY <1>2, <2>3
    <3>2. a.stale \/ Shared!Fresh' = {}
      <4>1. a.stale \/ a.rows = Shared!Leaving(seats, Host) BY <1>0, <1>1, <2>3 DEF StillSo
      <4>2. \A r \in Shared!Fresh' : r \in Shared!Leaving(seats, Host)
        BY <1>5 DEF Shared!Leaving, Shared!Fresh, Shared!Active
      <4> QED BY <1>5, <4>1, <4>2
    <3> QED BY <1>6, <3>1, <3>2
       DEF Shared!GroupIsSettled, Shared!ConfirmedIsPaid, Shared!NobodyLeftBehind
  <2> QED BY <2>2, <2>3
<1> QED BY <1>1, <1>2, <1>7, <1>8, <1>9, SharedDone DEF SharedInv

LEMMA SharedNext == ASSUME SharedInv, [Shared!Next]_OfShared PROVE SharedInv'
<1>1. CASE UNCHANGED OfShared
  BY <1>1 DEF OfShared, SharedInv, StillSo, BillsFit, Shared!TypeOK, Shared!GroupIsSettled,
     Shared!GroupFits, Shared!ConfirmedIsPaid, Shared!NobodyLeftBehind, Shared!Fresh,
     Shared!Active
<1>2. CASE Shared!Next
  BY <1>2, SharedCreate, SharedBegin, SharedJoin, SharedCheckout, SharedConfirm, SharedCancel
     DEF Shared!Next
<1> QED BY <1>1, <1>2

----------------------------------------------------------------------------
(* The walker's wallet *)

Approving(h) == task[h].at \in {"approve", "sent"}

\* A transfer of x is made and not answered yet.
Held(x) == \E h \in Handlers : task[h].at = "sent" /\ task[h].x = x

\* One approval at a time has a withdrawal; a withdrawal nobody has asked for has none.
Locked ==
  /\ \A h \in Handlers : Approving(h) => task[h].x \in Requests /\ wd[task[h].x].st # "none"
  /\ \A g, h \in Handlers : Approving(g) /\ Approving(h) /\ task[g].x = task[h].x => g = h
  /\ \A h \in Handlers : task[h].at = "request" => task[h].x \in Requests /\ wd[task[h].x].st = "none"
  /\ \A g, h \in Handlers : task[g].at = "request" /\ task[h].at = "request" => g = h
  /\ \A x \in mail : wd[x].st # "none"
  /\ \A x \in Requests : wd[x].ref => wd[x].st # "none"

WalletInv == Wallet!TypeOK /\ Locked /\ Wallet!TransferredOnce

LEMMA WalletAmounts == Share \in Nat /\ Price \in Nat
BY WalletParameters DEF Wallet!AmountsAssumption

\* TransferredOnce, of one withdrawal.
Once(x) == wd[x].sent <= wd[x].lost + (IF wd[x].ref \/ Held(x) THEN 1 ELSE 0)

LEMMA OnceMeans == Wallet!TransferredOnce <=> \A x \in Requests : Once(x)
BY DEF Wallet!TransferredOnce, Once, Held

LEMMA OncePrimed == (\A x \in Requests : Once(x)') => Wallet!TransferredOnce'
BY DEF Wallet!TransferredOnce, Once, Held

LEMMA WalletInit == ASSUME Wallet!Init PROVE WalletInv
<1>1. /\ walk = [w \in Served |-> Wallet!NoWalk] /\ wd = [x \in Requests |-> Wallet!NoWd]
      /\ mail = {} /\ task = [h \in Handlers |-> Wallet!Idle] /\ peak = [w \in Served |-> 0]
  BY DEF Wallet!Init
<1>2. /\ Wallet!NoWalk \in Wallet!Walk /\ Wallet!NoWd \in Wallet!Withdrawal
      /\ Wallet!Idle \in Wallet!Task
  BY DEF Wallet!NoWalk, Wallet!Walk, Wallet!WalkAt, Wallet!Earnings, Wallet!NoWd,
     Wallet!Withdrawal, Wallet!WdAt, Wallet!Idle, Wallet!Task
<1>3. /\ Wallet!Idle.at = "idle" /\ Wallet!NoWd.sent = 0 /\ Wallet!NoWd.lost = 0
      /\ ~Wallet!NoWd.ref
  BY DEF Wallet!Idle, Wallet!NoWd
<1>4. Wallet!TypeOK BY <1>1, <1>2 DEF Wallet!TypeOK
<1>5. Locked BY <1>1, <1>3 DEF Locked, Approving
<1>6. Wallet!TransferredOnce BY <1>1, <1>3, OnceMeans DEF Once, Held
<1> QED BY <1>4, <1>5, <1>6 DEF WalletInv

LEMMA CreditIsNat == ASSUME NEW r \in Wallet!Walk PROVE Wallet!Credit(r) \in Nat
BY WalletAmounts DEF Wallet!Credit, Wallet!FromLedger, Wallet!FromSplit, Wallet!HasSplit

\* Whatever else a step does, it remembers the most each walk credited.
LEMMA PeakFollows ==
  ASSUME WalletInv, walk' \in [Served -> Wallet!Walk],
         peak' = [w \in Served |-> Wallet!Larger(peak[w], Wallet!Credit(walk'[w]))]
  PROVE  peak' \in [Served -> Nat]
<1> SUFFICES ASSUME NEW w \in Served
             PROVE  Wallet!Larger(peak[w], Wallet!Credit(walk'[w])) \in Nat
  OBVIOUS
<1>1. Wallet!Credit(walk'[w]) \in Nat BY CreditIsNat
<1>2. peak[w] \in Nat BY DEF WalletInv, Wallet!TypeOK
<1> QED BY <1>1, <1>2 DEF Wallet!Larger

\* What happens to a walk is of its type, and touches no withdrawal.
LEMMA WalletOfWalk ==
  ASSUME WalletInv, NEW w \in Served, Wallet!OfWalk(w)
  PROVE  walk' \in [Served -> Wallet!Walk] /\ UNCHANGED <<wd, mail, task>>
<1> DEFINE r == walk[w]
<1>1. r \in Wallet!Walk /\ walk \in [Served -> Wallet!Walk] BY DEF WalletInv, Wallet!TypeOK
<1>2. /\ Wallet!Accrued(r) \in Wallet!Earnings /\ Wallet!Voided(r) \in Wallet!Walk
      /\ \A b \in BOOLEAN : Wallet!Completed(r, b) \in Wallet!Walk
  <2> HIDE DEF r
  <2>1. Wallet!Accrued(r) \in Wallet!Earnings
    BY <1>1 DEF Wallet!Accrued, Wallet!Walk, Wallet!Earnings
  <2>2. Wallet!Voided(r) \in Wallet!Walk
    BY <1>1 DEF Wallet!Voided, Wallet!Walk, Wallet!Earnings
  <2>3. ASSUME NEW b \in BOOLEAN PROVE Wallet!Completed(r, b) \in Wallet!Walk
    BY <1>1, <2>1 DEF Wallet!Completed, Wallet!Walk, Wallet!WalkAt
  <2> QED BY <2>1, <2>2, <2>3
<1>3. ASSUME NEW q \in Wallet!Walk, Wallet!Becomes(w, q)
      PROVE  walk' \in [Served -> Wallet!Walk] /\ UNCHANGED <<wd, mail, task>>
  BY <1>1, <1>3 DEF Wallet!Becomes
<1>4. ASSUME NEW q, Wallet!Becomes(w, q), q \in Wallet!Walk
      PROVE  walk' \in [Served -> Wallet!Walk] /\ UNCHANGED <<wd, mail, task>>
  BY <1>3, <1>4
<1> HIDE DEF r
<1>5. CASE Wallet!PaidByTutor(w)
  <2>1. [r EXCEPT !.tutor = "paid"] \in Wallet!Walk BY <1>1 DEF Wallet!Walk
  <2> QED BY <1>4, <1>5, <2>1 DEF Wallet!PaidByTutor, r
<1>6. CASE Wallet!Report(w)
  <2>1. [r EXCEPT !.at = "review", !.report = TRUE] \in Wallet!Walk
    BY <1>1 DEF Wallet!Walk, Wallet!WalkAt
  <2> QED BY <1>4, <1>6, <2>1 DEF Wallet!Report, r
<1>7. CASE Wallet!ApproveCompensation(w)
  <2>1. [r EXCEPT !.late = FALSE, !.earning = Wallet!Accrued(r)] \in Wallet!Walk
    BY <1>1, <1>2 DEF Wallet!Walk
  <2> QED BY <1>4, <1>7, <2>1 DEF Wallet!ApproveCompensation, r
<1>8. CASE Wallet!Refunded(w)
  <2>1. [Wallet!Voided(r) EXCEPT !.tutor = "refunded"] \in Wallet!Walk
    BY <1>2 DEF Wallet!Walk
  <2> QED BY <1>4, <1>8, <2>1 DEF Wallet!Refunded, r
<1>9. CASE Wallet!Void(w)
  BY <1>2, <1>4, <1>9 DEF Wallet!Void, r
<1>10. CASE Wallet!FallsDue(w)
  <2>1. [r EXCEPT !.earning = "due"] \in Wallet!Walk BY <1>1 DEF Wallet!Walk, Wallet!Earnings
  <2> QED BY <1>4, <1>10, <2>1 DEF Wallet!FallsDue, r
<1>11. ASSUME NEW b \in BOOLEAN, Wallet!Cancel(w, b)
       PROVE  walk' \in [Served -> Wallet!Walk] /\ UNCHANGED <<wd, mail, task>>
  <2>1. [r EXCEPT !.at = "cancelled", !.late = b] \in Wallet!Walk
    BY <1>1 DEF Wallet!Walk, Wallet!WalkAt
  <2> QED BY <1>4, <1>11, <2>1 DEF Wallet!Cancel, r
<1>12. ASSUME NEW b \in BOOLEAN, Wallet!ApproveReport(w, b)
       PROVE  walk' \in [Served -> Wallet!Walk] /\ UNCHANGED <<wd, mail, task>>
  BY <1>2, <1>4, <1>12 DEF Wallet!ApproveReport, r
<1> QED BY <1>5, <1>6, <1>7, <1>8, <1>9, <1>10, <1>11, <1>12 DEF Wallet!OfWalk

\* Requests and approvals, one lemma each: the types, the locks and the transfers.
LEMMA WalletRequests ==
  ASSUME WalletInv, NEW h \in Handlers, NEW x \in Requests, NEW a \in 1 .. Price,
         NEW b \in BOOLEAN, Wallet!BeginRequest(h, x, a, b), peak' \in [Served -> Nat]
  PROVE  WalletInv'
<1> DEFINE t == [at |-> "request", x |-> x, amount |-> a, linked |-> b]
<1>1. /\ wd[x].st = "none" /\ task[h].at = "idle" /\ Wallet!WalkerFree
      /\ task' = [task EXCEPT ![h] = t] /\ walk' = walk /\ wd' = wd /\ mail' = mail
  BY DEF Wallet!BeginRequest, Wallet!Hold
<1>2. t \in Wallet!Task /\ t.at = "request" /\ t.x = x BY WalletAmounts DEF Wallet!Task
<1> HIDE DEF t
<1>3. Wallet!TypeOK' BY <1>1, <1>2 DEF WalletInv, Wallet!TypeOK
<1>4. \A g \in Handlers : g # h => task'[g] = task[g] BY <1>1 DEF WalletInv, Wallet!TypeOK
<1>5. task'[h] = t BY <1>1 DEF WalletInv, Wallet!TypeOK
<1>6. Locked' BY <1>1, <1>2, <1>4, <1>5 DEF WalletInv, Locked, Approving, Wallet!WalkerFree
<1>7. \A y \in Requests : Held(y)' <=> Held(y) BY <1>1, <1>2, <1>4, <1>5 DEF Held
<1>8. \A y \in Requests : Once(y)' BY <1>1, <1>7, OnceMeans DEF WalletInv, Once
<1> QED BY <1>3, <1>6, <1>8, OncePrimed DEF WalletInv

\* A handler that reaches a task, or lets it go, holds no other.
LEMMA WalletTask ==
  ASSUME WalletInv, NEW h \in Handlers, NEW t \in Wallet!Task, Wallet!Hold(h, t)
  PROVE  /\ task' \in [Handlers -> Wallet!Task] /\ task'[h] = t
         /\ \A g \in Handlers : g # h => task'[g] = task[g]
BY DEF WalletInv, Wallet!TypeOK, Wallet!Hold

LEMMA WalletTypes ==
  ASSUME WalletInv
  PROVE  /\ task \in [Handlers -> Wallet!Task] /\ wd \in [Requests -> Wallet!Withdrawal]
         /\ mail \subseteq Requests /\ walk \in [Served -> Wallet!Walk]
         /\ Wallet!Idle \in Wallet!Task /\ Wallet!Idle.at = "idle"
BY DEF WalletInv, Wallet!TypeOK, Wallet!Idle, Wallet!Task

LEMMA WalletRequested ==
  ASSUME WalletInv, NEW h \in Handlers, Wallet!CommitRequest(h), peak' \in [Served -> Nat]
  PROVE  WalletInv'
<1> DEFINE x == task[h].x
           r == [Wallet!NoWd EXCEPT !.st = "pending", !.amount = task[h].amount,
                                    !.linked = task[h].linked]
<1>1. /\ task[h].at = "request" /\ Wallet!Hold(h, Wallet!Idle)
      /\ wd' = [wd EXCEPT ![x] = r] /\ walk' = walk /\ mail' = mail
  BY DEF Wallet!CommitRequest, Wallet!Free
<1>2. x \in Requests /\ wd[x].st = "none" BY <1>1 DEF WalletInv, Locked
<1>3. /\ task' \in [Handlers -> Wallet!Task] /\ task'[h].at = "idle"
      /\ \A g \in Handlers : g # h => task'[g] = task[g]
  BY <1>1, WalletTask, WalletTypes
<1>4. r \in Wallet!Withdrawal /\ r.st = "pending" /\ r.sent = 0 /\ r.lost = 0 /\ ~r.ref
  <2>1. /\ Wallet!NoWd \in Wallet!Withdrawal /\ Wallet!NoWd.sent = 0 /\ Wallet!NoWd.lost = 0
        /\ ~Wallet!NoWd.ref
    BY DEF Wallet!NoWd, Wallet!Withdrawal, Wallet!WdAt
  <2>2. task[h].amount \in Nat /\ task[h].linked \in BOOLEAN BY WalletTypes DEF Wallet!Task
  <2> QED BY <2>1, <2>2 DEF Wallet!Withdrawal, Wallet!WdAt
<1> HIDE DEF r
<1>5. /\ wd' \in [Requests -> Wallet!Withdrawal] /\ wd'[x] = r
      /\ \A y \in Requests : y # x => wd'[y] = wd[y]
  BY <1>1, <1>2, <1>4, WalletTypes
<1>6. Wallet!TypeOK' BY <1>1, <1>3, <1>5, WalletTypes DEF Wallet!TypeOK
<1>7. Locked'
  <2>1. Locked BY DEF WalletInv
  <2>2. \A g \in Handlers : g # h => task[g].at # "request" BY <1>1, <2>1 DEF Locked
  <2> QED BY <1>1, <1>3, <1>4, <1>5, <2>1, <2>2 DEF Locked, Approving
<1>8. \A y \in Requests : y # x => (Held(y)' <=> Held(y)) BY <1>1, <1>3 DEF Held
<1>9. \A y \in Requests : Once(y)'
  BY <1>4, <1>5, <1>8, OnceMeans DEF WalletInv, Once
<1> QED BY <1>6, <1>7, <1>9, OncePrimed DEF WalletInv

\* Steps of an approval: who holds the lock of its row.
LEMMA WalletApproving ==
  ASSUME WalletInv, NEW h \in Handlers, Approving(h)
  PROVE  /\ task[h].x \in Requests /\ wd[task[h].x].st # "none"
         /\ Held(task[h].x) <=> task[h].at = "sent"
         /\ task[h].at = "sent" => wd[task[h].x].sent <= wd[task[h].x].lost + 1
         /\ task[h].at = "approve" /\ ~wd[task[h].x].ref =>
              wd[task[h].x].sent <= wd[task[h].x].lost
<1>1. task[h].x \in Requests /\ wd[task[h].x].st # "none" BY DEF WalletInv, Locked
<1>2. Held(task[h].x) <=> task[h].at = "sent" BY DEF WalletInv, Locked, Approving, Held
<1>3. Once(task[h].x) BY <1>1, OnceMeans DEF WalletInv
<1>4. wd[task[h].x].sent \in Nat /\ wd[task[h].x].lost \in Nat
  BY <1>1, WalletTypes DEF Wallet!Withdrawal
<1> QED BY <1>1, <1>2, <1>3, <1>4 DEF Once

LEMMA WalletApproves ==
  ASSUME WalletInv, NEW h \in Handlers, NEW x \in Requests, Wallet!BeginApprove(h, x),
         peak' \in [Served -> Nat]
  PROVE  WalletInv'
<1> DEFINE t == [Wallet!Idle EXCEPT !.at = "approve", !.x = x]
<1>1. /\ wd[x].st \in {"pending", "rejected"} /\ Wallet!RowFree(x) /\ Wallet!Hold(h, t)
      /\ task[h].at = "idle" /\ walk' = walk /\ wd' = wd /\ mail' = mail
  BY DEF Wallet!BeginApprove
<1>2. t \in Wallet!Task /\ t.at = "approve" /\ t.x = x BY DEF Wallet!Idle, Wallet!Task
<1> HIDE DEF t
<1>3. /\ task' \in [Handlers -> Wallet!Task] /\ task'[h] = t
      /\ \A g \in Handlers : g # h => task'[g] = task[g]
  BY <1>1, <1>2, WalletTask
<1>4. Wallet!TypeOK' BY <1>1, <1>3, WalletTypes DEF Wallet!TypeOK, WalletInv
<1>5. Locked'
  BY <1>1, <1>2, <1>3 DEF WalletInv, Locked, Approving, Wallet!RowFree
<1>6. \A y \in Requests : Held(y)' <=> Held(y) BY <1>1, <1>2, <1>3 DEF Held
<1>7. \A y \in Requests : Once(y)' BY <1>1, <1>6, OnceMeans DEF WalletInv, Once
<1> QED BY <1>4, <1>5, <1>7, OncePrimed DEF WalletInv

\* A step of the approval that holds x, which changes nothing of the others.
LEMMA WalletOfApproval ==
  ASSUME WalletInv, NEW h \in Handlers, Approving(h), NEW t \in Wallet!Task, Wallet!Hold(h, t),
         NEW r \in Wallet!Withdrawal, wd' = [wd EXCEPT ![task[h].x] = r], r.st # "none",
         \/ t.at = "idle"
         \/ t.at \in {"approve", "sent"} /\ t.x = task[h].x,
         r.sent <= r.lost + (IF r.ref \/ t.at = "sent" THEN 1 ELSE 0),
         walk' = walk, mail' = mail, peak' \in [Served -> Nat]
  PROVE  WalletInv'
<1>0. task[h].x \in Requests BY WalletApproving
<1> PICK x \in Requests : x = task[h].x BY <1>0
<1>1. x = task[h].x /\ wd[x].st # "none" BY WalletApproving
<1>2. /\ task' \in [Handlers -> Wallet!Task] /\ task'[h] = t
      /\ \A g \in Handlers : g # h => task'[g] = task[g]
  BY WalletTask
<1>3. /\ wd' \in [Requests -> Wallet!Withdrawal] /\ wd'[x] = r
      /\ \A y \in Requests : y # x => wd'[y] = wd[y]
  BY <1>1, WalletTypes
<1>4. Wallet!TypeOK' BY <1>2, <1>3, WalletTypes DEF Wallet!TypeOK
<1>5. Locked'
  <2>1. Locked BY DEF WalletInv
  <2> QED BY <1>1, <1>2, <1>3, <2>1 DEF Locked, Approving
<1>6. \A y \in Requests : y # x => (Held(y)' <=> Held(y)) BY <1>1, <1>2 DEF Held
<1>7. Held(x)' <=> t.at = "sent"
  <2>1. \A g \in Handlers : g # h /\ Approving(g) => task[g].x # x
    BY <1>1 DEF WalletInv, Locked
  <2> QED BY <1>1, <1>2, <2>1 DEF Held, Approving
<1>8. \A y \in Requests : Once(y)'
  <2>1. ASSUME NEW y \in Requests, y # x PROVE Once(y)'
    BY <1>3, <1>6, <2>1, OnceMeans DEF WalletInv, Once
  <2>2. Once(x)' BY <1>3, <1>7 DEF Once
  <2> QED BY <2>1, <2>2
<1> QED BY <1>4, <1>5, <1>8, OncePrimed DEF WalletInv

LEMMA WalletTransfers ==
  ASSUME WalletInv, NEW h \in Handlers, peak' \in [Served -> Nat],
         \/ Wallet!Transfer(h) \/ Wallet!TransferFails(h)
         \/ Wallet!AnswerLost(h) \/ Wallet!CommitApprove(h)
  PROVE  WalletInv'
<1> DEFINE x == task[h].x
           r == wd[x]
<1>1. Approving(h) /\ walk' = walk /\ mail' = mail
  BY DEF Wallet!Transfer, Wallet!TransferFails, Wallet!AnswerLost, Wallet!CommitApprove,
     Approving
<1>2. /\ x \in Requests /\ r \in Wallet!Withdrawal /\ r.st # "none"
      /\ task[h].at = "sent" => r.sent <= r.lost + 1
      /\ task[h].at = "approve" /\ ~r.ref => r.sent <= r.lost
  BY <1>1, WalletApproving, WalletTypes
<1>3. task[h] \in Wallet!Task BY WalletTypes
<1>4. r.sent <= r.lost + (IF r.ref \/ task[h].at = "sent" THEN 1 ELSE 0)
  BY <1>1, <1>2, WalletApproving, OnceMeans DEF WalletInv, Once
<1>5. CASE Wallet!Transfer(h)
  <2> DEFINE q == [r EXCEPT !.sent = @ + 1]
             t == [task[h] EXCEPT !.at = "sent"]
  <2>1. /\ task[h].at = "approve" /\ ~r.ref /\ wd' = [wd EXCEPT ![x] = q] /\ Wallet!Hold(h, t)
    <3>1. wd' = [wd EXCEPT ![x].sent = @ + 1] BY <1>5 DEF Wallet!Transfer
    <3> QED BY <1>5, <3>1 DEF Wallet!Transfer, Wallet!NoTransfer
  <2>2. q \in Wallet!Withdrawal /\ q.st = r.st /\ q.sent = r.sent + 1 /\ q.lost = r.lost
    BY <1>2 DEF Wallet!Withdrawal
  <2>3. t \in Wallet!Task /\ t.at = "sent" /\ t.x = x BY <1>3 DEF Wallet!Task
  <2>4. r.sent \in Nat /\ r.lost \in Nat BY <1>2 DEF Wallet!Withdrawal
  <2>5. q.sent <= q.lost + 1 BY <1>2, <2>1, <2>2, <2>4
  <2> HIDE DEF q, t, r
  <2> QED BY <1>1, <1>2, <2>1, <2>2, <2>3, <2>5, WalletOfApproval
<1>6. CASE Wallet!TransferFails(h)
  <2>1. /\ task[h].at = "approve" /\ ~r.ref /\ wd' = wd /\ Wallet!Hold(h, Wallet!Idle)
    BY <1>6 DEF Wallet!TransferFails, Wallet!NoTransfer, Wallet!Free
  <2>2. wd' = [wd EXCEPT ![x] = r] BY <1>2, <2>1, WalletTypes
  <2>3. r.sent <= r.lost + (IF r.ref \/ Wallet!Idle.at = "sent" THEN 1 ELSE 0)
    BY <1>2, <2>1, WalletTypes DEF Wallet!Withdrawal
  <2> HIDE DEF r
  <2> QED BY <1>1, <1>2, <2>1, <2>2, <2>3, WalletOfApproval, WalletTypes
<1>7. CASE Wallet!AnswerLost(h)
  <2> DEFINE q == [r EXCEPT !.lost = @ + 1]
  <2>1. /\ task[h].at = "sent" /\ wd' = [wd EXCEPT ![x] = q] /\ Wallet!Hold(h, Wallet!Idle)
    <3>1. wd' = [wd EXCEPT ![x].lost = @ + 1] BY <1>7 DEF Wallet!AnswerLost
    <3> QED BY <1>7, <3>1 DEF Wallet!AnswerLost, Wallet!Free
  <2>2. q \in Wallet!Withdrawal /\ q.st = r.st /\ q.sent = r.sent /\ q.lost = r.lost + 1
    BY <1>2 DEF Wallet!Withdrawal
  <2>3. r.sent \in Nat /\ r.lost \in Nat BY <1>2 DEF Wallet!Withdrawal
  <2>4. q.sent <= q.lost + (IF q.ref \/ Wallet!Idle.at = "sent" THEN 1 ELSE 0)
    BY <1>2, <2>1, <2>2, <2>3
  <2> HIDE DEF q, r
  <2> QED BY <1>1, <1>2, <2>1, <2>2, <2>4, WalletOfApproval, WalletTypes
<1>8. CASE Wallet!CommitApprove(h)
  <2> DEFINE sent == task[h].at = "sent"
             q == Wallet!Pays(r, sent)
  <2>1. /\ wd' = [wd EXCEPT ![x] = q] /\ Wallet!Hold(h, Wallet!Idle)
    <3>1. wd' = [wd EXCEPT ![x] = Wallet!Pays(@, task[h].at = "sent")]
      BY <1>8 DEF Wallet!CommitApprove
    <3> QED BY <1>8, <3>1 DEF Wallet!CommitApprove, Wallet!Free
  <2>2. /\ q \in Wallet!Withdrawal /\ q.st = "paid" /\ q.sent = r.sent /\ q.lost = r.lost
        /\ q.ref <=> r.ref \/ sent
    <3> DEFINE a == r.ref \/ sent
               b == r.back \/ r.st = "rejected"
    <3>1. a \in BOOLEAN /\ b \in BOOLEAN OBVIOUS
    <3>2. q = [r EXCEPT !.st = "paid", !.ref = a, !.back = b] BY DEF Wallet!Pays
    <3>3. a <=> r.ref \/ sent OBVIOUS
    <3> HIDE DEF a, b, q, r
    <3>4. q \in Wallet!Withdrawal /\ q.st = "paid" /\ q.sent = r.sent /\ q.lost = r.lost
          /\ q.ref = a
      BY <1>2, <3>1, <3>2 DEF Wallet!Withdrawal, Wallet!WdAt
    <3> QED BY <3>3, <3>4
  <2>3. q.sent <= q.lost + (IF q.ref \/ Wallet!Idle.at = "sent" THEN 1 ELSE 0)
    BY <1>4, <2>2, WalletTypes
  <2> HIDE DEF q, r
  <2> QED BY <1>1, <1>2, <2>1, <2>2, <2>3, WalletOfApproval, WalletTypes
<1> QED BY <1>5, <1>6, <1>7, <1>8

\* Staff reject, the gateway gives a transfer back.
LEMMA WalletGivesBack ==
  ASSUME WalletInv, NEW x \in Requests, peak' \in [Served -> Nat],
         Wallet!Reject(x) \/ Wallet!Bounce(x) \/ Wallet!TransferFailed(x)
  PROVE  WalletInv'
<1>1. walk' = walk /\ task' = task
  BY DEF Wallet!Reject, Wallet!Bounce, Wallet!TransferFailed
<1>2. \A y \in Requests : Held(y)' <=> Held(y) BY <1>1 DEF Held
<1>3. Locked BY DEF WalletInv
<1>4. wd[x] \in Wallet!Withdrawal BY WalletTypes
<1>5. /\ wd[x].st # "none" /\ mail' \subseteq mail \cup {x} /\ wd' \in [Requests -> Wallet!Withdrawal]
      /\ \A y \in Requests : y # x => wd'[y] = wd[y]
      /\ wd'[x].st # "none" /\ wd'[x].sent = wd[x].sent /\ wd'[x].lost = wd[x].lost
      /\ wd'[x].ref = wd[x].ref
  <2>1. CASE Wallet!Reject(x)
    <3>1. /\ wd[x].st # "none" /\ mail' = mail /\ wd' = [wd EXCEPT ![x].st = "rejected"]
      BY <2>1 DEF Wallet!Reject
    <3> QED BY <1>4, <3>1, WalletTypes DEF Wallet!Withdrawal, Wallet!WdAt
  <2>2. CASE Wallet!Bounce(x)
    BY <1>3, <2>2, WalletTypes DEF Wallet!Bounce, Locked
  <2>3. CASE Wallet!TransferFailed(x)
    <3> DEFINE b == wd[x].back \/ wd[x].st = "rejected"
    <3>1. /\ x \in mail /\ mail' = mail \ {x}
          /\ wd' = [wd EXCEPT ![x] = [@ EXCEPT !.st = "pending", !.back = b]]
      <4>1. wd' = [wd EXCEPT ![x].st = "pending", ![x].back = @ \/ wd[x].st = "rejected"]
        BY <2>3 DEF Wallet!TransferFailed
      <4>2. [wd EXCEPT ![x].st = "pending", ![x].back = @ \/ wd[x].st = "rejected"]
              = [wd EXCEPT ![x] = [@ EXCEPT !.st = "pending", !.back = b]]
        BY WalletTypes, <1>4 DEF Wallet!Withdrawal
      <4> QED BY <2>3, <4>1, <4>2 DEF Wallet!TransferFailed
    <3>2. b \in BOOLEAN OBVIOUS
    <3> HIDE DEF b
    <3> QED BY <1>3, <1>4, <3>1, <3>2, WalletTypes DEF Wallet!Withdrawal, Wallet!WdAt, Locked
  <2> QED BY <2>1, <2>2, <2>3
<1>6. Wallet!TypeOK' BY <1>1, <1>5, WalletTypes DEF Wallet!TypeOK
<1>7. Locked'
  <2>1. \A y \in Requests : /\ wd'[y].st = "none" <=> wd[y].st = "none"
                            /\ wd'[y].ref = wd[y].ref
    BY <1>5
  <2>2. \A y \in mail' : wd'[y].st # "none" BY <1>3, <1>5, WalletTypes DEF Locked
  <2> QED BY <1>1, <1>3, <2>1, <2>2 DEF Locked, Approving
<1>8. \A y \in Requests : Once(y)' BY <1>2, <1>5, OnceMeans DEF WalletInv, Once
<1> QED BY <1>6, <1>7, <1>8, OncePrimed DEF WalletInv

LEMMA WalletNext == ASSUME WalletInv, [Wallet!Next]_OfWallet PROVE WalletInv'
<1>1. CASE UNCHANGED OfWallet
  BY <1>1 DEF OfWallet, WalletInv, Wallet!TypeOK, Locked, Approving, Wallet!TransferredOnce
<1>2. CASE Wallet!Next
  <2>1. walk' \in [Served -> Wallet!Walk]
    <3>1. (\E w \in Served : Wallet!OfWalk(w)) \/ walk' = walk
      BY <1>2 DEF Wallet!Next, Wallet!OfHandler, Wallet!BeginApprove, Wallet!BeginRequest,
         Wallet!CommitRequest, Wallet!Transfer, Wallet!TransferFails, Wallet!AnswerLost,
         Wallet!CommitApprove, Wallet!Reject, Wallet!Bounce, Wallet!TransferFailed
    <3> QED BY <3>1, WalletOfWalk, WalletTypes
  <2>2. peak' \in [Served -> Nat]
    <3>1. peak' = [w \in Served |-> Wallet!Larger(peak[w], Wallet!Credit(walk'[w]))]
      BY <1>2 DEF Wallet!Next
    <3> QED BY <2>1, <3>1, PeakFollows
  <2>3. ASSUME NEW w \in Served, Wallet!OfWalk(w) PROVE WalletInv'
    <3>1. walk' \in [Served -> Wallet!Walk] /\ UNCHANGED <<wd, mail, task>>
      BY <2>3, WalletOfWalk
    <3> QED BY <2>2, <3>1
       DEF WalletInv, Wallet!TypeOK, Locked, Approving, Wallet!TransferredOnce
  <2>4. ASSUME NEW h \in Handlers, Wallet!OfHandler(h) PROVE WalletInv'
    BY <2>2, <2>4, WalletApproves, WalletRequests, WalletRequested, WalletTransfers
       DEF Wallet!OfHandler
  <2>5. ASSUME NEW x \in Requests, Wallet!Reject(x) \/ Wallet!Bounce(x) \/ Wallet!TransferFailed(x)
        PROVE  WalletInv'
    BY <2>2, <2>5, WalletGivesBack
  <2> QED BY <1>2, <2>3, <2>4, <2>5 DEF Wallet!Next
<1> QED BY <1>1, <1>2

----------------------------------------------------------------------------
(* What is withdrawn and what was credited *)

LEMMA WalletSets == IsFiniteSet(Served) /\ IsFiniteSet(Requests)
<1>1. \A S : Wallet!IsFiniteSet(S) <=> IsFiniteSet(S) BY DEF IsFiniteSet, Wallet!IsFiniteSet
<1> QED BY <1>1, WalletParameters DEF Wallet!SetsAssumption

AmountsOf(d) == [x \in Requests |-> d[x].amount]

\* The code's sums, of a function: what withdrawals take, what walks credit.
LEMMA TakenIs ==
  ASSUME NEW X \in SUBSET Requests
  PROVE  Wallet!Taken(X) = Total(AmountsOf(wd), X)
<1> DEFINE f == AmountsOf(wd)
           body(g) == [s \in SUBSET X |-> IF s = {} THEN 0
                                          ELSE wd[First(s)].amount + g[s \ {First(s)}]]
           it == CHOOSE g : g = body(g)
<1>1. IsFiniteSet(X) BY WalletSets, FS_Subset
<1>2. ASSUME NEW g PROVE Folds(f, X, g) <=> g = body(g)
  <2>1. \A s \in SUBSET X : s # {} => f[First(s)] = wd[First(s)].amount
    BY FirstIsIn DEF AmountsOf
  <2> HIDE DEF f
  <2>2. [s \in SUBSET X |-> IF s = {} THEN 0 ELSE f[First(s)] + g[s \ {First(s)}]] = body(g)
    BY <2>1
  <2> QED BY <2>2 DEF Folds
<1>3. \E g : g = body(g) BY <1>1, <1>2, FoldsExist
<1>4. it = body(it) BY <1>3
<1>5. Wallet!Taken(X) = it[X]
  BY DEF Wallet!Taken, Wallet!MapThenSumSet, Wallet!MapThenFoldSet, First
<1> HIDE DEF it, f, body
<1>6. Folds(f, X, it) BY <1>2, <1>4
<1> QED BY <1>1, <1>5, <1>6, FoldsAreSums DEF f

LEMMA EarnedIs ==
  /\ Wallet!Earned = Total([w \in Served |-> Wallet!Credit(walk[w])], Served)
  /\ Wallet!EarnedOfTenant = Total([w \in Served |-> Wallet!CreditOfTenant(walk[w])], Served)
<1>1. Wallet!Earned = Total([w \in Served |-> Wallet!Credit(walk[w])], Served)
  <2> DEFINE f == [w \in Served |-> Wallet!Credit(walk[w])]
             body(g) == [s \in SUBSET Served |->
                           IF s = {} THEN 0 ELSE Wallet!Credit(walk[First(s)]) + g[s \ {First(s)}]]
             it == CHOOSE g : g = body(g)
  <2>1. ASSUME NEW g PROVE Folds(f, Served, g) <=> g = body(g)
    <3>1. \A s \in SUBSET Served : s # {} => f[First(s)] = Wallet!Credit(walk[First(s)])
      BY FirstIsIn
    <3> HIDE DEF f
    <3>2. [s \in SUBSET Served |-> IF s = {} THEN 0 ELSE f[First(s)] + g[s \ {First(s)}]] = body(g)
      BY <3>1
    <3> QED BY <3>2 DEF Folds
  <2>2. \E g : g = body(g) BY <2>1, FoldsExist, WalletSets
  <2>3. it = body(it) BY <2>2
  <2>4. Wallet!Earned = it[Served]
    BY DEF Wallet!Earned, Wallet!MapThenSumSet, Wallet!MapThenFoldSet, First
  <2> HIDE DEF it, f, body
  <2>5. Folds(f, Served, it) BY <2>1, <2>3
  <2> QED BY <2>4, <2>5, FoldsAreSums, WalletSets DEF f
<1>2. Wallet!EarnedOfTenant = Total([w \in Served |-> Wallet!CreditOfTenant(walk[w])], Served)
  <2> DEFINE f == [w \in Served |-> Wallet!CreditOfTenant(walk[w])]
             body(g) == [s \in SUBSET Served |->
                           IF s = {} THEN 0 ELSE Wallet!CreditOfTenant(walk[First(s)]) + g[s \ {First(s)}]]
             it == CHOOSE g : g = body(g)
  <2>1. ASSUME NEW g PROVE Folds(f, Served, g) <=> g = body(g)
    <3>1. \A s \in SUBSET Served : s # {} => f[First(s)] = Wallet!CreditOfTenant(walk[First(s)])
      BY FirstIsIn
    <3> HIDE DEF f
    <3>2. [s \in SUBSET Served |-> IF s = {} THEN 0 ELSE f[First(s)] + g[s \ {First(s)}]] = body(g)
      BY <3>1
    <3> QED BY <3>2 DEF Folds
  <2>2. \E g : g = body(g) BY <2>1, FoldsExist, WalletSets
  <2>3. it = body(it) BY <2>2
  <2>4. Wallet!EarnedOfTenant = it[Served]
    BY DEF Wallet!EarnedOfTenant, Wallet!MapThenSumSet, Wallet!MapThenFoldSet, First
  <2> HIDE DEF it, f, body
  <2>5. Folds(f, Served, it) BY <2>1, <2>3
  <2> QED BY <2>4, <2>5, FoldsAreSums, WalletSets DEF f
<1> QED BY <1>1, <1>2

\* What was asked for, or paid, and never came back; linked to the tenant or not.
Standing(d, b) ==
  {x \in Requests : d[x].st \in {"pending", "paid"} /\ ~d[x].back /\ d[x].linked = b}

\* It fits what the walks credited at their best, and so does the request under way with it.
Fitting(d, t, p) ==
  /\ \A b \in BOOLEAN : Total(AmountsOf(d), Standing(d, b)) <= Total(p, Served)
  /\ \A h \in Handlers : t[h].at = "request" =>
       t[h].amount + Total(AmountsOf(d), Standing(d, t[h].linked)) <= Total(p, Served)
Within == Fitting(wd, task, peak)

LEMMA AmountsAreNats ==
  ASSUME NEW d \in [Requests -> Wallet!Withdrawal], NEW X \in SUBSET Requests
  PROVE  /\ Total(AmountsOf(d), X) \in Nat /\ IsFiniteSet(X)
         /\ \A x \in Requests : AmountsOf(d)[x] = d[x].amount /\ d[x].amount \in Nat
<1>1. \A x \in Requests : AmountsOf(d)[x] = d[x].amount /\ d[x].amount \in Nat
  BY DEF AmountsOf, Wallet!Withdrawal
<1>2. IsFiniteSet(X) BY WalletSets, FS_Subset
<1> QED BY <1>1, <1>2, TotalIsNat

LEMMA PeaksAreNats == ASSUME NEW p \in [Served -> Nat] PROVE Total(p, Served) \in Nat
BY WalletSets, TotalIsNat

LEMMA PeaksGrow ==
  ASSUME NEW p \in [Served -> Nat], NEW q \in [Served -> Nat], \A w \in Served : p[w] <= q[w]
  PROVE  Total(p, Served) <= Total(q, Served)
BY WalletSets, TotalGrows

LEMMA AmountsShrink ==
  ASSUME NEW d \in [Requests -> Wallet!Withdrawal], NEW e \in [Requests -> Wallet!Withdrawal],
         NEW X \in SUBSET Requests, NEW Y \in SUBSET X, \A x \in Y : e[x].amount <= d[x].amount
  PROVE  Total(AmountsOf(e), Y) <= Total(AmountsOf(d), X)
<1>1. \A x \in X : AmountsOf(e)[x] \in Nat /\ AmountsOf(d)[x] \in Nat BY AmountsAreNats
<1>2. \A x \in Y : AmountsOf(e)[x] <= AmountsOf(d)[x] BY AmountsAreNats
<1>3. IsFiniteSet(X) BY AmountsAreNats
<1> QED BY <1>1, <1>2, <1>3, TotalGrows

\* A step that lets nothing new stand, and begins no request.
LEMMA FittingStays ==
  ASSUME NEW d \in [Requests -> Wallet!Withdrawal], NEW e \in [Requests -> Wallet!Withdrawal],
         NEW t \in [Handlers -> Wallet!Task], NEW u, NEW p \in [Served -> Nat],
         NEW q \in [Served -> Nat], Fitting(d, t, p), \A w \in Served : p[w] <= q[w],
         \A b \in BOOLEAN : \A x \in Standing(e, b) :
           x \in Standing(d, b) /\ e[x].amount = d[x].amount,
         \A h \in Handlers : u[h].at = "request" => u[h] = t[h]
  PROVE  Fitting(e, u, q)
<1>1. Total(p, Served) <= Total(q, Served) BY PeaksGrow
<1>2. ASSUME NEW b \in BOOLEAN
      PROVE  /\ Total(AmountsOf(e), Standing(e, b)) <= Total(AmountsOf(d), Standing(d, b))
             /\ Total(AmountsOf(e), Standing(e, b)) \in Nat
             /\ Total(AmountsOf(d), Standing(d, b)) \in Nat
  <2>1. Standing(d, b) \in SUBSET Requests /\ Standing(e, b) \in SUBSET Standing(d, b)
    BY DEF Standing
  <2>2. \A x \in Standing(e, b) : e[x].amount <= d[x].amount
    <3>1. \A x \in Requests : d[x].amount \in Nat BY DEF Wallet!Withdrawal
    <3> QED BY <2>1, <3>1
  <2> QED BY <2>1, <2>2, AmountsShrink, AmountsAreNats
<1>3. Total(p, Served) \in Nat /\ Total(q, Served) \in Nat BY PeaksAreNats
<1>4. \A h \in Handlers : t[h].amount \in Nat /\ t[h].linked \in BOOLEAN BY DEF Wallet!Task
<1>5. ASSUME NEW b \in BOOLEAN PROVE Total(AmountsOf(e), Standing(e, b)) <= Total(q, Served)
  <2>1. Total(AmountsOf(d), Standing(d, b)) <= Total(p, Served) BY DEF Fitting
  <2> QED BY <1>1, <1>2, <1>3, <2>1
<1>6. ASSUME NEW h \in Handlers, u[h].at = "request"
      PROVE  u[h].amount + Total(AmountsOf(e), Standing(e, u[h].linked)) <= Total(q, Served)
  <2>1. PICK b \in BOOLEAN : b = t[h].linked BY <1>4
  <2>2. u[h] = t[h] BY <1>6
  <2>3. t[h].amount + Total(AmountsOf(d), Standing(d, b)) <= Total(p, Served)
    BY <1>6, <2>1, <2>2 DEF Fitting
  <2>4. t[h].amount + Total(AmountsOf(e), Standing(e, b)) <= Total(q, Served)
    BY <1>1, <1>2, <1>3, <1>4, <2>3
  <2> QED BY <2>1, <2>2, <2>4
<1> QED BY <1>5, <1>6 DEF Fitting

\* The request under way is recorded; no other is.
LEMMA FittingRecords ==
  ASSUME NEW d \in [Requests -> Wallet!Withdrawal], NEW e \in [Requests -> Wallet!Withdrawal],
         NEW t \in [Handlers -> Wallet!Task], NEW u, NEW p \in [Served -> Nat],
         NEW q \in [Served -> Nat], Fitting(d, t, p), \A w \in Served : p[w] <= q[w],
         NEW h \in Handlers, NEW x \in Requests, t[h].at = "request", d[x].st = "none",
         e[x].amount = t[h].amount, e[x].linked = t[h].linked,
         \A y \in Requests : y # x => e[y] = d[y],
         \A g \in Handlers : u[g].at # "request"
  PROVE  Fitting(e, u, q)
<1>1. Total(p, Served) <= Total(q, Served) BY PeaksGrow
<1>2. Total(p, Served) \in Nat /\ Total(q, Served) \in Nat BY PeaksAreNats
<1>3. SUFFICES ASSUME NEW b \in BOOLEAN
               PROVE  Total(AmountsOf(e), Standing(e, b)) <= Total(q, Served)
  BY DEF Fitting
<1>4. Total(AmountsOf(d), Standing(d, b)) <= Total(p, Served) BY DEF Fitting
<1>5. PICK X, Y : X = Standing(d, b) /\ Y = Standing(e, b) OBVIOUS
<1>6. /\ X \in SUBSET Requests /\ Y \in SUBSET Requests /\ x \notin X
      /\ \A y \in Y : y # x => y \in X /\ e[y].amount = d[y].amount
  BY <1>5 DEF Standing
<1>7. \A y \in Requests : d[y].amount \in Nat /\ e[y].amount \in Nat BY DEF Wallet!Withdrawal
<1>8. Y \ {x} \in SUBSET X /\ \A y \in Y \ {x} : e[y].amount <= d[y].amount BY <1>6, <1>7
<1>9. Total(AmountsOf(e), Y \ {x}) <= Total(AmountsOf(d), X) BY <1>6, <1>8, AmountsShrink
<1>10. Total(AmountsOf(e), Y \ {x}) \in Nat /\ Total(AmountsOf(d), X) \in Nat
  BY <1>6, <1>8, AmountsAreNats
<1>11. CASE x \notin Y
  <2>1. Y \ {x} = Y BY <1>11
  <2>2. Total(AmountsOf(e), Y) <= Total(AmountsOf(d), X) /\ Total(AmountsOf(e), Y) \in Nat
    BY <1>9, <1>10, <2>1
  <2> QED BY <1>1, <1>2, <1>4, <1>5, <1>10, <2>2
<1>12. CASE x \in Y
  <2>1. b = t[h].linked BY <1>5, <1>12 DEF Standing
  <2>2. t[h].amount + Total(AmountsOf(d), X) <= Total(p, Served) BY <1>5, <2>1 DEF Fitting
  <2>3. AmountsOf(e)[x] = t[h].amount /\ IsFiniteSet(Y) /\ \A y \in Y : AmountsOf(e)[y] \in Nat
    BY <1>6, AmountsAreNats
  <2>4. Total(AmountsOf(e), Y) = t[h].amount + Total(AmountsOf(e), Y \ {x})
    BY <1>12, <2>3, TotalTakes
  <2>5. t[h].amount \in Nat BY <1>7
  <2> QED BY <1>1, <1>2, <1>5, <1>9, <1>10, <2>2, <2>4, <2>5
<1> QED BY <1>11, <1>12

\* A request begins with what is left.
LEMMA FittingBegins ==
  ASSUME NEW d \in [Requests -> Wallet!Withdrawal], NEW t \in [Handlers -> Wallet!Task],
         NEW u, NEW p \in [Served -> Nat], NEW q \in [Served -> Nat], Fitting(d, t, p),
         \A w \in Served : p[w] <= q[w], NEW h \in Handlers,
         u[h].amount + Total(AmountsOf(d), Standing(d, u[h].linked)) <= Total(q, Served),
         \A g \in Handlers : g # h => u[g] = t[g]
  PROVE  Fitting(d, u, q)
<1>1. Fitting(d, [g \in Handlers |-> IF g = h THEN [at |-> "idle"] ELSE u[g]], q)
  <2>1. PICK v : v = [g \in Handlers |-> IF g = h THEN [at |-> "idle"] ELSE u[g]] OBVIOUS
  <2>2. \A g \in Handlers : v[g].at = "request" => v[g] = t[g] BY <2>1
  <2>3. Fitting(d, v, q) BY <2>2, FittingStays
  <2> QED BY <2>1, <2>3
<1> QED BY <1>1 DEF Fitting

LEMMA WithinInit == ASSUME Wallet!Init PROVE Within
<1>1. /\ wd = [x \in Requests |-> Wallet!NoWd] /\ task = [h \in Handlers |-> Wallet!Idle]
      /\ peak = [w \in Served |-> 0]
  BY DEF Wallet!Init
<1>2. \A b \in BOOLEAN : Standing(wd, b) = {} BY <1>1 DEF Standing, Wallet!NoWd
<1>3. \A h \in Handlers : task[h].at # "request" BY <1>1 DEF Wallet!Idle
<1>4. Total(peak, Served) \in Nat
  <2>1. peak \in [Served -> Nat] BY <1>1
  <2> QED BY <2>1, PeaksAreNats
<1>5. Total(AmountsOf(wd), {}) = 0 BY TotalOfNone
<1>6. 0 <= Total(peak, Served) BY <1>4
<1>7. \A b \in BOOLEAN : Total(AmountsOf(wd), Standing(wd, b)) <= Total(peak, Served)
  BY <1>2, <1>5, <1>6, Zenon
<1> QED BY <1>3, <1>7 DEF Within, Fitting

\* What the code reads when a withdrawal is asked for leaves room for it.
LEMMA MayTakeFits ==
  ASSUME WalletInv, NEW a \in Nat, NEW b \in BOOLEAN, Wallet!MayTake(a, b),
         NEW q \in [Served -> Nat], \A w \in Served : Wallet!Credit(walk[w]) <= q[w]
  PROVE  a + Total(AmountsOf(wd), Standing(wd, b)) <= Total(q, Served)
<1>1. /\ wd \in [Requests -> Wallet!Withdrawal] /\ walk \in [Served -> Wallet!Walk]
  BY WalletTypes
<1> DEFINE all == {x \in Requests : Wallet!Deducts(x)}
           ours == {x \in Requests : Wallet!Deducts(x) /\ wd[x].linked}
           taken == IF b THEN ours ELSE all
           full == [w \in Served |-> Wallet!Credit(walk[w])]
           part1 == [w \in Served |-> Wallet!CreditOfTenant(walk[w])]
<1>2. taken \in SUBSET Requests /\ Standing(wd, b) \in SUBSET taken
  <2>1. ASSUME NEW x \in Standing(wd, b) PROVE x \in taken
    <3>1. x \in Requests /\ wd[x].st \in {"pending", "paid"} /\ wd[x].linked = b BY DEF Standing
    <3> QED BY <3>1 DEF Wallet!Deducts
  <2>2. ours \in SUBSET Requests /\ all \in SUBSET Requests OBVIOUS
  <2> HIDE DEF ours, all
  <2> QED BY <2>1, <2>2
<1>3. ASSUME NEW w \in Served
      PROVE  /\ Wallet!Credit(walk[w]) \in Nat /\ Wallet!CreditOfTenant(walk[w]) \in Nat
             /\ Wallet!CreditOfTenant(walk[w]) <= Wallet!Credit(walk[w])
  <2>1. walk[w] \in Wallet!Walk BY <1>1
  <2>2. Wallet!FromLedger(walk[w]) \in Nat /\ Wallet!FromSplit(walk[w]) \in Nat
    BY WalletAmounts DEF Wallet!FromLedger, Wallet!FromSplit
  <2>3. ~Wallet!HasSplit(walk[w]) => Wallet!FromSplit(walk[w]) = 0
    BY DEF Wallet!FromSplit, Wallet!HasSplit
  <2> QED BY <2>2, <2>3, WalletAmounts DEF Wallet!Credit, Wallet!CreditOfTenant
<1>4. full \in [Served -> Nat] /\ part1 \in [Served -> Nat] BY <1>3
<1>5. /\ \A w \in Served : full[w] <= q[w] /\ part1[w] <= full[w]
  BY <1>3
<1>6. Wallet!Earned = Total(full, Served) /\ Wallet!EarnedOfTenant = Total(part1, Served)
  BY EarnedIs
<1>7. Wallet!Taken(taken) = Total(AmountsOf(wd), taken) BY <1>2, TakenIs
<1>8. a + Wallet!Taken(taken) <= (IF b THEN Wallet!EarnedOfTenant ELSE Wallet!Earned)
  BY DEF Wallet!MayTake
<1> HIDE DEF full, part1, taken
<1>9. Total(full, Served) <= Total(q, Served) /\ Total(part1, Served) <= Total(full, Served)
  BY <1>4, <1>5, PeaksGrow
<1>10. Total(AmountsOf(wd), Standing(wd, b)) <= Total(AmountsOf(wd), taken)
  <2>1. \A x \in Standing(wd, b) : wd[x].amount <= wd[x].amount
    <3>1. \A x \in Requests : wd[x].amount \in Nat BY <1>1 DEF Wallet!Withdrawal
    <3> QED BY <3>1 DEF Standing
  <2> QED BY <1>1, <1>2, <2>1, AmountsShrink
<1>11. /\ Total(AmountsOf(wd), Standing(wd, b)) \in Nat /\ Total(AmountsOf(wd), taken) \in Nat
  <2>1. Standing(wd, b) \in SUBSET Requests BY DEF Standing
  <2> QED BY <1>1, <1>2, <2>1, AmountsAreNats
<1>12. /\ Total(full, Served) \in Nat /\ Total(part1, Served) \in Nat /\ Total(q, Served) \in Nat
  BY <1>4, PeaksAreNats
<1>13. a + Total(AmountsOf(wd), taken) <= Total(full, Served)
  BY <1>6, <1>7, <1>8, <1>9, <1>11, <1>12
<1> QED BY <1>9, <1>10, <1>11, <1>12, <1>13

\* A handler's steps but those of a request, and what staff and gateway do afterwards.
LEMMA NothingStandsAnew ==
  ASSUME WalletInv,
         \/ \E w \in Served : Wallet!OfWalk(w)
         \/ \E h \in Handlers : \/ \E x \in Requests : Wallet!BeginApprove(h, x)
                                \/ Wallet!Transfer(h) \/ Wallet!TransferFails(h)
                                \/ Wallet!AnswerLost(h) \/ Wallet!CommitApprove(h)
         \/ \E x \in Requests : Wallet!Reject(x) \/ Wallet!Bounce(x) \/ Wallet!TransferFailed(x)
  PROVE  /\ \A b \in BOOLEAN : \A y \in Standing(wd', b) :
              y \in Standing(wd, b) /\ wd'[y].amount = wd[y].amount
         /\ \A g \in Handlers : task'[g].at = "request" => task'[g] = task[g]
<1>1. /\ wd \in [Requests -> Wallet!Withdrawal] /\ task \in [Handlers -> Wallet!Task]
      /\ mail \subseteq Requests
  BY WalletTypes
<1>2. ASSUME wd' = wd
      PROVE  \A b \in BOOLEAN : \A y \in Standing(wd', b) :
              y \in Standing(wd, b) /\ wd'[y].amount = wd[y].amount
  BY <1>2
<1>3. ASSUME NEW x \in Requests, NEW r, wd' = [wd EXCEPT ![x] = r],
             r.amount = wd[x].amount, r.linked = wd[x].linked,
             r.st \in {"pending", "paid"} /\ ~r.back =>
               wd[x].st \in {"pending", "paid"} /\ ~wd[x].back
      PROVE  \A b \in BOOLEAN : \A y \in Standing(wd', b) :
              y \in Standing(wd, b) /\ wd'[y].amount = wd[y].amount
  <2>1. wd'[x] = r /\ \A y \in Requests : y # x => wd'[y] = wd[y] BY <1>1, <1>3
  <2> QED BY <1>3, <2>1 DEF Standing
<1>4. ASSUME NEW h \in Handlers, NEW t, task' = [task EXCEPT ![h] = t], t.at # "request"
      PROVE  \A g \in Handlers : task'[g].at = "request" => task'[g] = task[g]
  BY <1>1, <1>4
<1>5. Wallet!Idle.at = "idle" BY DEF Wallet!Idle
<1>6. CASE \E w \in Served : Wallet!OfWalk(w)
  <2>1. UNCHANGED <<wd, mail, task>> BY <1>6, WalletOfWalk
  <2> QED BY <1>2, <2>1
<1>7. ASSUME NEW h \in Handlers, NEW x \in Requests, Wallet!BeginApprove(h, x)
      PROVE  wd' = wd /\ \A g \in Handlers : task'[g].at = "request" => task'[g] = task[g]
  <2>1. PICK t : t = [Wallet!Idle EXCEPT !.at = "approve", !.x = x] OBVIOUS
  <2>2. t.at = "approve" BY <2>1 DEF Wallet!Idle
  <2>3. wd' = wd /\ task' = [task EXCEPT ![h] = t]
    BY <1>7, <2>1 DEF Wallet!BeginApprove, Wallet!Hold
  <2> QED BY <1>4, <2>2, <2>3
<1>8. ASSUME NEW h \in Handlers, \/ Wallet!Transfer(h) \/ Wallet!TransferFails(h)
                                 \/ Wallet!AnswerLost(h) \/ Wallet!CommitApprove(h)
      PROVE  /\ \A b \in BOOLEAN : \A y \in Standing(wd', b) :
                  y \in Standing(wd, b) /\ wd'[y].amount = wd[y].amount
             /\ \A g \in Handlers : task'[g].at = "request" => task'[g] = task[g]
  <2>1. Approving(h)
    BY <1>8 DEF Wallet!Transfer, Wallet!TransferFails, Wallet!AnswerLost, Wallet!CommitApprove,
       Approving
  <2>2. PICK x \in Requests : x = task[h].x BY <2>1, WalletApproving
  <2>3. wd[x].st # "none" /\ wd[x] \in Wallet!Withdrawal /\ task[h] \in Wallet!Task
    BY <1>1, <2>1, <2>2, WalletApproving
  <2>4. PICK d : d = wd[x] OBVIOUS
  <2>5. CASE Wallet!Transfer(h)
    <3>1. PICK r : r = [d EXCEPT !.sent = @ + 1] OBVIOUS
    <3>2. PICK t : t = [task[h] EXCEPT !.at = "sent"] OBVIOUS
    <3>3. wd' = [wd EXCEPT ![x] = r] /\ task' = [task EXCEPT ![h] = t]
      <4>1. wd' = [wd EXCEPT ![x].sent = @ + 1] BY <2>2, <2>5 DEF Wallet!Transfer
      <4> QED BY <2>4, <2>5, <3>1, <3>2, <4>1 DEF Wallet!Transfer, Wallet!Hold
    <3>4. r.amount = d.amount /\ r.linked = d.linked /\ r.st = d.st /\ r.back = d.back
      BY <2>3, <2>4, <3>1 DEF Wallet!Withdrawal
    <3>5. t.at = "sent" BY <2>3, <3>2 DEF Wallet!Task
    <3> QED BY <1>3, <1>4, <2>4, <3>3, <3>4, <3>5
  <2>6. CASE Wallet!TransferFails(h)
    <3>1. wd' = wd /\ task' = [task EXCEPT ![h] = Wallet!Idle]
      BY <2>6 DEF Wallet!TransferFails, Wallet!Free, Wallet!Hold
    <3> QED BY <1>2, <1>4, <1>5, <3>1
  <2>7. CASE Wallet!AnswerLost(h)
    <3>1. PICK r : r = [d EXCEPT !.lost = @ + 1] OBVIOUS
    <3>2. wd' = [wd EXCEPT ![x] = r] /\ task' = [task EXCEPT ![h] = Wallet!Idle]
      <4>1. wd' = [wd EXCEPT ![x].lost = @ + 1] BY <2>2, <2>7 DEF Wallet!AnswerLost
      <4> QED BY <2>4, <2>7, <3>1, <4>1 DEF Wallet!AnswerLost, Wallet!Free, Wallet!Hold
    <3>3. r.amount = d.amount /\ r.linked = d.linked /\ r.st = d.st /\ r.back = d.back
      BY <2>3, <2>4, <3>1 DEF Wallet!Withdrawal
    <3> QED BY <1>3, <1>4, <1>5, <2>4, <3>2, <3>3
  <2>8. CASE Wallet!CommitApprove(h)
    <3>1. PICK r : r = Wallet!Pays(d, task[h].at = "sent") OBVIOUS
    <3>2. wd' = [wd EXCEPT ![x] = r] /\ task' = [task EXCEPT ![h] = Wallet!Idle]
      <4>1. wd' = [wd EXCEPT ![x] = Wallet!Pays(@, task[h].at = "sent")]
        BY <2>2, <2>8 DEF Wallet!CommitApprove
      <4> QED BY <2>4, <2>8, <3>1, <4>1 DEF Wallet!CommitApprove, Wallet!Free, Wallet!Hold
    <3>3. r.amount = d.amount /\ r.linked = d.linked /\ (~r.back => ~d.back /\ d.st # "rejected")
      <4>1. PICK a : a = (d.ref \/ task[h].at = "sent") OBVIOUS
      <4>2. PICK b : b = (d.back \/ d.st = "rejected") OBVIOUS
      <4>3. r = [d EXCEPT !.st = "paid", !.ref = a, !.back = b]
        BY <3>1, <4>1, <4>2 DEF Wallet!Pays
      <4>4. r.amount = d.amount /\ r.linked = d.linked /\ r.back = b
        BY <2>3, <2>4, <4>3 DEF Wallet!Withdrawal
      <4> QED BY <4>2, <4>4
    <3>4. ~r.back => d.st \in {"pending", "paid"} /\ ~d.back
      BY <2>3, <2>4, <3>3 DEF Wallet!Withdrawal, Wallet!WdAt
    <3> QED BY <1>3, <1>4, <1>5, <2>4, <3>2, <3>3, <3>4
  <2> QED BY <1>8, <2>5, <2>6, <2>7, <2>8
<1>9. ASSUME NEW x \in Requests, Wallet!Reject(x) \/ Wallet!Bounce(x) \/ Wallet!TransferFailed(x)
      PROVE  /\ \A b \in BOOLEAN : \A y \in Standing(wd', b) :
                  y \in Standing(wd, b) /\ wd'[y].amount = wd[y].amount
             /\ \A g \in Handlers : task'[g].at = "request" => task'[g] = task[g]
  <2>1. task' = task BY <1>9 DEF Wallet!Reject, Wallet!Bounce, Wallet!TransferFailed
  <2>2. PICK d : d = wd[x] OBVIOUS
  <2>3. d \in Wallet!Withdrawal BY <1>1, <2>2
  <2>4. CASE Wallet!Reject(x)
    <3>1. PICK r : r = [d EXCEPT !.st = "rejected"] OBVIOUS
    <3>2. wd' = [wd EXCEPT ![x] = r] BY <2>2, <2>4, <3>1 DEF Wallet!Reject
    <3>3. r.amount = d.amount /\ r.linked = d.linked /\ r.st = "rejected"
      BY <2>3, <3>1 DEF Wallet!Withdrawal
    <3> QED BY <1>3, <2>1, <2>2, <3>2, <3>3
  <2>5. CASE Wallet!Bounce(x)
    <3>1. wd' = wd BY <2>5 DEF Wallet!Bounce
    <3> QED BY <1>2, <2>1, <3>1
  <2>6. CASE Wallet!TransferFailed(x)
    <3>1. PICK b : b = (d.back \/ d.st = "rejected") OBVIOUS
    <3>2. PICK r : r = [d EXCEPT !.st = "pending", !.back = b] OBVIOUS
    <3>3. wd' = [wd EXCEPT ![x] = r]
      <4>1. wd' = [wd EXCEPT ![x].st = "pending", ![x].back = @ \/ wd[x].st = "rejected"]
        BY <2>6 DEF Wallet!TransferFailed
      <4>2. [wd EXCEPT ![x].st = "pending", ![x].back = @ \/ wd[x].st = "rejected"]
              = [wd EXCEPT ![x] = r]
        BY <1>1, <2>2, <2>3, <3>1, <3>2 DEF Wallet!Withdrawal
      <4> QED BY <4>1, <4>2
    <3>4. r.amount = d.amount /\ r.linked = d.linked /\ r.back = b
      BY <2>3, <3>2 DEF Wallet!Withdrawal
    <3>5. d.st # "none" BY <2>2, <2>6 DEF Wallet!TransferFailed, WalletInv, Locked
    <3>6. ~r.back => d.st \in {"pending", "paid"} /\ ~d.back
      <4>1. ~r.back => ~d.back /\ d.st # "rejected" BY <3>1, <3>4
      <4> QED BY <2>3, <3>5, <4>1 DEF Wallet!Withdrawal, Wallet!WdAt
    <3> QED BY <1>3, <2>1, <2>2, <3>3, <3>4, <3>6
  <2> QED BY <1>9, <2>4, <2>5, <2>6
<1> QED BY <1>2, <1>6, <1>7, <1>8, <1>9

LEMMA WithinNext ==
  ASSUME WalletInv, WalletInv', Within, [Wallet!Next]_OfWallet
  PROVE  Within'
<1>1. /\ wd \in [Requests -> Wallet!Withdrawal] /\ wd' \in [Requests -> Wallet!Withdrawal]
      /\ task \in [Handlers -> Wallet!Task] /\ task' \in [Handlers -> Wallet!Task]
      /\ peak \in [Served -> Nat] /\ peak' \in [Served -> Nat]
      /\ walk \in [Served -> Wallet!Walk] /\ walk' \in [Served -> Wallet!Walk]
  BY DEF WalletInv, Wallet!TypeOK
<1>2. Fitting(wd, task, peak) BY DEF Within
<1>3. SUFFICES Fitting(wd', task', peak') BY DEF Within
<1>4. CASE UNCHANGED OfWallet BY <1>2, <1>4 DEF OfWallet
<1>5. CASE Wallet!Next
  <2>1. ASSUME NEW w \in Served
        PROVE  peak[w] <= peak'[w] /\ Wallet!Credit(walk'[w]) <= peak'[w]
    <3>1. peak'[w] = Wallet!Larger(peak[w], Wallet!Credit(walk'[w])) BY <1>5 DEF Wallet!Next
    <3>2. peak[w] \in Nat /\ Wallet!Credit(walk'[w]) \in Nat BY <1>1, CreditIsNat
    <3> QED BY <3>1, <3>2 DEF Wallet!Larger
  <2>2. CASE \E h \in Handlers : \E x \in Requests : \E a \in 1 .. Price : \E b \in BOOLEAN :
               Wallet!BeginRequest(h, x, a, b)
    <3>1. PICK h \in Handlers, x \in Requests, a \in 1 .. Price, b \in BOOLEAN :
            Wallet!BeginRequest(h, x, a, b)
      BY <2>2
    <3>2. PICK t : t = [at |-> "request", x |-> x, amount |-> a, linked |-> b] OBVIOUS
    <3>3. /\ wd' = wd /\ walk' = walk /\ task' = [task EXCEPT ![h] = t] /\ Wallet!MayTake(a, b)
      BY <3>1, <3>2 DEF Wallet!BeginRequest, Wallet!Hold
    <3>4. t.amount = a /\ t.linked = b /\ a \in Nat BY <3>2, WalletAmounts
    <3>5. task'[h] = t /\ \A g \in Handlers : g # h => task'[g] = task[g] BY <1>1, <3>3
    <3>6. \A w \in Served : Wallet!Credit(walk[w]) <= peak'[w] BY <2>1, <3>3
    <3>7. a + Total(AmountsOf(wd), Standing(wd, b)) <= Total(peak', Served)
      BY <1>1, <3>3, <3>4, <3>6, MayTakeFits
    <3>8. task'[h].amount + Total(AmountsOf(wd), Standing(wd, task'[h].linked))
            <= Total(peak', Served)
      BY <3>4, <3>5, <3>7
    <3>9. Fitting(wd, task', peak') BY <1>1, <1>2, <2>1, <3>5, <3>8, FittingBegins
    <3> QED BY <3>3, <3>9
  <2>3. CASE \E h \in Handlers : Wallet!CommitRequest(h)
    <3>1. PICK h \in Handlers : Wallet!CommitRequest(h) BY <2>3
    <3>2. task[h].at = "request" BY <3>1 DEF Wallet!CommitRequest
    <3>3. PICK x \in Requests : x = task[h].x BY <3>2 DEF WalletInv, Locked
    <3>4. PICK r : r = [Wallet!NoWd EXCEPT !.st = "pending", !.amount = task[h].amount,
                                           !.linked = task[h].linked]
      OBVIOUS
    <3>5. wd' = [wd EXCEPT ![x] = r] /\ task' = [task EXCEPT ![h] = Wallet!Idle]
      BY <3>1, <3>3, <3>4 DEF Wallet!CommitRequest, Wallet!Free, Wallet!Hold
    <3>6. wd'[x] = r /\ \A y \in Requests : y # x => wd'[y] = wd[y] BY <1>1, <3>5
    <3>7. r.amount = task[h].amount /\ r.linked = task[h].linked BY <3>4 DEF Wallet!NoWd
    <3>8. wd[x].st = "none" BY <3>2, <3>3 DEF WalletInv, Locked
    <3>9. \A g \in Handlers : task'[g].at # "request"
      <4>1. \A g \in Handlers : g # h => task[g].at # "request"
        BY <3>2 DEF WalletInv, Locked
      <4>2. Wallet!Idle.at # "request" BY DEF Wallet!Idle
      <4> QED BY <1>1, <3>5, <4>1, <4>2
    <3> QED BY <1>1, <1>2, <2>1, <3>2, <3>6, <3>7, <3>8, <3>9, FittingRecords
  <2>4. ASSUME \/ \E w \in Served : Wallet!OfWalk(w)
               \/ \E h \in Handlers : \/ \E x \in Requests : Wallet!BeginApprove(h, x)
                                      \/ Wallet!Transfer(h) \/ Wallet!TransferFails(h)
                                      \/ Wallet!AnswerLost(h) \/ Wallet!CommitApprove(h)
               \/ \E x \in Requests :
                    Wallet!Reject(x) \/ Wallet!Bounce(x) \/ Wallet!TransferFailed(x)
        PROVE  Fitting(wd', task', peak')
    <3>1. /\ \A b \in BOOLEAN : \A y \in Standing(wd', b) :
                y \in Standing(wd, b) /\ wd'[y].amount = wd[y].amount
          /\ \A g \in Handlers : task'[g].at = "request" => task'[g] = task[g]
      BY <2>4, NothingStandsAnew
    <3> QED BY <1>1, <1>2, <2>1, <3>1, FittingStays
  <2> QED BY <1>5, <2>2, <2>3, <2>4 DEF Wallet!Next, Wallet!OfHandler
<1> QED BY <1>4, <1>5

\* All that counts is linked, or nothing is: of either kind what stands fits.
LEMMA WithinFollows == ASSUME WalletInv, Within PROVE Wallet!NeverOverdrawn
<1> DEFINE counts == {x \in Requests : wd[x].st \in {"pending", "paid"}}
           linked == {x \in counts : wd[x].linked}
           stand  == {x \in counts : ~wd[x].back}
<1>1. \A x \in Requests : wd[x].linked \in BOOLEAN BY WalletTypes DEF Wallet!Withdrawal
<1>2. linked = {} => stand = Standing(wd, FALSE) BY <1>1 DEF Standing
<1>3. linked = counts => stand = Standing(wd, TRUE) BY <1>1 DEF Standing
<1>4. stand \in SUBSET Requests OBVIOUS
<1> HIDE DEF linked, counts, stand
<1>5. Wallet!Taken(stand) = Total(AmountsOf(wd), stand) BY <1>4, TakenIs
<1>6. linked = {} \/ linked = counts => Total(AmountsOf(wd), stand) <= Total(peak, Served)
  BY <1>2, <1>3 DEF Within, Fitting
<1>7. Wallet!MapThenSumSet(LAMBDA w : peak[w], Served) = Total(peak, Served) BY DEF Total
<1>8. linked = {} \/ linked = counts =>
        Wallet!Taken(stand) <= Wallet!MapThenSumSet(LAMBDA w : peak[w], Served)
  BY <1>5, <1>6, <1>7
<1> QED BY <1>8 DEF Wallet!NeverOverdrawn, linked, counts, stand

----------------------------------------------------------------------------
(* Commission billing *)

\* What a run read is of its month, and has been nobody else's if the month is not
\* raced.
RunFits(h) ==
  run[h].at # "idle" =>
    /\ \A r \in run[h].rows : entry[r].st # "none" /\ entry[r].month = run[h].month
    /\ run[h].month \notin raced =>
         /\ \A g \in Handlers : run[g].at # "idle" /\ run[g].month = run[h].month => g = h
         /\ \A r \in run[h].rows : entry[r].charge = 0

\* The charge a run has made is of its rows, and no row is under it yet.
Charging(h) ==
  /\ run[h].at = "read" => Commission!Positive(run[h].rows)
  /\ run[h].at # "charged" => run[h].charge = 0
  /\ run[h].at = "charged" =>
       /\ run[h].charge \in DOMAIN charge /\ charge[run[h].charge].rows = run[h].rows
       /\ \A r \in Commission!Rows : entry[r].charge # run[h].charge
       /\ \A g \in Handlers : run[g].charge = run[h].charge => g = h

\* A row says it is billed, or paid, under a charge it is in.
RowFits(r) ==
  /\ entry[r].charge # 0 => /\ entry[r].charge \in DOMAIN charge
                            /\ r \in charge[entry[r].charge].rows
  /\ entry[r].st \in {"billed", "paid"} <=> entry[r].charge # 0
  /\ entry[r].st = "paid" => charge[entry[r].charge].paid

CommissionInv ==
  /\ Commission!TypeOK
  /\ \A w \in Commissioned : entry[<<w, "walk">>].month \in Commission!Months
  /\ \A h \in Handlers : RunFits(h) /\ Charging(h)
  /\ \A r \in Commission!Rows : RowFits(r)
  /\ \A c \in DOMAIN charge : \A r \in charge[c].rows : entry[r].st # "none"
  /\ Commission!ChargesMatchEntries /\ Commission!ReversedIsSettled

LEMMA CommissionCounts ==
  /\ MaxPeriod \in Nat \ {0} /\ MaxCharges \in Nat
  /\ \A S : Commission!Cardinality(S) = Cardinality(S)
  /\ \A R \in SUBSET Commission!Rows :
       /\ Cardinality(Commission!Plain(R)) \in Nat
       /\ Cardinality(Commission!Credits(R)) \in Nat
<1>1. /\ MaxPeriod \in Nat \ {0} /\ MaxCharges \in Nat /\ Commission!IsFiniteSet(Commissioned)
  BY CommissionParameters DEF Commission!BillingBounds, Commission!WalksAreFinite
<1>2. \A S : Commission!Cardinality(S) = Cardinality(S)
  BY DEF Commission!Cardinality, Cardinality, Commission!IsFiniteSet, IsFiniteSet
<1>3. IsFiniteSet(Commissioned) BY <1>1 DEF Commission!IsFiniteSet, IsFiniteSet
<1>4. IsFiniteSet(Commission!Rows)
  <2>1. IsFiniteSet({"walk", "credit"})
    <3>1. IsFiniteSet({"walk"} \cup {"credit"}) BY FS_Singleton, FS_AddElement
    <3>2. {"walk"} \cup {"credit"} = {"walk", "credit"} OBVIOUS
    <3> QED BY <3>1, <3>2
  <2> QED BY <1>3, <2>1, FS_Product DEF Commission!Rows, Commission!Kinds
<1>5. ASSUME NEW R \in SUBSET Commission!Rows
      PROVE  /\ Cardinality(Commission!Plain(R)) \in Nat
             /\ Cardinality(Commission!Credits(R)) \in Nat
  <2>1. Commission!Plain(R) \subseteq Commission!Rows /\ Commission!Credits(R) \subseteq Commission!Rows
    BY DEF Commission!Plain, Commission!Credits
  <2> QED BY <1>4, <2>1, FS_Subset, FS_CardinalityType
<1> QED BY <1>1, <1>2, <1>5

LEMMA CommissionTypes ==
  ASSUME CommissionInv
  PROVE  /\ entry \in [Commission!Rows -> Commission!Entry]
         /\ charge \in Seq(Commission!Charge) /\ Len(charge) \in Nat /\ Len(charge) <= MaxCharges
         /\ DOMAIN charge = 1 .. Len(charge) /\ DOMAIN charge \subseteq Commission!Charges
         /\ \A c \in DOMAIN charge : charge[c] \in Commission!Charge
         /\ run \in [Handlers -> Commission!Run]
         /\ reversed \subseteq Commissioned /\ overtaken \subseteq Commission!Rows
         /\ raced \subseteq Commission!Months
         /\ Commission!Idle \in Commission!Run /\ Commission!Idle.at = "idle"
         /\ Commission!Idle.charge = 0
         /\ Commission!NoEntry \in Commission!Entry /\ Commission!NoEntry.charge = 0
         /\ Commission!NoEntry.st = "none" /\ Commission!NoEntry.month = 1
<1>1. Commission!TypeOK BY DEF CommissionInv
<1>2. /\ 1 \in Commission!Months /\ 1 \in Commission!Months \cup {MaxPeriod + 1}
      /\ 0 \in Commission!Charges \cup {0} /\ {} \in SUBSET Commission!Rows
  BY CommissionCounts DEF Commission!Months
<1>3. /\ Commission!Idle \in Commission!Run /\ Commission!Idle.at = "idle"
      /\ Commission!Idle.charge = 0
  BY <1>2 DEF Commission!Idle, Commission!Run
<1>4. /\ Commission!NoEntry \in Commission!Entry /\ Commission!NoEntry.charge = 0
      /\ Commission!NoEntry.st = "none" /\ Commission!NoEntry.month = 1
  BY <1>2 DEF Commission!NoEntry, Commission!Entry, Commission!Status
<1>5. /\ charge \in Seq(Commission!Charge) /\ Len(charge) \in Nat /\ Len(charge) <= MaxCharges
      /\ DOMAIN charge = 1 .. Len(charge)
      /\ \A c \in DOMAIN charge : charge[c] \in Commission!Charge
  BY <1>1, SeqFacts DEF Commission!TypeOK
<1>6. DOMAIN charge \subseteq Commission!Charges
  BY <1>5, CommissionCounts DEF Commission!Charges
<1> QED BY <1>1, <1>3, <1>4, <1>5, <1>6 DEF Commission!TypeOK

LEMMA CommissionInit == ASSUME Commission!Init PROVE CommissionInv
<1>1. /\ entry = [r \in Commission!Rows |-> Commission!NoEntry] /\ charge = <<>>
      /\ run = [h \in Handlers |-> Commission!Idle] /\ reversed = {} /\ overtaken = {} /\ raced = {}
  BY DEF Commission!Init
<1>2. 1 \in Commission!Months BY CommissionCounts DEF Commission!Months
<1>3. /\ Commission!Idle \in Commission!Run /\ Commission!Idle.at = "idle"
      /\ Commission!Idle.charge = 0
      /\ Commission!NoEntry \in Commission!Entry /\ Commission!NoEntry.charge = 0
      /\ Commission!NoEntry.st = "none" /\ Commission!NoEntry.month = 1
  BY <1>2
     DEF Commission!Idle, Commission!Run, Commission!NoEntry, Commission!Entry,
         Commission!Status
<1>4. charge \in Seq(Commission!Charge) /\ Len(charge) = 0 /\ DOMAIN charge = {} BY <1>1
<1>5. Commission!TypeOK BY <1>1, <1>3, <1>4, CommissionCounts DEF Commission!TypeOK
<1>6. \A w \in Commissioned : entry[<<w, "walk">>].month \in Commission!Months
  BY <1>1, <1>2, <1>3 DEF Commission!Rows, Commission!Kinds
<1>7. \A h \in Handlers : RunFits(h) /\ Charging(h) BY <1>1, <1>3 DEF RunFits, Charging
<1>8. \A r \in Commission!Rows : RowFits(r) BY <1>1, <1>3 DEF RowFits
<1> QED BY <1>1, <1>4, <1>5, <1>6, <1>7, <1>8
   DEF CommissionInv, Commission!ChargesMatchEntries, Commission!ReversedIsSettled

\* A step of the rows that leaves charges and runs alone.
LEMMA CommissionOfRows ==
  ASSUME CommissionInv, UNCHANGED <<charge, run, overtaken, raced>>,
         entry' \in [Commission!Rows -> Commission!Entry], reversed' \subseteq Commissioned,
         \A w \in Commissioned : entry'[<<w, "walk">>].month \in Commission!Months,
         \A r \in Commission!Rows :
           /\ entry'[r].charge = entry[r].charge
           /\ entry[r].st # "none" => entry'[r].st # "none" /\ entry'[r].month = entry[r].month
           /\ RowFits(r)',
         Commission!ReversedIsSettled'
  PROVE  CommissionInv'
<1>1. Commission!TypeOK' BY DEF CommissionInv, Commission!TypeOK
<1>2. ASSUME NEW h \in Handlers PROVE RunFits(h)' /\ Charging(h)'
  <2>1. RunFits(h) /\ Charging(h) BY DEF CommissionInv
  <2>2. run[h].rows \subseteq Commission!Rows BY CommissionTypes DEF Commission!Run
  <2>3. RunFits(h)' BY <2>1, <2>2 DEF RunFits
  <2>4. Charging(h)'
    BY <2>1 DEF Charging, Commission!Positive, Commission!Plain, Commission!Credits
  <2> QED BY <2>3, <2>4
<1>3. \A c \in DOMAIN charge' : \A r \in charge'[c].rows : entry'[r].st # "none"
  <2> SUFFICES ASSUME NEW c \in DOMAIN charge, NEW r \in charge[c].rows
               PROVE  entry'[r].st # "none"
    OBVIOUS
  <2>1. r \in Commission!Rows BY CommissionTypes DEF Commission!Charge
  <2> QED BY <2>1 DEF CommissionInv
<1>4. Commission!ChargesMatchEntries'
  <2> SUFFICES ASSUME NEW c \in DOMAIN charge
               PROVE  \/ ~charge[c].known \/ \E h \in Handlers : run[h].charge = c
                      \/ \E r \in charge[c].rows : entry'[r].month \in raced
                      \/ charge[c].rows = {r \in Commission!Rows : entry'[r].charge = c}
    BY DEF Commission!ChargesMatchEntries
  <2>1. {r \in Commission!Rows : entry'[r].charge = c} = {r \in Commission!Rows : entry[r].charge = c}
    OBVIOUS
  <2>2. \A r \in charge[c].rows : entry'[r].month = entry[r].month
    <3>1. \A r \in charge[c].rows : r \in Commission!Rows
      BY CommissionTypes DEF Commission!Charge
    <3> QED BY <3>1 DEF CommissionInv
  <2> QED BY <2>1, <2>2 DEF CommissionInv, Commission!ChargesMatchEntries
<1> QED BY <1>1, <1>2, <1>3, <1>4 DEF CommissionInv

LEMMA RowOfWalk ==
  ASSUME NEW w \in Commissioned
  PROVE  <<w, "walk">> \in Commission!Rows /\ <<w, "credit">> \in Commission!Rows
BY DEF Commission!Rows, Commission!Kinds

LEMMA CommissionAccrues ==
  ASSUME CommissionInv, NEW w \in Commissioned, NEW m \in Commission!Months, Commission!Accrue(w, m)
  PROVE  CommissionInv'
<1> DEFINE e == [Commission!NoEntry EXCEPT !.st = "accrued", !.month = m]
           q == <<w, "walk">>
<1>1. /\ entry[q].st = "none" /\ entry' = [entry EXCEPT ![q] = e]
      /\ UNCHANGED <<charge, run, reversed, overtaken, raced>>
  BY DEF Commission!Accrue
<1>2. e \in Commission!Entry /\ e.charge = 0 /\ e.st = "accrued" /\ e.month = m
  BY CommissionTypes DEF Commission!Entry, Commission!Status
<1>3. q \in Commission!Rows BY RowOfWalk
<1> HIDE DEF e
<1>4. /\ entry' \in [Commission!Rows -> Commission!Entry] /\ entry'[q] = e
      /\ \A r \in Commission!Rows : r # q => entry'[r] = entry[r]
  BY <1>1, <1>2, <1>3, CommissionTypes
<1>5. entry[q].charge = 0 BY <1>1, <1>3 DEF CommissionInv, RowFits
<1>6. \A r \in Commission!Rows : RowFits(r)'
  BY <1>1, <1>2, <1>4 DEF CommissionInv, RowFits
<1>7. \A v \in Commissioned : entry'[<<v, "walk">>].month \in Commission!Months
  BY <1>2, <1>4, RowOfWalk DEF CommissionInv
<1>8. Commission!ReversedIsSettled'
  <2> SUFFICES ASSUME NEW v \in reversed
               PROVE  \/ entry'[<<v, "walk">>].st = "void" \/ entry'[<<v, "credit">>].st # "none"
                      \/ <<v, "walk">> \in overtaken
    BY <1>1 DEF Commission!ReversedIsSettled
  <2>1. v \in Commissioned BY CommissionTypes
  <2>2. /\ <<v, "walk">> = q => entry[<<v, "walk">>].st # "void"
        /\ <<v, "credit">> # q
    BY <1>1
  <2> QED BY <1>4, <2>1, <2>2, RowOfWalk DEF CommissionInv, Commission!ReversedIsSettled
<1> QED BY <1>1, <1>2, <1>4, <1>5, <1>6, <1>7, <1>8, CommissionOfRows, CommissionTypes

LEMMA CommissionReverses ==
  ASSUME CommissionInv, NEW w \in Commissioned, Commission!Reverse(w)
  PROVE  CommissionInv'
<1> DEFINE q == <<w, "walk">>
           k == <<w, "credit">>
<1>1. /\ reversed' = reversed \cup {w} /\ UNCHANGED <<charge, run, overtaken, raced>>
      /\ q \in Commission!Rows /\ k \in Commission!Rows /\ q # k
      /\ entry[q] \in Commission!Entry /\ entry[q].month \in Commission!Months
      /\ RowFits(q) /\ RowFits(k)
  BY RowOfWalk, CommissionTypes DEF Commission!Reverse, CommissionInv
<1>2. reversed' \subseteq Commissioned BY <1>1, CommissionTypes
<1>3. CASE entry[q].st = "accrued" /\ entry' = [entry EXCEPT ![q].st = "void"]
  <2> DEFINE e == [entry[q] EXCEPT !.st = "void"]
  <2>1. entry' = [entry EXCEPT ![q] = e] BY <1>3
  <2>2. /\ e \in Commission!Entry /\ e.st = "void" /\ e.charge = entry[q].charge
        /\ e.month = entry[q].month
    BY <1>1 DEF Commission!Entry, Commission!Status
  <2> HIDE DEF e
  <2>3. /\ entry' \in [Commission!Rows -> Commission!Entry] /\ entry'[q] = e
        /\ \A r \in Commission!Rows : r # q => entry'[r] = entry[r]
    BY <1>1, <2>1, <2>2, CommissionTypes
  <2>4. \A r \in Commission!Rows : RowFits(r)'
    BY <1>1, <1>3, <2>2, <2>3 DEF CommissionInv, RowFits
  <2>5. \A v \in Commissioned : entry'[<<v, "walk">>].month \in Commission!Months
    BY <1>1, <2>2, <2>3, RowOfWalk DEF CommissionInv
  <2>6. Commission!ReversedIsSettled'
    <3> SUFFICES ASSUME NEW v \in reversed \cup {w}
                 PROVE  \/ entry'[<<v, "walk">>].st = "void" \/ entry'[<<v, "credit">>].st # "none"
                        \/ <<v, "walk">> \in overtaken
      BY <1>1 DEF Commission!ReversedIsSettled
    <3>1. CASE v = w BY <2>2, <2>3, <3>1
    <3>2. CASE v # w
      <4>1. v \in Commissioned /\ v \in reversed BY <3>2, CommissionTypes
      <4>2. <<v, "walk">> # q /\ <<v, "credit">> # q BY <3>2
      <4> QED BY <2>3, <4>1, <4>2, RowOfWalk DEF CommissionInv, Commission!ReversedIsSettled
    <3> QED BY <3>1, <3>2
  <2> QED BY <1>1, <1>2, <2>2, <2>3, <2>4, <2>5, <2>6, CommissionOfRows
<1>4. CASE /\ entry[q].st \in {"billed", "paid"} /\ entry[k].st = "none"
           /\ entry' = [entry EXCEPT ![k] = Commission!Credited(w)]
  <2> DEFINE e == Commission!Credited(w)
  <2>1. /\ e \in Commission!Entry /\ e.st = "accrued" /\ e.charge = 0
    <3>1. entry[q].month + 1 \in Commission!Months \cup {MaxPeriod + 1}
      BY <1>1, CommissionCounts DEF Commission!Months
    <3> QED
      BY <3>1, CommissionTypes DEF Commission!Credited, Commission!Entry, Commission!Status
  <2> HIDE DEF e
  <2>2. /\ entry' \in [Commission!Rows -> Commission!Entry] /\ entry'[k] = e
        /\ \A r \in Commission!Rows : r # k => entry'[r] = entry[r]
    BY <1>1, <1>4, <2>1, CommissionTypes DEF e
  <2>3. entry[k].charge = 0 BY <1>1, <1>4 DEF RowFits
  <2>4. \A r \in Commission!Rows : RowFits(r)'
    BY <1>1, <1>4, <2>1, <2>2 DEF CommissionInv, RowFits
  <2>5. \A v \in Commissioned : entry'[<<v, "walk">>].month \in Commission!Months
    <3>1. \A v \in Commissioned : <<v, "walk">> # k OBVIOUS
    <3> QED BY <2>2, <3>1, RowOfWalk DEF CommissionInv
  <2>6. Commission!ReversedIsSettled'
    <3> SUFFICES ASSUME NEW v \in reversed \cup {w}
                 PROVE  \/ entry'[<<v, "walk">>].st = "void" \/ entry'[<<v, "credit">>].st # "none"
                        \/ <<v, "walk">> \in overtaken
      BY <1>1 DEF Commission!ReversedIsSettled
    <3>1. CASE v = w BY <2>1, <2>2, <3>1
    <3>2. CASE v # w
      <4>1. v \in Commissioned /\ v \in reversed BY <3>2, CommissionTypes
      <4>2. <<v, "walk">> # k /\ <<v, "credit">> # k BY <3>2
      <4> QED BY <2>2, <4>1, <4>2, RowOfWalk DEF CommissionInv, Commission!ReversedIsSettled
    <3> QED BY <3>1, <3>2
  <2> QED BY <1>1, <1>2, <1>4, <2>1, <2>2, <2>3, <2>4, <2>5, <2>6, CommissionOfRows
<1> QED BY <1>3, <1>4 DEF Commission!Reverse

LEMMA CommissionMarks ==
  ASSUME CommissionInv, NEW c \in Commission!Charges, Commission!MarkPaid(c)
  PROVE  CommissionInv'
<1>1. /\ c \in DOMAIN charge /\ charge[c].paid
      /\ entry' = [r \in Commission!Rows |-> IF r \in Commission!Marks(c)
                      THEN [entry[r] EXCEPT !.st = "paid"] ELSE entry[r]]
      /\ UNCHANGED <<charge, run, reversed, overtaken, raced>>
  BY DEF Commission!MarkPaid
<1>2. ASSUME NEW r \in Commission!Rows
      PROVE  /\ entry'[r] \in Commission!Entry /\ entry'[r].charge = entry[r].charge
             /\ entry'[r].month = entry[r].month
             /\ \/ entry'[r].st = entry[r].st
                \/ entry[r].st = "billed" /\ entry'[r].st = "paid" /\ entry[r].charge = c
  <2>1. entry[r] \in Commission!Entry BY CommissionTypes
  <2> QED BY <1>1, <2>1 DEF Commission!Entry, Commission!Status, Commission!Marks
<1>3. entry' \in [Commission!Rows -> Commission!Entry] BY <1>1, <1>2
<1>4. ASSUME NEW r \in Commission!Rows PROVE RowFits(r)'
  <2>1. RowFits(r) BY DEF CommissionInv
  <2> QED BY <1>1, <1>2, <2>1 DEF RowFits
<1>5. \A v \in Commissioned : entry'[<<v, "walk">>].month \in Commission!Months
  BY <1>2, RowOfWalk DEF CommissionInv
<1>6. Commission!ReversedIsSettled'
  <2> SUFFICES ASSUME NEW v \in reversed
               PROVE  \/ entry'[<<v, "walk">>].st = "void" \/ entry'[<<v, "credit">>].st # "none"
                      \/ <<v, "walk">> \in overtaken
    BY <1>1 DEF Commission!ReversedIsSettled
  <2>1. v \in Commissioned BY CommissionTypes
  <2> QED BY <1>2, <2>1, RowOfWalk DEF CommissionInv, Commission!ReversedIsSettled
<1> QED BY <1>1, <1>2, <1>3, <1>4, <1>5, <1>6, CommissionOfRows, CommissionTypes

\* A run begins: it reads the rows of its month, and tells if another is at them.
LEMMA CommissionBegins ==
  ASSUME CommissionInv, NEW h \in Handlers, NEW m \in Commission!Months, Commission!BeginBill(h, m)
  PROVE  CommissionInv'
<1> DEFINE R == Commission!Billable(m)
           t == [at |-> "read", month |-> m, rows |-> R, charge |-> 0]
<1>1. /\ run[h].at = "idle" /\ Commission!Positive(R) /\ run' = [run EXCEPT ![h] = t]
      /\ raced' = raced \cup {n \in {m} : \E g \in Handlers : run[g].at # "idle" /\ run[g].month = n}
      /\ UNCHANGED <<entry, charge, reversed, overtaken>>
  BY DEF Commission!BeginBill
<1>2. /\ R \in SUBSET Commission!Rows
      /\ \A r \in R : entry[r].st = "accrued" /\ entry[r].month = m
  BY DEF Commission!Billable
<1>3. Commission!Positive(R)' <=> Commission!Positive(R)
  BY <1>1 DEF Commission!Positive, Commission!Plain, Commission!Credits, Commission!Billable
<1>4. \A r \in R : entry[r].charge = 0 BY <1>2 DEF CommissionInv, RowFits
<1> HIDE DEF R
<1>5. t \in Commission!Run /\ t.at = "read" /\ t.month = m /\ t.rows = R /\ t.charge = 0
  BY <1>2 DEF Commission!Run
<1> HIDE DEF t
<1>6. /\ run' \in [Handlers -> Commission!Run] /\ run'[h] = t
      /\ \A g \in Handlers : g # h => run'[g] = run[g]
  BY <1>1, <1>5, CommissionTypes
<1>7. /\ raced \subseteq raced' /\ raced' \subseteq Commission!Months
      /\ m \notin raced' => \A g \in Handlers : run[g].at = "idle" \/ run[g].month # m
      /\ \A n \in raced' : n # m => n \in raced
  BY <1>1, CommissionTypes
<1>8. Commission!TypeOK' BY <1>1, <1>6, <1>7 DEF CommissionInv, Commission!TypeOK
<1>9. ASSUME NEW g \in Handlers PROVE RunFits(g)'
  <2>1. RunFits(g) BY DEF CommissionInv
  <2>2. CASE g = h BY <1>1, <1>2, <1>4, <1>5, <1>6, <1>7, <2>2 DEF RunFits
  <2>3. CASE g # h
    <3>1. run'[g] = run[g] BY <1>6, <2>3
    <3>2. CASE run[g].at = "idle" BY <3>1, <3>2 DEF RunFits
    <3>3. CASE run[g].at # "idle"
      <4>1. run[g].month = m => m \in raced' BY <1>7, <3>3
      <4> QED BY <1>1, <1>5, <1>6, <1>7, <2>1, <3>1, <3>3, <4>1 DEF RunFits
    <3> QED BY <3>2, <3>3
  <2> QED BY <2>2, <2>3
<1>10. ASSUME NEW g \in Handlers PROVE Charging(g)'
  <2>1. Charging(g) BY DEF CommissionInv
  <2>2. CASE g = h BY <1>1, <1>3, <1>5, <1>6, <2>2 DEF Charging, Commission!Positive,
          Commission!Plain, Commission!Credits
  <2>3. CASE g # h
    <3>1. run'[g] = run[g] BY <1>6, <2>3
    <3>2. run[g].at = "charged" => run[g].charge # 0 BY <2>1, CommissionTypes DEF Charging
    <3> QED BY <1>1, <1>5, <1>6, <2>1, <3>1, <3>2 DEF Charging, Commission!Positive,
          Commission!Plain, Commission!Credits
  <2> QED BY <2>2, <2>3
<1>11. \A r \in Commission!Rows : RowFits(r)' BY <1>1 DEF CommissionInv, RowFits
<1>12. Commission!ChargesMatchEntries'
  <2> SUFFICES ASSUME NEW c \in DOMAIN charge
               PROVE  \/ ~charge[c].known \/ \E g \in Handlers : run'[g].charge = c
                      \/ \E r \in charge[c].rows : entry[r].month \in raced'
                      \/ charge[c].rows = {r \in Commission!Rows : entry[r].charge = c}
    BY <1>1 DEF Commission!ChargesMatchEntries
  <2>1. c # 0 BY CommissionTypes
  <2>2. \A g \in Handlers : run[g].charge = c => g # h /\ run'[g].charge = c
    BY <1>1, <1>6, <2>1 DEF CommissionInv, Charging
  <2> QED BY <1>7, <2>2 DEF CommissionInv, Commission!ChargesMatchEntries
<1>13. Commission!ReversedIsSettled' BY <1>1 DEF CommissionInv, Commission!ReversedIsSettled
<1> QED BY <1>1, <1>8, <1>9, <1>10, <1>11, <1>12, <1>13 DEF CommissionInv

\* A run goes back to idle before its rows are billed, and its charge, if there was
\* one, is unknown.
LEMMA CommissionFails ==
  ASSUME CommissionInv, NEW h \in Handlers, Commission!ChargeFails(h) \/ Commission!ChargeLost(h)
  PROVE  CommissionInv'
<1>1. /\ run' = [run EXCEPT ![h] = Commission!Idle] /\ run[h].at # "idle"
      /\ UNCHANGED <<entry, reversed, overtaken, raced>>
  BY DEF Commission!ChargeFails, Commission!ChargeLost
<1>2. /\ run' \in [Handlers -> Commission!Run] /\ run'[h] = Commission!Idle
      /\ \A g \in Handlers : g # h => run'[g] = run[g]
  BY <1>1, CommissionTypes
<1>3. /\ charge' \in Seq(Commission!Charge) /\ Len(charge') = Len(charge)
      /\ DOMAIN charge' = DOMAIN charge
      /\ \A c \in DOMAIN charge : /\ charge'[c].rows = charge[c].rows
                                  /\ charge'[c].paid = charge[c].paid
                                  /\ c # run[h].charge => charge'[c].known = charge[c].known
                                  /\ c = run[h].charge => ~charge'[c].known
  <2>1. CASE Commission!ChargeFails(h)
    <3>1. charge' = charge /\ run[h].at = "read" BY <2>1 DEF Commission!ChargeFails
    <3>2. run[h].charge = 0 BY <3>1 DEF CommissionInv, Charging
    <3> QED BY <3>1, <3>2, CommissionTypes
  <2>2. CASE Commission!ChargeLost(h)
    <3> DEFINE c == run[h].charge
               e == [charge[c] EXCEPT !.known = FALSE]
    <3>1. /\ run[h].at = "charged" /\ charge' = [charge EXCEPT ![c] = e]
      BY <2>2 DEF Commission!ChargeLost
    <3>2. c \in DOMAIN charge BY <3>1 DEF CommissionInv, Charging
    <3>3. /\ e \in Commission!Charge /\ e.rows = charge[c].rows /\ e.paid = charge[c].paid
          /\ ~e.known
      <4>1. charge[c] \in Commission!Charge BY <3>2, CommissionTypes
      <4> QED BY <4>1 DEF Commission!Charge
    <3> HIDE DEF c, e
    <3>4. charge' \in Seq(Commission!Charge) /\ Len(charge') = Len(charge)
          /\ DOMAIN charge' = DOMAIN charge
          /\ \A d \in DOMAIN charge : charge'[d] = IF d = c THEN e ELSE charge[d]
      BY <3>1, <3>2, <3>3, CommissionTypes
    <3> QED BY <3>3, <3>4 DEF c
  <2> QED BY <2>1, <2>2
<1>4. Commission!TypeOK' BY <1>1, <1>2, <1>3 DEF CommissionInv, Commission!TypeOK
<1>5. ASSUME NEW g \in Handlers PROVE RunFits(g)'
  <2>1. RunFits(g) BY DEF CommissionInv
  <2>2. run'[g].at # "idle" => g # h /\ run'[g] = run[g] BY <1>2, CommissionTypes
  <2>3. \A f \in Handlers : run'[f].at # "idle" => run'[f] = run[f] BY <1>2, CommissionTypes
  <2> QED BY <1>1, <2>1, <2>2, <2>3 DEF RunFits
<1>6. ASSUME NEW g \in Handlers PROVE Charging(g)'
  <2>1. Charging(g) BY DEF CommissionInv
  <2>2. CASE g = h BY <1>2, <2>2, CommissionTypes DEF Charging
  <2>3. CASE g # h
    <3>1. run'[g] = run[g] BY <1>2, <2>3
    <3>2. run[g].at = "charged" => run[g].charge # 0 BY <2>1, CommissionTypes DEF Charging
    <3> QED BY <1>1, <1>2, <1>3, <2>1, <3>1, <3>2, CommissionTypes
         DEF Charging, Commission!Positive, Commission!Plain, Commission!Credits
  <2> QED BY <2>2, <2>3
<1>7. ASSUME NEW r \in Commission!Rows PROVE RowFits(r)'
  <2>1. RowFits(r) BY DEF CommissionInv
  <2> QED BY <1>1, <1>3, <2>1 DEF RowFits
<1>8. Commission!ChargesMatchEntries'
  <2> SUFFICES ASSUME NEW c \in DOMAIN charge
               PROVE  \/ ~charge'[c].known \/ \E g \in Handlers : run'[g].charge = c
                      \/ \E r \in charge[c].rows : entry[r].month \in raced
                      \/ charge[c].rows = {r \in Commission!Rows : entry[r].charge = c}
    BY <1>1, <1>3 DEF Commission!ChargesMatchEntries
  <2>1. CASE c = run[h].charge BY <1>3, <2>1
  <2>2. CASE c # run[h].charge
    BY <1>2, <1>3, <2>2 DEF CommissionInv, Commission!ChargesMatchEntries
  <2> QED BY <2>1, <2>2
<1>9. Commission!ReversedIsSettled' BY <1>1 DEF CommissionInv, Commission!ReversedIsSettled
<1>10. \A c \in DOMAIN charge' : \A r \in charge'[c].rows : entry'[r].st # "none"
  BY <1>1, <1>3 DEF CommissionInv
<1> QED BY <1>1, <1>4, <1>5, <1>6, <1>7, <1>8, <1>9, <1>10 DEF CommissionInv

LEMMA CommissionCharges ==
  ASSUME CommissionInv, NEW h \in Handlers, Commission!MakeCharge(h)
  PROVE  CommissionInv'
<1> DEFINE R == run[h].rows
           e == Commission!NewCharge(R, TRUE)
           n == Len(charge) + 1
           t == [run[h] EXCEPT !.at = "charged", !.charge = n]
<1>1. /\ run[h].at = "read" /\ Len(charge) < MaxCharges /\ charge' = Append(charge, e)
      /\ UNCHANGED <<entry, reversed, overtaken, raced>>
  BY DEF Commission!MakeCharge
<1>2. run[h] \in Commission!Run /\ R \in SUBSET Commission!Rows
  BY CommissionTypes DEF Commission!Run
<1>3. e \in Commission!Charge /\ e.rows = R
  <2> DEFINE a == Commission!Cardinality(Commission!Plain(R))
             b == Commission!Cardinality(Commission!Credits(R))
  <2>1. a \in Nat /\ b \in Nat BY <1>2, CommissionCounts
  <2>2. a > b BY <1>1 DEF CommissionInv, Charging, Commission!Positive
  <2>3. e = [rows |-> R, total |-> a - b, known |-> TRUE, paid |-> FALSE]
    BY DEF Commission!NewCharge
  <2> HIDE DEF a, b, e, R
  <2>4. a - b \in Nat BY <2>1, <2>2
  <2> QED BY <1>2, <2>3, <2>4 DEF Commission!Charge
<1> HIDE DEF e
<1>4. /\ charge' \in Seq(Commission!Charge) /\ Len(charge') = n /\ DOMAIN charge' = 1 .. n
      /\ \A c \in DOMAIN charge : charge'[c] = charge[c]
      /\ charge'[n] = e
  BY <1>1, <1>3, AppendFacts, CommissionTypes
<1>5. /\ n \in Commission!Charges /\ n # 0 /\ n \notin DOMAIN charge /\ n <= MaxCharges
      /\ DOMAIN charge' = DOMAIN charge \cup {n}
  BY <1>1, <1>4, CommissionTypes, CommissionCounts DEF Commission!Charges
<1>6. run' = [run EXCEPT ![h] = t]
  <2>1. run' = [run EXCEPT ![h].at = "charged", ![h].charge = Len(charge')]
    BY DEF Commission!MakeCharge
  <2> QED BY <1>4, <2>1, CommissionTypes
<1> HIDE DEF n
<1>7. /\ t \in Commission!Run /\ t.at = "charged" /\ t.rows = R /\ t.charge = n
      /\ t.month = run[h].month
  BY <1>2, <1>5 DEF Commission!Run
<1> HIDE DEF t
<1>8. /\ run' \in [Handlers -> Commission!Run] /\ run'[h] = t
      /\ \A g \in Handlers : g # h => run'[g] = run[g]
  BY <1>6, <1>7, CommissionTypes
<1>9. Commission!TypeOK' BY <1>1, <1>4, <1>5, <1>8 DEF CommissionInv, Commission!TypeOK
<1>10. ASSUME NEW g \in Handlers PROVE RunFits(g)'
  <2>1. RunFits(g) BY DEF CommissionInv
  <2>2. \A f \in Handlers : /\ run'[f].at # "idle" <=> run[f].at # "idle"
                            /\ run'[f].month = run[f].month /\ run'[f].rows = run[f].rows
    BY <1>1, <1>7, <1>8
  <2> QED BY <1>1, <2>1, <2>2 DEF RunFits
<1>11. \A g \in Handlers : g # h => run[g].charge # n
  BY <1>5 DEF CommissionInv, Charging
<1>12. \A r \in Commission!Rows : entry[r].charge # n BY <1>5 DEF CommissionInv, RowFits
<1>13. ASSUME NEW g \in Handlers PROVE Charging(g)'
  <2>1. Charging(g) BY DEF CommissionInv
  <2>2. CASE g = h
    <3>1. run'[g].charge \in DOMAIN charge' /\ charge'[run'[g].charge].rows = run'[g].rows
      BY <1>3, <1>4, <1>5, <1>7, <1>8, <2>2
    <3>2. \A r \in Commission!Rows : entry'[r].charge # run'[g].charge
      BY <1>1, <1>7, <1>8, <1>12, <2>2
    <3>3. \A f \in Handlers : run'[f].charge = run'[g].charge => f = g
      BY <1>7, <1>8, <1>11, <2>2
    <3> QED BY <1>7, <1>8, <2>2, <3>1, <3>2, <3>3 DEF Charging
  <2>3. CASE g # h
    <3>1. run'[g] = run[g] BY <1>8, <2>3
    <3>2. run[g].at = "charged" => run[g].charge # n BY <1>11, <2>3
    <3>3. run[g].at = "charged" => charge'[run[g].charge] = charge[run[g].charge]
                                   /\ run[g].charge \in DOMAIN charge'
      BY <1>4, <1>5, <2>1 DEF Charging
    <3> QED BY <1>1, <1>7, <1>8, <2>1, <3>1, <3>2, <3>3
         DEF Charging, Commission!Positive, Commission!Plain, Commission!Credits
  <2> QED BY <2>2, <2>3
<1>14. ASSUME NEW r \in Commission!Rows PROVE RowFits(r)'
  <2>1. RowFits(r) BY DEF CommissionInv
  <2> QED BY <1>1, <1>4, <1>5, <2>1 DEF RowFits
<1>15. Commission!ChargesMatchEntries'
  <2> SUFFICES ASSUME NEW c \in DOMAIN charge'
               PROVE  \/ ~charge'[c].known \/ \E g \in Handlers : run'[g].charge = c
                      \/ \E r \in charge'[c].rows : entry[r].month \in raced
                      \/ charge'[c].rows = {r \in Commission!Rows : entry[r].charge = c}
    BY <1>1 DEF Commission!ChargesMatchEntries
  <2>1. CASE c = n BY <1>7, <1>8, <2>1
  <2>2. CASE c # n
    <3>1. c \in DOMAIN charge BY <1>5, <2>2
    <3>2. charge'[c] = charge[c] BY <1>4, <3>1
    <3>3. c # 0 BY <3>1, CommissionTypes
    <3>4. \A g \in Handlers : run[g].charge = c => run'[g].charge = c
      BY <1>1, <1>8, <3>3 DEF CommissionInv, Charging
    <3> QED BY <3>1, <3>2, <3>4 DEF CommissionInv, Commission!ChargesMatchEntries
  <2> QED BY <2>1, <2>2
<1>16. Commission!ReversedIsSettled' BY <1>1 DEF CommissionInv, Commission!ReversedIsSettled
<1>17. \A c \in DOMAIN charge' : \A r \in charge'[c].rows : entry'[r].st # "none"
  <2>1. \A r \in R : entry[r].st # "none" BY <1>1 DEF CommissionInv, RunFits
  <2> QED BY <1>1, <1>3, <1>4, <1>5, <2>1 DEF CommissionInv
<1>18. \A w \in Commissioned : entry'[<<w, "walk">>].month \in Commission!Months
  BY <1>1 DEF CommissionInv
<1> QED BY <1>9, <1>10, <1>13, <1>14, <1>15, <1>16, <1>17, <1>18 DEF CommissionInv

LEMMA CommissionPays ==
  ASSUME CommissionInv, NEW c \in Commission!Charges, Commission!Pay(c)
  PROVE  CommissionInv'
<1> DEFINE e == [charge[c] EXCEPT !.paid = TRUE]
<1>1. /\ c \in DOMAIN charge /\ charge' = [charge EXCEPT ![c] = e]
      /\ UNCHANGED <<entry, run, reversed, overtaken, raced>>
  BY DEF Commission!Pay
<1>2. e \in Commission!Charge /\ e.rows = charge[c].rows /\ e.known = charge[c].known /\ e.paid
  <2>1. charge[c] \in Commission!Charge BY <1>1, CommissionTypes
  <2> QED BY <2>1 DEF Commission!Charge
<1> HIDE DEF e
<1>3. /\ charge' \in Seq(Commission!Charge) /\ Len(charge') = Len(charge)
      /\ DOMAIN charge' = DOMAIN charge
      /\ \A d \in DOMAIN charge : charge'[d] = IF d = c THEN e ELSE charge[d]
  BY <1>1, <1>2, CommissionTypes
<1>4. \A d \in DOMAIN charge : /\ charge'[d].rows = charge[d].rows
                               /\ charge'[d].known = charge[d].known
                               /\ charge[d].paid => charge'[d].paid
  BY <1>2, <1>3
<1>5. Commission!TypeOK' BY <1>1, <1>3 DEF CommissionInv, Commission!TypeOK
<1>6. ASSUME NEW g \in Handlers PROVE RunFits(g)' /\ Charging(g)'
  <2>1. RunFits(g) /\ Charging(g) BY DEF CommissionInv
  <2>2. RunFits(g)' BY <1>1, <2>1 DEF RunFits
  <2>3. Charging(g)'
    BY <1>1, <1>3, <1>4, <2>1
       DEF Charging, Commission!Positive, Commission!Plain, Commission!Credits
  <2> QED BY <2>2, <2>3
<1>7. ASSUME NEW r \in Commission!Rows PROVE RowFits(r)'
  <2>1. RowFits(r) BY DEF CommissionInv
  <2> QED BY <1>1, <1>3, <1>4, <2>1 DEF RowFits
<1>8. Commission!ChargesMatchEntries'
  BY <1>1, <1>3, <1>4 DEF CommissionInv, Commission!ChargesMatchEntries
<1>9. Commission!ReversedIsSettled' BY <1>1 DEF CommissionInv, Commission!ReversedIsSettled
<1>10. \A d \in DOMAIN charge' : \A r \in charge'[d].rows : entry'[r].st # "none"
  BY <1>1, <1>3, <1>4 DEF CommissionInv
<1> QED BY <1>1, <1>5, <1>6, <1>7, <1>8, <1>9, <1>10 DEF CommissionInv

LEMMA CommissionBills ==
  ASSUME CommissionInv, NEW h \in Handlers, Commission!CommitBill(h)
  PROVE  CommissionInv'
<1> PICK R, n, m : R = run[h].rows /\ n = run[h].charge /\ m = run[h].month OBVIOUS
<1>1. /\ run[h].at = "charged" /\ run' = [run EXCEPT ![h] = Commission!Idle]
      /\ entry' = [r \in Commission!Rows |-> IF r \in R
                     THEN [entry[r] EXCEPT !.st = "billed", !.charge = n] ELSE entry[r]]
      /\ overtaken' = overtaken \cup {r \in R : entry[r].st = "void"}
      /\ UNCHANGED <<charge, reversed, raced>>
  BY DEF Commission!CommitBill
<1>2. /\ R \in SUBSET Commission!Rows /\ n \in DOMAIN charge /\ n # 0 /\ charge[n].rows = R
      /\ n \in Commission!Charges \cup {0}
      /\ \A r \in Commission!Rows : entry[r].charge # n
      /\ \A g \in Handlers : run[g].charge = n => g = h
      /\ \A r \in R : entry[r].st # "none" /\ entry[r].month = m
      /\ m \notin raced => /\ \A g \in Handlers : run[g].at # "idle" /\ run[g].month = m => g = h
                           /\ \A r \in R : entry[r].charge = 0
  <2>1. Charging(h) /\ RunFits(h) /\ run[h] \in Commission!Run
    BY CommissionTypes DEF CommissionInv
  <2>2. R \in SUBSET Commission!Rows /\ n \in Commission!Charges \cup {0}
    BY <2>1 DEF Commission!Run
  <2>3. /\ n \in DOMAIN charge /\ charge[n].rows = R
        /\ \A r \in Commission!Rows : entry[r].charge # n
        /\ \A g \in Handlers : run[g].charge = n => g = h
    BY <1>1, <2>1 DEF Charging
  <2>4. /\ \A r \in R : entry[r].st # "none" /\ entry[r].month = m
        /\ m \notin raced => /\ \A g \in Handlers : run[g].at # "idle" /\ run[g].month = m => g = h
                             /\ \A r \in R : entry[r].charge = 0
    BY <1>1, <2>1 DEF RunFits
  <2>5. n # 0 BY <2>3, CommissionTypes
  <2> QED BY <2>2, <2>3, <2>4, <2>5
<1>3. /\ run' \in [Handlers -> Commission!Run] /\ run'[h] = Commission!Idle
      /\ \A g \in Handlers : g # h => run'[g] = run[g]
  BY <1>1, CommissionTypes
<1>4. ASSUME NEW r \in Commission!Rows
      PROVE  /\ entry'[r] \in Commission!Entry /\ entry'[r].month = entry[r].month
             /\ r \in R => entry'[r].st = "billed" /\ entry'[r].charge = n
             /\ r \notin R => entry'[r] = entry[r]
  <2>1. entry[r] \in Commission!Entry BY CommissionTypes
  <2> QED BY <1>1, <1>2, <2>1 DEF Commission!Entry, Commission!Status
<1>5. entry' \in [Commission!Rows -> Commission!Entry] BY <1>1, <1>4
<1>6. overtaken' \subseteq Commission!Rows BY <1>1, <1>2, CommissionTypes
<1>7. Commission!TypeOK' BY <1>1, <1>3, <1>5, <1>6 DEF CommissionInv, Commission!TypeOK
<1>8. ASSUME NEW g \in Handlers PROVE RunFits(g)'
  <2>1. RunFits(g) /\ run[g] \in Commission!Run BY CommissionTypes DEF CommissionInv
  <2>2. CASE g = h BY <1>3, <2>2, CommissionTypes DEF RunFits
  <2>3. CASE g # h
    <3>1. run'[g] = run[g] BY <1>3, <2>3
    <3>2. CASE run[g].at = "idle" BY <3>1, <3>2 DEF RunFits
    <3>3. CASE run[g].at # "idle"
      <4>1. run[g].rows \subseteq Commission!Rows BY <2>1 DEF Commission!Run
      <4>2. \A r \in run[g].rows : entry'[r].st # "none" /\ entry'[r].month = run[g].month
        BY <1>4, <2>1, <3>3, <4>1 DEF RunFits
      <4>3. run[g].month = m => m \in raced BY <1>1, <1>2, <2>3, <3>3
      <4>4. run[g].month \notin raced => \A r \in run[g].rows : entry'[r].charge = 0
        <5> SUFFICES ASSUME run[g].month \notin raced, NEW r \in run[g].rows
                     PROVE  entry'[r].charge = 0
          OBVIOUS
        <5>1. entry[r].month # m BY <2>1, <3>3, <4>3 DEF RunFits
        <5> QED BY <1>2, <1>4, <2>1, <3>3, <4>1, <5>1 DEF RunFits
      <4>5. run[g].month \notin raced =>
              \A f \in Handlers : run'[f].at # "idle" /\ run'[f].month = run[g].month => f = g
        BY <1>3, <2>1, <3>3, CommissionTypes DEF RunFits
      <4>6. raced' = raced BY <1>1
      <4> QED BY <3>1, <4>2, <4>4, <4>5, <4>6 DEF RunFits
    <3> QED BY <3>2, <3>3
  <2> QED BY <2>2, <2>3
<1>9. ASSUME NEW g \in Handlers PROVE Charging(g)'
  <2>1. Charging(g) BY DEF CommissionInv
  <2>2. CASE g = h BY <1>3, <2>2, CommissionTypes DEF Charging
  <2>3. CASE g # h
    <3>1. run'[g] = run[g] BY <1>3, <2>3
    <3>2. run[g].at = "charged" => run[g].charge # 0 /\ run[g].charge # n
      BY <1>2, <2>1, <2>3, CommissionTypes DEF Charging
    <3>3. run[g].at = "charged" => \A r \in Commission!Rows : entry'[r].charge # run[g].charge
      BY <1>4, <2>1, <3>2 DEF Charging
    <3>4. run[g].at = "charged" => \A f \in Handlers : run'[f].charge = run[g].charge => f = g
      BY <1>3, <2>1, <3>2, CommissionTypes DEF Charging
    <3> QED BY <1>1, <2>1, <3>1, <3>3, <3>4
         DEF Charging, Commission!Positive, Commission!Plain, Commission!Credits
  <2> QED BY <2>2, <2>3
<1>10. ASSUME NEW r \in Commission!Rows PROVE RowFits(r)'
  <2>1. RowFits(r) BY DEF CommissionInv
  <2> QED BY <1>1, <1>2, <1>4, <2>1 DEF RowFits
<1>11. Commission!ChargesMatchEntries'
  <2> SUFFICES ASSUME NEW c \in DOMAIN charge
               PROVE  \/ ~charge[c].known \/ \E g \in Handlers : run'[g].charge = c
                      \/ \E r \in charge[c].rows : entry'[r].month \in raced
                      \/ charge[c].rows = {r \in Commission!Rows : entry'[r].charge = c}
    BY <1>1 DEF Commission!ChargesMatchEntries
  <2>1. CASE c = n
    <3>1. {r \in Commission!Rows : entry'[r].charge = n} = R
      <4>1. \A r \in Commission!Rows : entry'[r].charge = n <=> r \in R BY <1>2, <1>4
      <4> QED BY <1>2, <4>1
    <3> QED BY <1>2, <2>1, <3>1
  <2>2. CASE c # n
    <3>1. \A r \in charge[c].rows : r \in Commission!Rows
      BY CommissionTypes DEF Commission!Charge
    <3>2. \A g \in Handlers : run[g].charge = c => run'[g].charge = c BY <1>3, <2>2
    <3>3. CASE \E r \in charge[c].rows : entry[r].month \in raced
      BY <1>4, <3>1, <3>3
    <3>4. CASE charge[c].rows = {r \in Commission!Rows : entry[r].charge = c}
      <4>1. CASE \E r \in R : entry[r].charge = c
        <5>1. PICK r \in R : entry[r].charge = c BY <4>1
        <5>2. c # 0 BY CommissionTypes
        <5>3. m \in raced /\ entry'[r].month = m BY <1>2, <1>4, <5>1, <5>2
        <5> QED BY <1>2, <3>4, <5>1, <5>3
      <4>2. CASE ~\E r \in R : entry[r].charge = c
        <5>1. \A r \in Commission!Rows : entry'[r].charge = c <=> entry[r].charge = c
          BY <1>4, <2>2, <4>2
        <5>2. {r \in Commission!Rows : entry'[r].charge = c} = {r \in Commission!Rows : entry[r].charge = c}
          BY <5>1
        <5> QED BY <3>4, <5>2
      <4> QED BY <4>1, <4>2
    <3> QED BY <3>2, <3>3, <3>4 DEF CommissionInv, Commission!ChargesMatchEntries
  <2> QED BY <2>1, <2>2
<1>12. Commission!ReversedIsSettled'
  <2> SUFFICES ASSUME NEW v \in reversed
               PROVE  \/ entry'[<<v, "walk">>].st = "void" \/ entry'[<<v, "credit">>].st # "none"
                      \/ <<v, "walk">> \in overtaken'
    BY <1>1 DEF Commission!ReversedIsSettled
  <2>1. v \in Commissioned BY CommissionTypes
  <2>2. <<v, "walk">> \in Commission!Rows /\ <<v, "credit">> \in Commission!Rows
    BY <2>1, RowOfWalk
  <2>3. \/ entry[<<v, "walk">>].st = "void" \/ entry[<<v, "credit">>].st # "none"
        \/ <<v, "walk">> \in overtaken
    BY DEF CommissionInv, Commission!ReversedIsSettled
  <2> QED BY <1>1, <1>4, <2>2, <2>3
<1>13. \A c \in DOMAIN charge' : \A r \in charge'[c].rows : entry'[r].st # "none"
  <2>1. \A c \in DOMAIN charge : \A r \in charge[c].rows : r \in Commission!Rows
    BY CommissionTypes DEF Commission!Charge
  <2> QED BY <1>1, <1>4, <2>1 DEF CommissionInv
<1>14. \A w \in Commissioned : entry'[<<w, "walk">>].month \in Commission!Months
  BY <1>4, RowOfWalk DEF CommissionInv
<1> QED BY <1>7, <1>8, <1>9, <1>10, <1>11, <1>12, <1>13, <1>14 DEF CommissionInv

LEMMA CommissionNext ==
  ASSUME CommissionInv, [Commission!Next]_OfCommission
  PROVE  CommissionInv'
<1>1. CASE UNCHANGED OfCommission
  <2>1. UNCHANGED <<entry, charge, run, reversed, overtaken, raced>> BY <1>1 DEF OfCommission
  <2>2. Commission!TypeOK' BY <2>1 DEF CommissionInv, Commission!TypeOK
  <2>3. Commission!ChargesMatchEntries' /\ Commission!ReversedIsSettled'
    BY <2>1 DEF CommissionInv, Commission!ChargesMatchEntries, Commission!ReversedIsSettled
  <2>4. \A r \in Commission!Rows : RowFits(r)' BY <2>1 DEF CommissionInv, RowFits
  <2>5. ASSUME NEW h \in Handlers PROVE RunFits(h)' /\ Charging(h)'
    <3>1. RunFits(h) /\ Charging(h) BY DEF CommissionInv
    <3>2. RunFits(h)' BY <2>1, <3>1 DEF RunFits
    <3>3. Charging(h)'
      BY <2>1, <3>1 DEF Charging, Commission!Positive, Commission!Plain, Commission!Credits
    <3> QED BY <3>2, <3>3
  <2> QED BY <2>1, <2>2, <2>3, <2>4, <2>5 DEF CommissionInv
<1>2. CASE Commission!Next
  BY <1>2, CommissionAccrues, CommissionReverses, CommissionBegins, CommissionCharges,
     CommissionFails, CommissionBills, CommissionPays, CommissionMarks DEF Commission!Next
<1> QED BY <1>1, <1>2

LEMMA CommissionFollows ==
  ASSUME CommissionInv
  PROVE  Commission!TypeOK /\ Commission!BooksMatchCharges
<1>1. Commission!PaidWasCharged
  <2> SUFFICES ASSUME NEW r \in Commission!Rows, entry[r].st = "paid"
               PROVE  /\ entry[r].charge # 0 /\ charge[entry[r].charge].paid
                      /\ r \in charge[entry[r].charge].rows
    BY DEF Commission!PaidWasCharged
  <2> QED BY DEF CommissionInv, RowFits
<1> QED BY <1>1 DEF CommissionInv, Commission!BooksMatchCharges

----------------------------------------------------------------------------
(* Coupons *)

\* One request at a time holds the row of the coupon.
OneHolds == \A g, h \in Handlers :
              checkout[g].at = "holding" /\ checkout[h].at = "holding" => g = h

\* The counter and the limits that staff and requests go by are within the highest.
WithinTop == /\ coupon.max <= coupon.top /\ coupon.uses <= coupon.top
             /\ \A h \in Handlers : checkout[h].at = "valid" => checkout[h].max <= coupon.top

\* Whoever holds the row has counted one.
HeldIsCounted == (\E h \in Handlers : checkout[h].at = "holding") => coupon.uses > 0

CouponInv == Coupon!TypeOK /\ OneHolds /\ WithinTop /\ HeldIsCounted /\ Coupon!FreeWalkIsCovered

USE CouponParameters DEF Coupon!Nothing

----------------------------------------------------------------------------
LEMMA CouponCounts == ASSUME NEW S PROVE Coupon!Cardinality(S) = Cardinality(S)
BY DEF Coupon!Cardinality, Cardinality, Coupon!IsFiniteSet, IsFiniteSet

\* How many hold the row: none, or one.
LEMMA NoHolder ==
  ASSUME \A h \in Handlers : checkout[h].at # "holding"
  PROVE  Coupon!Cardinality(Coupon!Holding) = 0
<1>1. Coupon!Holding = {} BY DEF Coupon!Holding
<1> QED BY <1>1, FS_EmptySet, CouponCounts

LEMMA SingleHolder ==
  ASSUME OneHolds, NEW h \in Handlers, checkout[h].at = "holding"
  PROVE  Coupon!Cardinality(Coupon!Holding) = 1
<1>1. Coupon!Holding = {h} BY DEF Coupon!Holding, OneHolds
<1> QED BY <1>1, FS_Singleton, CouponCounts

LEMMA NoHolderNext ==
  ASSUME \A h \in Handlers : checkout'[h].at # "holding"
  PROVE  Coupon!Cardinality(Coupon!Holding') = 0
<1>1. Coupon!Holding' = {} BY DEF Coupon!Holding
<1> QED BY <1>1, FS_EmptySet, CouponCounts

LEMMA SingleHolderNext ==
  ASSUME NEW h \in Handlers, checkout'[h].at = "holding",
         \A g \in Handlers : checkout'[g].at = "holding" => g = h
  PROVE  Coupon!Cardinality(Coupon!Holding') = 1
<1>1. Coupon!Holding' = {h} BY DEF Coupon!Holding
<1> QED BY <1>1, FS_Singleton, CouponCounts

----------------------------------------------------------------------------
(* The invariant *)

LEMMA CouponInit == ASSUME Coupon!Init PROVE CouponInv
<1>1. Coupon!TypeOK
  BY DEF Coupon!ParametersAssumption, Coupon!Init, Coupon!TypeOK, Coupon!Checkout
<1> QED
  BY <1>1
     DEF Coupon!Init, CouponInv, OneHolds, WithinTop, HeldIsCounted, Coupon!FreeWalkIsCovered

LEMMA CouponEdits ==
  ASSUME CouponInv, NEW n \in Limits, NEW on \in BOOLEAN, Coupon!Edit(n, on)
  PROVE  CouponInv'
<1> USE DEF CouponInv, Coupon!Edit
<1>1. n \in Nat /\ coupon.top \in Nat BY DEF Coupon!ParametersAssumption, Coupon!TypeOK
<1>2. coupon'.top >= coupon.top /\ coupon'.max <= coupon'.top /\ coupon'.uses = coupon.uses
  BY <1>1 DEF Coupon!TypeOK
<1>3. Coupon!TypeOK' BY DEF Coupon!TypeOK
<1>4. WithinTop'
  <2>1. coupon.uses \in Nat /\ coupon'.top \in Nat
    BY <1>3, <1>1 DEF Coupon!TypeOK, Coupon!ParametersAssumption
  <2>2. ASSUME NEW h \in Handlers, checkout[h].at = "valid" PROVE checkout[h].max \in Nat
    BY <2>2 DEF Coupon!TypeOK, Coupon!Checkout, Coupon!ParametersAssumption
  <2> QED BY <1>1, <1>2, <2>1, <2>2 DEF WithinTop
<1>5. OneHolds' /\ HeldIsCounted' BY <1>2 DEF OneHolds, HeldIsCounted
<1>6. Coupon!FreeWalkIsCovered' BY DEF Coupon!FreeWalkIsCovered
<1> QED BY <1>3, <1>4, <1>5, <1>6

LEMMA CouponBegins ==
  ASSUME CouponInv, NEW h \in Handlers, NEW w \in Walks, Coupon!BeginRedeem(h, w)
  PROVE  CouponInv'
<1> USE DEF CouponInv, Coupon!BeginRedeem
<1>1. Coupon!TypeOK' BY DEF Coupon!TypeOK, Coupon!Checkout
<1>2. OneHolds' BY DEF OneHolds, Coupon!TypeOK
<1>3. WithinTop' BY DEF WithinTop, Coupon!TypeOK
<1>4. HeldIsCounted' BY DEF HeldIsCounted, Coupon!TypeOK
<1>5. Coupon!FreeWalkIsCovered' BY DEF Coupon!FreeWalkIsCovered
<1> QED BY <1>1, <1>2, <1>3, <1>4, <1>5

LEMMA CouponTakes ==
  ASSUME CouponInv, NEW h \in Handlers, Coupon!Take(h)
  PROVE  CouponInv'
<1> USE DEF CouponInv, Coupon!Take
<1>1. checkout[h] \in Coupon!Checkout /\ checkout[h].at = "valid" BY DEF Coupon!TypeOK
<1>2. Coupon!TypeOK'
  <2>1. coupon'.uses \in Nat BY DEF Coupon!TypeOK
  <2>2. coupon' \in [max : Limits \cup {0}, uses : Nat, active : BOOLEAN, top : Limits \cup {0}]
    BY DEF Coupon!TypeOK
  <2>3. \A x \in {"holding"} : [checkout[h] EXCEPT !.at = x] \in Coupon!Checkout
    BY <1>1 DEF Coupon!Checkout
  <2>4. checkout' \in [Handlers -> Coupon!Checkout]
    <3>1. CASE Coupon!Left(h) BY <3>1, <2>3 DEF Coupon!TypeOK
    <3>2. CASE ~Coupon!Left(h) BY <3>2 DEF Coupon!TypeOK, Coupon!Checkout
    <3> QED BY <3>1, <3>2
  <2> QED BY <2>2, <2>4 DEF Coupon!TypeOK
<1>3. OneHolds' BY DEF OneHolds, Coupon!TypeOK
<1>4. WithinTop'
  <2>1. coupon.uses \in Nat /\ coupon.top \in Nat /\ checkout[h].max \in Nat
    BY <1>1 DEF Coupon!TypeOK, Coupon!Checkout, Coupon!ParametersAssumption
  <2>2. checkout[h].max <= coupon.top BY <1>1 DEF WithinTop
  <2>3. coupon'.uses <= coupon'.top /\ coupon'.max <= coupon'.top /\ coupon'.top = coupon.top
    BY <2>1, <2>2 DEF Coupon!Left, WithinTop, Coupon!TypeOK
  <2>4. checkout'[h].at # "valid"
    <3>1. CASE Coupon!Left(h) BY <3>1, <1>1 DEF Coupon!TypeOK, Coupon!Checkout
    <3>2. CASE ~Coupon!Left(h) BY <3>2 DEF Coupon!TypeOK
    <3> QED BY <3>1, <3>2
  <2>5. \A g \in Handlers \ {h} : checkout'[g] = checkout[g] BY DEF Coupon!TypeOK
  <2> QED BY <2>3, <2>4, <2>5 DEF WithinTop
<1>5. HeldIsCounted' BY DEF HeldIsCounted, Coupon!TypeOK
<1>6. Coupon!FreeWalkIsCovered' BY DEF Coupon!FreeWalkIsCovered
<1> QED BY <1>2, <1>3, <1>4, <1>5, <1>6

LEMMA CouponCommits ==
  ASSUME CouponInv, NEW h \in Handlers, Coupon!CommitRedeem(h)
  PROVE  CouponInv'
<1> USE DEF CouponInv, Coupon!CommitRedeem
<1>1. checkout[h] \in Coupon!Checkout /\ checkout[h].walk \in Walks
  BY DEF Coupon!TypeOK, Coupon!Checkout
<1>2. Owner[checkout[h].walk] \in Users BY <1>1 DEF Coupon!ParametersAssumption
<1>3. coupon.uses \in Nat /\ coupon.uses > 0 /\ coupon.top \in Nat
  BY DEF Coupon!TypeOK, HeldIsCounted, Coupon!ParametersAssumption
<1>4. /\ coupon'.uses \in Nat /\ coupon'.uses <= coupon.uses
      /\ coupon' = [coupon EXCEPT !.uses = coupon'.uses]
  BY <1>3 DEF Coupon!TypeOK
<1>5. \A u \in Users : redeemed'[u] \in Nat /\ redeemed'[u] >= redeemed[u]
  BY <1>2 DEF Coupon!TypeOK
<1>6. Coupon!TypeOK'
  <2>1. redeemed' \in [Users -> Nat] BY <1>2 DEF Coupon!TypeOK
  <2>2. checkout' \in [Handlers -> Coupon!Checkout] BY DEF Coupon!TypeOK, Coupon!Checkout
  <2>3. coupon' \in [max : Limits \cup {0}, uses : Nat, active : BOOLEAN, top : Limits \cup {0}]
    BY <1>4 DEF Coupon!TypeOK
  <2>4. trip' \in [Walks -> [st : {"awaiting", "open", "cancelled"},
                             by : {"none", "money", "coupon"}]]
    BY <1>1 DEF Coupon!TypeOK
  <2> QED BY <2>1, <2>2, <2>3, <2>4 DEF Coupon!TypeOK
<1>7. \A g \in Handlers : checkout'[g].at # "idle" => checkout'[g] = checkout[g] /\ g # h
  BY DEF Coupon!TypeOK
<1>8. OneHolds' BY <1>7 DEF OneHolds
<1>9. HeldIsCounted' BY <1>7 DEF HeldIsCounted, OneHolds
<1>10. WithinTop'
  <2>1. coupon'.max = coupon.max /\ coupon'.top = coupon.top BY <1>4 DEF Coupon!TypeOK
  <2> QED BY <1>3, <1>4, <1>7, <2>1 DEF WithinTop
<1>11. Coupon!FreeWalkIsCovered'
  <2>1. CASE trip' = trip
    <3>1. ASSUME NEW w \in Walks, trip[w].by = "coupon"
          PROVE  w \in Covered /\ redeemed'[Owner[w]] > 0
      <4>1. Owner[w] \in Users /\ redeemed[Owner[w]] > 0 /\ redeemed[Owner[w]] \in Nat
        BY <3>1 DEF Coupon!FreeWalkIsCovered, Coupon!ParametersAssumption, Coupon!TypeOK
      <4> QED BY <4>1, <1>5, <3>1 DEF Coupon!FreeWalkIsCovered
    <3> QED BY <2>1, <3>1 DEF Coupon!FreeWalkIsCovered
  <2>2. CASE trip' # trip
    <3>1. /\ ~Coupon!Rejected(h) /\ Coupon!Opened(h)
          /\ redeemed' = [redeemed EXCEPT ![Owner[checkout[h].walk]] = @ + 1]
          /\ trip' = [trip EXCEPT ![checkout[h].walk] = [st |-> "open", by |-> "coupon"]]
      BY <2>2
    <3>2. redeemed'[Owner[checkout[h].walk]] > 0 BY <3>1, <1>2 DEF Coupon!TypeOK
    <3>3. ASSUME NEW w \in Walks, w # checkout[h].walk, trip'[w].by = "coupon"
          PROVE  w \in Covered /\ redeemed'[Owner[w]] > 0
      <4>1. trip[w].by = "coupon" BY <3>1, <3>3 DEF Coupon!TypeOK
      <4>2. Owner[w] \in Users /\ redeemed[Owner[w]] > 0 /\ redeemed[Owner[w]] \in Nat
        BY <4>1 DEF Coupon!FreeWalkIsCovered, Coupon!ParametersAssumption, Coupon!TypeOK
      <4> QED BY <4>1, <4>2, <1>5 DEF Coupon!FreeWalkIsCovered
    <3> QED BY <3>1, <3>2, <3>3 DEF Coupon!FreeWalkIsCovered, Coupon!Opened
  <2> QED BY <2>1, <2>2
<1> QED BY <1>6, <1>8, <1>9, <1>10, <1>11

LEMMA CouponWalks ==
  ASSUME CouponInv, NEW w \in Walks, Coupon!Paid(w) \/ Coupon!Cancels(w)
  PROVE  CouponInv'
<1> USE DEF CouponInv, Coupon!Paid, Coupon!Cancels
<1>1. Coupon!TypeOK' BY DEF Coupon!TypeOK
<1>2. OneHolds' /\ WithinTop' /\ HeldIsCounted' BY DEF OneHolds, WithinTop, HeldIsCounted
<1>3. Coupon!FreeWalkIsCovered'
  <2>1. \A x \in Walks : trip'[x].by = "coupon" => trip[x].by = "coupon" BY DEF Coupon!TypeOK
  <2> QED BY <2>1 DEF Coupon!FreeWalkIsCovered
<1> QED BY <1>1, <1>2, <1>3

LEMMA CouponNext == ASSUME CouponInv, [Coupon!Next]_OfCoupon PROVE CouponInv'
<1>1. CASE UNCHANGED OfCoupon
  BY <1>1
     DEF OfCoupon, CouponInv, Coupon!TypeOK, OneHolds, WithinTop, HeldIsCounted,
         Coupon!FreeWalkIsCovered
<1>2. CASE Coupon!Next
  BY <1>2, CouponEdits, CouponBegins, CouponTakes, CouponCommits, CouponWalks DEF Coupon!Next
<1> QED BY <1>1, <1>2

----------------------------------------------------------------------------
(* The refinement *)

LEMMA CouponInitRefines == ASSUME Coupon!Init PROVE Coupon!Voucher!Init
<1>1. Coupon!Cardinality(Coupon!Holding) = 0 BY NoHolder DEF Coupon!Init
<1> QED BY <1>1 DEF Coupon!Init, Coupon!Voucher!Init

\* A step that leaves redemptions and the highest limit alone, and counts as many as it
\* holds, is not seen.
LEMMA Stutters ==
  ASSUME redeemed' = redeemed, coupon'.top = coupon.top,
         coupon'.uses - Coupon!Cardinality(Coupon!Holding') = coupon.uses - Coupon!Cardinality(Coupon!Holding)
  PROVE  UNCHANGED Coupon!Voucher!voucherVars
BY DEF Coupon!Voucher!voucherVars

LEMMA EditRefines ==
  ASSUME CouponInv, NEW n \in Limits, NEW on \in BOOLEAN, Coupon!Edit(n, on)
  PROVE  [Coupon!Voucher!Next]_(Coupon!Voucher!voucherVars)
<1> USE DEF Coupon!Edit
<1>1. Coupon!Holding' = Coupon!Holding /\ coupon'.uses = coupon.uses
  BY DEF Coupon!Holding, CouponInv, Coupon!TypeOK
<1>2. CASE n > coupon.top
  <2>1. coupon'.top = n BY <1>2 DEF CouponInv, Coupon!TypeOK
  <2>2. Coupon!Voucher!Raise(n) BY <1>1, <1>2, <2>1 DEF Coupon!Voucher!Raise
  <2> QED BY <2>2 DEF Coupon!Voucher!Next
<1>3. CASE ~(n > coupon.top)
  <2>1. coupon'.top = coupon.top BY <1>3 DEF CouponInv, Coupon!TypeOK
  <2> QED BY <1>1, <2>1, Stutters
<1> QED BY <1>2, <1>3

LEMMA BeginRefines ==
  ASSUME CouponInv, NEW h \in Handlers, NEW w \in Walks, Coupon!BeginRedeem(h, w)
  PROVE  UNCHANGED Coupon!Voucher!voucherVars
<1>1. Coupon!Holding' = Coupon!Holding
  BY DEF Coupon!Holding, Coupon!BeginRedeem, CouponInv, Coupon!TypeOK
<1> QED BY <1>1, Stutters DEF Coupon!BeginRedeem

LEMMA TakeRefines ==
  ASSUME CouponInv, NEW h \in Handlers, Coupon!Take(h)
  PROVE  UNCHANGED Coupon!Voucher!voucherVars
<1> USE DEF Coupon!Take
<1>1. Coupon!Cardinality(Coupon!Holding) = 0 /\ coupon.uses \in Nat
  BY NoHolder DEF CouponInv, Coupon!TypeOK
<1>2. CASE Coupon!Left(h)
  <2>1. /\ checkout'[h].at = "holding"
        /\ \A g \in Handlers : checkout'[g].at = "holding" => g = h
    <3>1. checkout[h] \in Coupon!Checkout /\ checkout[h].at = "valid"
      BY DEF CouponInv, Coupon!TypeOK
    <3>2. checkout'[h].at = "holding"
      BY <1>2, <3>1 DEF CouponInv, Coupon!TypeOK, Coupon!Checkout
    <3>3. \A g \in Handlers \ {h} : checkout'[g] = checkout[g]
      BY <1>2 DEF CouponInv, Coupon!TypeOK
    <3> QED BY <3>2, <3>3
  <2>2. Coupon!Cardinality(Coupon!Holding') = 1 BY <2>1, SingleHolderNext
  <2>3. coupon'.uses = coupon.uses + 1 /\ coupon'.top = coupon.top
    BY <1>2 DEF CouponInv, Coupon!TypeOK
  <2> QED BY <1>1, <2>2, <2>3, Stutters
<1>3. CASE ~Coupon!Left(h)
  <2>1. \A g \in Handlers : checkout'[g].at # "holding" BY <1>3 DEF CouponInv, Coupon!TypeOK
  <2>2. Coupon!Cardinality(Coupon!Holding') = 0 BY <2>1, NoHolderNext
  <2> QED BY <1>1, <1>3, <2>2, Stutters
<1> QED BY <1>2, <1>3

LEMMA CommitRefines ==
  ASSUME CouponInv, NEW h \in Handlers, Coupon!CommitRedeem(h)
  PROVE  [Coupon!Voucher!Next]_(Coupon!Voucher!voucherVars)
<1> USE DEF Coupon!CommitRedeem
<1>1. Coupon!Cardinality(Coupon!Holding) = 1 BY SingleHolder DEF CouponInv
<1>2. \A g \in Handlers : checkout'[g].at # "holding" BY DEF CouponInv, Coupon!TypeOK, OneHolds
<1>3. Coupon!Cardinality(Coupon!Holding') = 0 BY <1>2, NoHolderNext
<1>4. coupon.uses \in Nat /\ coupon.uses > 0 /\ coupon.top \in Nat /\ coupon.uses <= coupon.top
  BY DEF CouponInv, Coupon!TypeOK, HeldIsCounted, WithinTop, Coupon!ParametersAssumption
<1>5. CASE Coupon!Rejected(h)
  <2>1. coupon'.uses = coupon.uses - 1 /\ coupon'.top = coupon.top
    BY <1>5 DEF CouponInv, Coupon!TypeOK
  <2> QED BY <1>1, <1>3, <1>4, <1>5, <2>1, Stutters
<1>6. CASE ~Coupon!Rejected(h)
  <2> DEFINE u == Owner[checkout[h].walk]
  <2>1. u \in Users
    BY DEF CouponInv, Coupon!TypeOK, Coupon!Checkout, Coupon!ParametersAssumption
  <2>2. PerUser = 1 => redeemed[u] = 0
    BY <1>6, <2>1 DEF Coupon!Rejected, CouponInv, Coupon!TypeOK
  <2>3. redeemed' = [redeemed EXCEPT ![u] = @ + 1] /\ coupon' = coupon BY <1>6
  <2>4. Coupon!Voucher!Redeem(u) BY <1>1, <1>3, <1>4, <2>2, <2>3 DEF Coupon!Voucher!Redeem
  <2> QED BY <2>1, <2>4 DEF Coupon!Voucher!Next
<1> QED BY <1>5, <1>6

LEMMA WalkRefines ==
  ASSUME NEW w \in Walks, Coupon!Paid(w) \/ Coupon!Cancels(w)
  PROVE  UNCHANGED Coupon!Voucher!voucherVars
<1>1. Coupon!Holding' = Coupon!Holding BY DEF Coupon!Holding, Coupon!Paid, Coupon!Cancels
<1> QED BY <1>1, Stutters DEF Coupon!Paid, Coupon!Cancels

LEMMA CouponNextRefines ==
  ASSUME CouponInv, [Coupon!Next]_OfCoupon
  PROVE  [Coupon!Voucher!Next]_(Coupon!Voucher!voucherVars)
<1>1. CASE UNCHANGED OfCoupon
  <2>1. Coupon!Holding' = Coupon!Holding BY <1>1 DEF Coupon!Holding, OfCoupon
  <2> QED BY <1>1, <2>1, Stutters DEF OfCoupon
<1>2. CASE Coupon!Next
  BY <1>2, EditRefines, BeginRefines, TakeRefines, CommitRefines, WalkRefines DEF Coupon!Next
<1> QED BY <1>1, <1>2

HIDE CouponParameters DEF Coupon!Nothing

----------------------------------------------------------------------------
(* The subscription of a tenant *)

\* Past the end of the subscription it replaces or cancels, at the gateway.
Past == {"ready", "waits", "flushed"}

\* What a request holds: the row it makes is new to everybody, the row it ends was made
\* and is ended at the gateway once the request is past that.
RequestsAreSound ==
  \A h \in Handlers :
    /\ req[h].at = "idle" => req[h] = Saas!NoReq
    /\ req[h].at \in {"start", "ready", "flushed"} => req[h].new # Saas!Gone
    /\ req[h].at \in {"start", "cancel"} => req[h].old # Saas!Gone
    /\ req[h].at = "cancel" => req[h].new = Saas!Gone
    /\ req[h].at = "waits" /\ req[h].new = Saas!Gone => req[h].old # Saas!Gone
    /\ req[h].new # Saas!Gone => sub[req[h].new] = "none" /\ gw[req[h].new] = "none"
    /\ req[h].old # Saas!Gone => sub[req[h].old] # "none"
    /\ req[h].old # Saas!Gone /\ req[h].at \in Past => gw[req[h].old] = "ended"

\* Rows being made are distinct, and one request at a time holds the index.
RowsAreApart ==
  \A g, h \in Handlers : /\ req[g].new = req[h].new /\ req[g].new # Saas!Gone => g = h
                         /\ req[g].at = "flushed" /\ req[h].at = "flushed" => g = h

\* The index lets nobody past the flush but to replace the only live row.
IndexHolds == \A h \in Handlers : req[h].at = "flushed" => Saas!LiveRows \subseteq {req[h].old}

\* Who is billed and whose answer was not lost has a live row, the only one billed.
BilledIsLive == \A s \in Subs : gw[s] = "live" /\ s \notin odd.lost => sub[s] \in Saas!Live
NoneTwice == \A s, t \in Subs \ odd.lost : gw[s] = "live" /\ gw[t] = "live" => s = t

\* A live row that is not billed was left so, or a request is about to see to it.
SeenTo == \A s \in Saas!LiveRows :
            gw[s] = "live" \/ s \in odd.left
              \/ \E h \in Handlers : req[h].old = s /\ req[h].at \in Past

SaasInv == /\ Saas!TypeOK /\ RequestsAreSound /\ RowsAreApart /\ IndexHolds
           /\ BilledIsLive /\ NoneTwice /\ SeenTo

USE SaasParameters DEF Saas!Gone, Saas!NoReq, Past, Saas!Live

----------------------------------------------------------------------------
LEMMA SaasInit == ASSUME Saas!Init PROVE SaasInv
BY DEF Saas!SubsAssumption, Saas!Init, SaasInv, Saas!TypeOK, RequestsAreSound, RowsAreApart,
   IndexHolds,
       BilledIsLive, NoneTwice, SeenTo, Saas!LiveRows, Saas!Status, Saas!Req, Saas!ReqAt

\* A request that only ends, or moves on, keeps what holds of the others.
LEMMA SaasBeginsStart ==
  ASSUME SaasInv, NEW h \in Handlers, NEW s \in Subs, Saas!BeginStart(h, s)
  PROVE  SaasInv'
<1> USE SaasParameters DEF SaasInv, Saas!BeginStart, Saas!Step
<1>1. PICK old \in IF Saas!LiveRows = {} THEN {Saas!Gone} ELSE Saas!LiveRows :
        /\ req[h].at = "idle"
        /\ req' = [req EXCEPT ![h] =
             [at |-> IF old = Saas!Gone THEN "ready" ELSE "start", old |-> old, new |-> s]]
  OBVIOUS
<1>2. old \in Subs \cup {Saas!Gone} /\ (old # Saas!Gone => sub[old] \in Saas!Live) /\ s # Saas!Gone
  BY DEF Saas!LiveRows, Saas!SubsAssumption
<1>3. req'[h] = [at |-> IF old = Saas!Gone THEN "ready" ELSE "start", old |-> old, new |-> s]
  BY <1>1 DEF Saas!TypeOK
<1>4. \A g \in Handlers \ {h} : req'[g] = req[g] BY <1>1 DEF Saas!TypeOK
<1>5. Saas!TypeOK' BY <1>1, <1>2 DEF Saas!TypeOK, Saas!Req, Saas!ReqAt
<1>6. RequestsAreSound' BY <1>2, <1>3, <1>4 DEF RequestsAreSound
<1>7. RowsAreApart' BY <1>2, <1>3, <1>4 DEF RowsAreApart
<1>8. IndexHolds' BY <1>3, <1>4 DEF IndexHolds, Saas!LiveRows
<1>9. BilledIsLive' /\ NoneTwice' BY DEF BilledIsLive, NoneTwice
<1>10. SeenTo' BY <1>1, <1>4 DEF SeenTo, Saas!LiveRows
<1> QED BY <1>5, <1>6, <1>7, <1>8, <1>9, <1>10

LEMMA SaasBeginsCancel ==
  ASSUME SaasInv, NEW h \in Handlers, Saas!BeginCancel(h)
  PROVE  SaasInv'
<1> USE SaasParameters DEF SaasInv, Saas!BeginCancel, Saas!Step
<1>1. PICK old \in {s \in Subs : sub[s] = "active"} :
        /\ req[h].at = "idle"
        /\ req' = [req EXCEPT ![h] = [at |-> "cancel", old |-> old, new |-> Saas!Gone]]
  OBVIOUS
<1>2. old \in Subs /\ sub[old] # "none" /\ old # Saas!Gone BY DEF Saas!SubsAssumption
<1>3. req'[h] = [at |-> "cancel", old |-> old, new |-> Saas!Gone] BY <1>1 DEF Saas!TypeOK
<1>4. \A g \in Handlers \ {h} : req'[g] = req[g] BY <1>1 DEF Saas!TypeOK
<1>5. Saas!TypeOK' BY <1>1, <1>2 DEF Saas!TypeOK, Saas!Req, Saas!ReqAt
<1>6. RequestsAreSound' BY <1>2, <1>3, <1>4 DEF RequestsAreSound
<1>7. RowsAreApart' BY <1>3, <1>4 DEF RowsAreApart
<1>8. IndexHolds' BY <1>3, <1>4 DEF IndexHolds, Saas!LiveRows
<1>9. BilledIsLive' /\ NoneTwice' BY DEF BilledIsLive, NoneTwice
<1>10. SeenTo' BY <1>1, <1>4 DEF SeenTo, Saas!LiveRows
<1> QED BY <1>5, <1>6, <1>7, <1>8, <1>9, <1>10

LEMMA SaasEnds ==
  ASSUME SaasInv, NEW h \in Handlers, Saas!EndedAtGateway(h)
  PROVE  SaasInv'
<1> USE SaasParameters DEF SaasInv, Saas!EndedAtGateway, Saas!Step
<1> DEFINE old == req[h].old
<1>1. old \in Subs /\ req[h] \in Saas!Req /\ req[h].new # Saas!Gone
  BY DEF RequestsAreSound, Saas!TypeOK, Saas!Req
<1>2. req'[h] = [at |-> "ready", old |-> old, new |-> req[h].new]
  BY <1>1 DEF Saas!TypeOK, Saas!Req
<1>3. \A g \in Handlers \ {h} : req'[g] = req[g] BY DEF Saas!TypeOK
<1>4. gw' \in [Subs -> {"none", "live", "ended"}] /\ gw'[old] = "ended"
      /\ \A s \in Subs \ {old} : gw'[s] = gw[s]
  BY <1>1 DEF Saas!TypeOK
<1>5. Saas!TypeOK' BY <1>1, <1>4 DEF Saas!TypeOK, Saas!Req, Saas!ReqAt
<1>6. RequestsAreSound'
  <2>1. \A g \in Handlers : req[g].new # old BY <1>1 DEF RequestsAreSound, Saas!SubsAssumption
  <2> QED BY <1>1, <1>2, <1>3, <1>4, <2>1 DEF RequestsAreSound, Saas!TypeOK, Saas!Req
<1>7. RowsAreApart' BY <1>1, <1>2, <1>3 DEF RowsAreApart
<1>8. IndexHolds' BY <1>2, <1>3 DEF IndexHolds, Saas!LiveRows
<1>9. BilledIsLive' /\ NoneTwice' BY <1>4 DEF BilledIsLive, NoneTwice
<1>10. SeenTo' BY <1>2, <1>3, <1>4 DEF SeenTo, Saas!LiveRows
<1> QED BY <1>5, <1>6, <1>7, <1>8, <1>9, <1>10

\* A request that lets go of what it holds.
LEMMA SaasReleases ==
  ASSUME SaasInv, NEW h \in Handlers, req' = [req EXCEPT ![h] = Saas!NoReq],
         UNCHANGED sub, gw' \in [Subs -> {"none", "live", "ended"}],
         \A s \in Subs : gw'[s] = gw[s] \/ s = req[h].new \/ (s = req[h].old /\ gw'[s] = "ended")
  PROVE  /\ req' \in [Handlers -> Saas!Req]
         /\ RequestsAreSound' /\ RowsAreApart' /\ IndexHolds'
         /\ \A g \in Handlers \ {h} : req'[g] = req[g]
<1> USE SaasParameters DEF SaasInv
<1>1. req'[h] = Saas!NoReq /\ \A g \in Handlers \ {h} : req'[g] = req[g] BY DEF Saas!TypeOK
<1>2. req' \in [Handlers -> Saas!Req] BY DEF Saas!TypeOK, Saas!Req, Saas!ReqAt
<1>3. RequestsAreSound'
  <2>1. ASSUME NEW g \in Handlers \ {h}, req[g].new # Saas!Gone
        PROVE  gw'[req[g].new] = "none"
    <3>1. req[g].new \in Subs /\ gw[req[g].new] = "none" /\ req[g].new # req[h].new
      BY <2>1 DEF RequestsAreSound, RowsAreApart, Saas!TypeOK, Saas!Req
    <3>2. req[g].new # req[h].old
      BY <2>1 DEF RequestsAreSound
    <3> QED BY <3>1, <3>2
  <2>2. ASSUME NEW g \in Handlers \ {h}, req[g].old # Saas!Gone, req[g].at \in Past
        PROVE  gw'[req[g].old] = "ended"
    <3>1. req[g].old \in Subs /\ gw[req[g].old] = "ended" /\ sub[req[g].old] # "none"
      BY <2>2 DEF RequestsAreSound, Saas!TypeOK, Saas!Req
    <3>2. req[g].old # req[h].new BY <2>2, <3>1 DEF RequestsAreSound, Saas!TypeOK, Saas!Req
    <3> QED BY <3>1, <3>2
  <2> QED BY <1>1, <2>1, <2>2 DEF RequestsAreSound
<1>4. RowsAreApart' BY <1>1 DEF RowsAreApart
<1>5. IndexHolds' BY <1>1 DEF IndexHolds, Saas!LiveRows
<1> QED BY <1>1, <1>2, <1>3, <1>4, <1>5

LEMMA SaasEndFails ==
  ASSUME SaasInv, NEW h \in Handlers, NEW ended \in BOOLEAN, Saas!EndFails(h, ended)
  PROVE  SaasInv'
<1> USE SaasParameters DEF SaasInv, Saas!EndFails, Saas!Step
<1>1. req[h].at \in {"start", "cancel"} /\ req' = [req EXCEPT ![h] = Saas!NoReq] OBVIOUS
<1>2. req[h].old \in Subs BY <1>1 DEF RequestsAreSound, Saas!TypeOK, Saas!Req
<1>3. gw' \in [Subs -> {"none", "live", "ended"}]
      /\ \A s \in Subs : gw'[s] = gw[s] \/ (s = req[h].old /\ ended /\ gw'[s] = "ended")
  BY <1>2 DEF Saas!TypeOK
<1>4. odd'.lost = odd.lost /\ odd'.left \subseteq Subs /\ odd.left \subseteq odd'.left
      /\ (ended => req[h].old \in odd'.left)
  BY <1>2 DEF Saas!TypeOK
<1>5. /\ req' \in [Handlers -> Saas!Req] /\ RequestsAreSound' /\ RowsAreApart' /\ IndexHolds'
      /\ \A g \in Handlers \ {h} : req'[g] = req[g]
  BY <1>1, <1>3, SaasReleases
<1>6. Saas!TypeOK' BY <1>3, <1>4, <1>5 DEF Saas!TypeOK
<1>7. BilledIsLive' /\ NoneTwice' BY <1>3, <1>4 DEF BilledIsLive, NoneTwice
<1>8. SeenTo'
  <2> SUFFICES ASSUME NEW s \in Saas!LiveRows', gw'[s] # "live", s \notin odd'.left
               PROVE  \E g \in Handlers : req'[g].old = s /\ req'[g].at \in Past
    BY DEF SeenTo
  <2>1. s \in Saas!LiveRows /\ gw[s] # "live" /\ s \notin odd.left
    BY <1>3, <1>4 DEF Saas!LiveRows
  <2>2. PICK g \in Handlers : req[g].old = s /\ req[g].at \in Past BY <2>1 DEF SeenTo
  <2>3. g # h BY <1>1, <2>2
  <2> QED BY <1>5, <2>2, <2>3
<1> QED BY <1>5, <1>6, <1>7, <1>8

LEMMA SaasConflicts ==
  ASSUME SaasInv, NEW h \in Handlers, Saas!Conflict(h)
  PROVE  SaasInv'
<1> USE SaasParameters DEF SaasInv, Saas!Conflict
<1>1. odd'.lost = odd.lost /\ odd'.left = odd.left \cup Saas!Left(h) /\ Saas!Left(h) \subseteq Subs
  BY DEF Saas!TypeOK, Saas!Left, Saas!LiveRows
<1>2. /\ req' \in [Handlers -> Saas!Req] /\ RequestsAreSound' /\ RowsAreApart' /\ IndexHolds'
      /\ \A g \in Handlers \ {h} : req'[g] = req[g]
  BY SaasReleases DEF Saas!TypeOK
<1>3. Saas!TypeOK' BY <1>1, <1>2 DEF Saas!TypeOK
<1>4. BilledIsLive' /\ NoneTwice' BY <1>1 DEF BilledIsLive, NoneTwice
<1>5. SeenTo' BY <1>1, <1>2 DEF SeenTo, Saas!LiveRows, Saas!Left
<1> QED BY <1>2, <1>3, <1>4, <1>5

LEMMA SaasCreateFails ==
  ASSUME SaasInv, NEW h \in Handlers, NEW made \in BOOLEAN, Saas!CreateFails(h, made)
  PROVE  SaasInv'
<1> USE SaasParameters DEF SaasInv, Saas!CreateFails, Saas!Step
<1>1. req[h].at = "flushed" /\ req' = [req EXCEPT ![h] = Saas!NoReq] OBVIOUS
<1>2. req[h].new \in Subs /\ sub[req[h].new] = "none"
  BY <1>1 DEF RequestsAreSound, Saas!TypeOK, Saas!Req
<1>3. gw' \in [Subs -> {"none", "live", "ended"}]
      /\ \A s \in Subs : gw'[s] = gw[s] \/ (s = req[h].new /\ made)
  BY <1>2 DEF Saas!TypeOK
<1>4. /\ odd'.left = odd.left \cup Saas!Left(h) /\ Saas!Left(h) \subseteq Subs
      /\ odd'.lost \subseteq Subs /\ odd.lost \subseteq odd'.lost
      /\ made => req[h].new \in odd'.lost
  BY <1>2 DEF Saas!TypeOK, Saas!Left, Saas!LiveRows
<1>5. /\ req' \in [Handlers -> Saas!Req] /\ RequestsAreSound' /\ RowsAreApart' /\ IndexHolds'
      /\ \A g \in Handlers \ {h} : req'[g] = req[g]
  BY <1>1, <1>3, SaasReleases
<1>6. Saas!TypeOK' BY <1>3, <1>4, <1>5 DEF Saas!TypeOK
<1>7. BilledIsLive' /\ NoneTwice' BY <1>3, <1>4 DEF BilledIsLive, NoneTwice
<1>8. SeenTo'
  <2>1. Saas!LiveRows' = Saas!LiveRows /\ req[h].new \notin Saas!LiveRows
    BY <1>2 DEF Saas!LiveRows
  <2> QED BY <1>3, <1>4, <1>5, <2>1 DEF SeenTo, Saas!LiveRows, Saas!Left
<1> QED BY <1>5, <1>6, <1>7, <1>8

\* The commit of a cancellation, or its wait for a start that holds the row.
LEMMA SaasCancels ==
  ASSUME SaasInv, NEW h \in Handlers, Saas!CancelCommits(h)
  PROVE  SaasInv'
<1> USE SaasParameters DEF SaasInv, Saas!CancelCommits, Saas!Step
<1> DEFINE old == req[h].old
           held == \E g \in Saas!Holders : req[g].old = old
<1>1. old \in Subs /\ old # Saas!Gone /\ sub[old] # "none" /\ req[h].new = Saas!Gone
      /\ req[h].at \in {"cancel", "waits"}
  BY DEF RequestsAreSound, Saas!TypeOK, Saas!Req
<1>2. gw' \in [Subs -> {"none", "live", "ended"}] /\ gw'[old] = "ended"
      /\ \A s \in Subs \ {old} : gw'[s] = gw[s]
  BY <1>1 DEF Saas!TypeOK
<1>3. \A s \in Subs : gw'[s] = gw[s] \/ (s = old /\ gw'[s] = "ended") BY <1>2
<1>4. CASE held /\ req[h].at = "cancel"
  <2>1. req' = [req EXCEPT ![h] = [req[h] EXCEPT !.at = "waits"]] /\ UNCHANGED sub
    BY <1>4 DEF Saas!TypeOK
  <2>2. req'[h] = [at |-> "waits", old |-> old, new |-> Saas!Gone]
    BY <1>1, <2>1 DEF Saas!TypeOK, Saas!Req
  <2>3. \A g \in Handlers \ {h} : req'[g] = req[g] BY <2>1 DEF Saas!TypeOK
  <2>4. Saas!TypeOK' BY <1>1, <1>2, <2>1, <2>2 DEF Saas!TypeOK, Saas!Req, Saas!ReqAt
  <2>5. RequestsAreSound'
    <3>1. \A g \in Handlers : req[g].new # old BY <1>1 DEF RequestsAreSound
    <3> QED BY <1>1, <1>2, <2>1, <2>2, <2>3, <3>1 DEF RequestsAreSound, Saas!TypeOK, Saas!Req
  <2>6. RowsAreApart' BY <1>1, <2>2, <2>3 DEF RowsAreApart
  <2>7. IndexHolds' BY <2>1, <2>2, <2>3 DEF IndexHolds, Saas!LiveRows
  <2>8. BilledIsLive' /\ NoneTwice' BY <1>2, <2>1 DEF BilledIsLive, NoneTwice
  <2>9. SeenTo' BY <1>2, <2>1, <2>2, <2>3 DEF SeenTo, Saas!LiveRows
  <2> QED BY <2>4, <2>5, <2>6, <2>7, <2>8, <2>9
<1>5. CASE ~held
  <2>1. req' = [req EXCEPT ![h] = Saas!NoReq] /\ sub' = [sub EXCEPT ![old] = "cancelled"]
    BY <1>5
  <2>2. req'[h] = Saas!NoReq /\ \A g \in Handlers \ {h} : req'[g] = req[g]
    BY <2>1 DEF Saas!TypeOK
  <2>3. /\ sub' \in [Subs -> Saas!Status] /\ sub'[old] = "cancelled"
        /\ \A s \in Subs \ {old} : sub'[s] = sub[s]
    BY <1>1, <2>1 DEF Saas!TypeOK, Saas!Status
  <2>4. Saas!TypeOK' BY <1>2, <2>1, <2>3 DEF Saas!TypeOK, Saas!Req, Saas!ReqAt
  <2>5. RequestsAreSound'
    <3>1. \A g \in Handlers : req[g].new # old BY <1>1 DEF RequestsAreSound
    <3> QED BY <1>2, <2>2, <2>3, <3>1 DEF RequestsAreSound, Saas!TypeOK, Saas!Req
  <2>6. RowsAreApart' BY <2>2 DEF RowsAreApart
  <2>7. Saas!LiveRows' = Saas!LiveRows \ {old} BY <1>1, <2>3 DEF Saas!LiveRows
  <2>8. IndexHolds' BY <2>2, <2>7 DEF IndexHolds
  <2>9. BilledIsLive' /\ NoneTwice' BY <1>2, <2>3 DEF BilledIsLive, NoneTwice
  <2>10. SeenTo'
    <3> SUFFICES ASSUME NEW s \in Saas!LiveRows', gw'[s] # "live", s \notin odd.left
                 PROVE  \E g \in Handlers : req'[g].old = s /\ req'[g].at \in Past
      BY DEF SeenTo
    <3>1. s \in Saas!LiveRows /\ s # old /\ gw[s] # "live" BY <1>2, <2>7 DEF Saas!LiveRows
    <3>2. PICK g \in Handlers : req[g].old = s /\ req[g].at \in Past BY <3>1 DEF SeenTo
    <3> QED BY <2>2, <3>1, <3>2
  <2> QED BY <2>4, <2>5, <2>6, <2>8, <2>9, <2>10
<1> QED BY <1>4, <1>5

\* The flush, at once or after a wait: nobody else holds the index.
LEMMA SaasFlushes ==
  ASSUME SaasInv, NEW h \in Handlers, Saas!Flush(h) \/ Saas!Resume(h)
  PROVE  SaasInv'
<1> USE SaasParameters DEF SaasInv
<1>1. PICK at \in {"waits", "flushed"} :
        /\ req' = [req EXCEPT ![h] = [req[h] EXCEPT !.at = at]]
        /\ req[h].at \in {"ready", "waits"} /\ req[h].new # Saas!Gone
        /\ at = "flushed" => Saas!Holders = {} /\ Saas!LiveRows \subseteq {req[h].old}
  <2>1. CASE Saas!Flush(h) /\ Saas!Holders # {}
    BY <2>1 DEF Saas!Flush, Saas!Step, RequestsAreSound
  <2>2. CASE Saas!Flush(h) /\ Saas!Holders = {}
    BY <2>2 DEF Saas!Flush, Saas!Step, Saas!Taken, RequestsAreSound
  <2>3. CASE Saas!Resume(h) BY <2>3 DEF Saas!Resume, Saas!Taken, Saas!TypeOK
  <2> QED BY <2>1, <2>2, <2>3
<1>2. UNCHANGED <<sub, gw, tenant, news, odd>> BY DEF Saas!Flush, Saas!Resume
<1>3. req[h] \in Saas!Req BY DEF Saas!TypeOK
<1>4. req'[h] = [at |-> at, old |-> req[h].old, new |-> req[h].new]
  BY <1>1, <1>3 DEF Saas!TypeOK, Saas!Req
<1>5. \A g \in Handlers \ {h} : req'[g] = req[g] BY <1>1 DEF Saas!TypeOK
<1>6. Saas!TypeOK' BY <1>1, <1>2, <1>3, <1>4 DEF Saas!TypeOK, Saas!Req, Saas!ReqAt
<1>7. RequestsAreSound' BY <1>1, <1>2, <1>4, <1>5 DEF RequestsAreSound
<1>8. RowsAreApart' BY <1>1, <1>4, <1>5 DEF RowsAreApart, Saas!Holders
<1>9. IndexHolds' BY <1>1, <1>2, <1>4, <1>5 DEF IndexHolds, Saas!LiveRows
<1>10. BilledIsLive' /\ NoneTwice' BY <1>2 DEF BilledIsLive, NoneTwice
<1>11. SeenTo' BY <1>1, <1>2, <1>4, <1>5 DEF SeenTo, Saas!LiveRows
<1> QED BY <1>6, <1>7, <1>8, <1>9, <1>10, <1>11

\* The commit of a start: what was billed was the row it replaces, and is ended.
LEMMA SaasStarts ==
  ASSUME SaasInv, NEW h \in Handlers, Saas!StartCommits(h)
  PROVE  SaasInv'
<1> USE SaasParameters DEF SaasInv, Saas!StartCommits, Saas!Step
<1> DEFINE old == req[h].old
           new == req[h].new
<1>1. /\ req[h].at = "flushed" /\ new \in Subs /\ sub[new] = "none" /\ gw[new] = "none"
      /\ old \in Subs \cup {Saas!Gone} /\ new # Saas!Gone /\ new # old
      /\ old # Saas!Gone => sub[old] # "none" /\ gw[old] = "ended"
  BY DEF RequestsAreSound, Saas!TypeOK, Saas!Req
<1>2. req'[h] = Saas!NoReq /\ \A g \in Handlers \ {h} : req'[g] = req[g] BY DEF Saas!TypeOK
<1>3. /\ gw' \in [Subs -> {"none", "live", "ended"}] /\ gw'[new] = "live"
      /\ \A s \in Subs \ {new} : gw'[s] = gw[s]
  BY <1>1 DEF Saas!TypeOK
<1>4. /\ sub' \in [Subs -> Saas!Status] /\ sub'[new] = "active"
      /\ old # Saas!Gone => sub'[old] = "cancelled"
      /\ \A s \in Subs \ {new, old} : sub'[s] = sub[s]
  BY <1>1 DEF Saas!TypeOK, Saas!Status
<1>5. \A s \in Subs \ {new} : (sub'[s] = "none") <=> (sub[s] = "none")
  <2> SUFFICES ASSUME NEW s \in Subs \ {new} PROVE (sub'[s] = "none") <=> (sub[s] = "none")
    OBVIOUS
  <2>1. CASE s = old BY <2>1, <1>1, <1>4 DEF Saas!SubsAssumption
  <2>2. CASE s # old BY <2>2, <1>4
  <2> QED BY <2>1, <2>2
<1>6. \A g \in Handlers \ {h} : req[g].new # Saas!Gone => req[g].new # new /\ req[g].new \in Subs
  BY <1>1 DEF RowsAreApart, Saas!TypeOK, Saas!Req
<1>7. \A g \in Handlers : req[g].old # Saas!Gone => req[g].old # new /\ req[g].old \in Subs
  BY <1>1 DEF RequestsAreSound, Saas!TypeOK, Saas!Req
<1>8. \A s \in Saas!LiveRows : s = old BY <1>1 DEF IndexHolds
<1>9. \A s \in Saas!LiveRows' : s = new BY <1>1, <1>4, <1>8 DEF Saas!LiveRows
<1>10. Saas!TypeOK' BY <1>3, <1>4 DEF Saas!TypeOK, Saas!Req, Saas!ReqAt
<1>11. RequestsAreSound'
  <2>1. ASSUME NEW g \in Handlers \ {h}, req[g].new # Saas!Gone
        PROVE  sub'[req[g].new] = "none" /\ gw'[req[g].new] = "none"
    BY <2>1, <1>3, <1>5, <1>6 DEF RequestsAreSound
  <2>2. ASSUME NEW g \in Handlers \ {h}, req[g].old # Saas!Gone
        PROVE  /\ sub'[req[g].old] # "none"
               /\ req[g].at \in Past => gw'[req[g].old] = "ended"
    BY <2>2, <1>3, <1>5, <1>7 DEF RequestsAreSound
  <2> QED BY <1>2, <2>1, <2>2 DEF RequestsAreSound
<1>12. RowsAreApart' BY <1>2 DEF RowsAreApart
<1>13. IndexHolds' BY <1>1, <1>2 DEF IndexHolds, RowsAreApart
<1>14. BilledIsLive' /\ NoneTwice'
  <2>1. \A s \in Subs \ odd.lost : gw[s] = "live" => s = old
    BY <1>8 DEF BilledIsLive, Saas!LiveRows
  <2>2. ASSUME NEW s \in Subs \ odd.lost, gw'[s] = "live", s # new PROVE FALSE
    <3>1. gw[s] = "live" BY <2>2, <1>3
    <3>2. s = old BY <2>1, <2>2, <3>1
    <3> QED BY <3>1, <3>2, <1>1, <2>2 DEF Saas!SubsAssumption
  <2> QED BY <2>2, <1>4 DEF BilledIsLive, NoneTwice
<1>15. SeenTo' BY <1>3, <1>9 DEF SeenTo, Saas!LiveRows
<1> QED BY <1>10, <1>11, <1>12, <1>13, <1>14, <1>15

\* An event of a bill, in whatever order: a row that lives again is remembered.
LEMMA SaasDelivers ==
  ASSUME SaasInv, NEW s \in Subs, NEW e \in Saas!Bills, Saas!Deliver(s, e)
  PROVE  SaasInv'
<1> USE SaasParameters DEF SaasInv, Saas!Deliver
<1>1. CASE sub[s] = "none"
  <2>1. UNCHANGED <<sub, gw, tenant, req, odd>> /\ news' \subseteq news BY <1>1
  <2>2. Saas!TypeOK' BY <2>1 DEF Saas!TypeOK
  <2> QED BY <2>1, <2>2 DEF RequestsAreSound, RowsAreApart, IndexHolds, BilledIsLive,
                           NoneTwice, SeenTo, Saas!LiveRows
<1>2. CASE sub[s] # "none"
  <2>1. /\ sub' \in [Subs -> Saas!Status] /\ sub'[s] \in Saas!Live
        /\ \A t \in Subs \ {s} : sub'[t] = sub[t]
    BY <1>2 DEF Saas!TypeOK, Saas!Status, Saas!Bills
  <2>2. /\ odd'.lost = odd.lost /\ odd'.left \subseteq Subs /\ odd.left \subseteq odd'.left
        /\ sub[s] = "cancelled" => s \in odd'.left
    <3>1. odd' = [odd EXCEPT !.left = IF sub[s] = "cancelled" THEN @ \cup {s} ELSE @]
      BY <1>2
    <3>2. CASE sub[s] = "cancelled" BY <3>1, <3>2 DEF Saas!TypeOK
    <3>3. CASE sub[s] # "cancelled" BY <3>1, <3>3 DEF Saas!TypeOK
    <3> QED BY <3>2, <3>3
  <2>3. Saas!Holders = {} /\ news' \subseteq news BY <1>2
  <2>4. tenant' \in [free : BOOLEAN, st : {"active", "suspended", "paused"},
                     why : {"none", "billing"}]
    <3>1. tenant' \in {tenant, Saas!Restored(tenant)} BY <1>2
    <3>2. CASE tenant.st = "suspended" /\ tenant.why = "billing"
      BY <3>1, <3>2 DEF Saas!TypeOK, Saas!Restored
    <3>3. CASE ~(tenant.st = "suspended" /\ tenant.why = "billing")
      BY <3>1, <3>3 DEF Saas!TypeOK, Saas!Restored
    <3> QED BY <3>2, <3>3
  <2>5. Saas!TypeOK' BY <2>1, <2>2, <2>3, <2>4 DEF Saas!TypeOK
  <2>6. RequestsAreSound' BY <1>2, <2>1 DEF RequestsAreSound, Saas!TypeOK, Saas!Req
  <2>7. RowsAreApart' BY DEF RowsAreApart
  <2>8. IndexHolds' BY <2>3 DEF IndexHolds, Saas!Holders
  <2>9. BilledIsLive' /\ NoneTwice' BY <2>1, <2>2 DEF BilledIsLive, NoneTwice
  <2>10. SeenTo'
    <3>1. sub[s] \in {"active", "overdue", "cancelled"} BY <1>2 DEF Saas!TypeOK, Saas!Status
    <3> QED BY <2>1, <2>2, <3>1 DEF SeenTo, Saas!LiveRows
  <2> QED BY <2>5, <2>6, <2>7, <2>8, <2>9, <2>10
<1> QED BY <1>1, <1>2

\* The steps that touch neither rows nor requests.
LEMMA SaasIsQuiet ==
  ASSUME SaasInv, Saas!TypeOK', UNCHANGED <<sub, gw, req, odd>>
  PROVE  SaasInv'
BY DEF SaasInv, RequestsAreSound, RowsAreApart, IndexHolds, BilledIsLive, NoneTwice, SeenTo,
       Saas!LiveRows

LEMMA SaasNext == ASSUME SaasInv, [Saas!Next]_OfSaas PROVE SaasInv'
<1>1. CASE UNCHANGED OfSaas
  BY <1>1, SaasIsQuiet DEF OfSaas, SaasInv, Saas!TypeOK
<1>2. ASSUME NEW h \in Handlers, Saas!OfRequest(h) PROVE SaasInv'
  BY <1>2, SaasBeginsStart, SaasBeginsCancel, SaasEnds, SaasCancels, SaasFlushes, SaasConflicts,
     SaasStarts, SaasEndFails, SaasCreateFails
  DEF Saas!OfRequest
<1>3. ASSUME NEW s \in Subs, NEW e \in Saas!Bills, Saas!Emit(s, e) PROVE SaasInv'
  BY <1>3, SaasIsQuiet DEF Saas!Emit, SaasInv, Saas!TypeOK
<1>4. ASSUME NEW s \in Subs, NEW e \in Saas!Bills, Saas!Deliver(s, e) PROVE SaasInv'
  BY <1>4, SaasDelivers
<1>5. CASE Saas!Sweep BY <1>5, SaasIsQuiet DEF Saas!Sweep, SaasInv, Saas!TypeOK
<1>6. ASSUME NEW st \in {"active", "suspended", "paused"}, Saas!SetStatus(st) PROVE SaasInv'
  BY <1>6, SaasIsQuiet DEF Saas!SetStatus, SaasInv, Saas!TypeOK
<1>7. ASSUME NEW b \in BOOLEAN, Saas!SetPlan(b) PROVE SaasInv'
  BY <1>7, SaasIsQuiet DEF Saas!SetPlan, SaasInv, Saas!TypeOK
<1> QED BY <1>1, <1>2, <1>3, <1>4, <1>5, <1>6, <1>7 DEF Saas!Next

LEMMA SaasCounts == ASSUME NEW S PROVE Saas!Cardinality(S) = Cardinality(S)
BY DEF Saas!Cardinality, Cardinality, Saas!IsFiniteSet, IsFiniteSet

LEMMA SaasFollows == ASSUME SaasInv PROVE Saas!RowsMatchGateway
<1>1. Saas!BilledOnce
  <2> DEFINE billed == {s \in Subs : gw[s] = "live"} \ odd.lost
  <2>1. \A s, t \in billed : s = t BY DEF SaasInv, NoneTwice
  <2>2. CASE billed = {} BY <2>2, FS_EmptySet, SaasCounts DEF Saas!BilledOnce
  <2>3. CASE billed # {}
    <3>1. PICK s : s \in billed BY <2>3
    <3>2. billed = {s} BY <2>1, <3>1
    <3>3. Cardinality(billed) = 1 BY <3>2, FS_Singleton
    <3>4. Saas!Cardinality(billed) = Cardinality(billed) BY SaasCounts
    <3> QED BY <3>3, <3>4 DEF Saas!BilledOnce
  <2> QED BY <2>2, <2>3
<1>2. Saas!LiveRowIsBilled BY DEF SaasInv, SeenTo, Saas!LiveRowIsBilled
<1> QED BY <1>1, <1>2 DEF Saas!RowsMatchGateway

HIDE SaasParameters DEF Saas!Gone, Saas!NoReq, Past, Saas!Live

----------------------------------------------------------------------------
(* Market *)

\* A step of Market is one of each component, or leaves it alone.
LEMMA PartsNext ==
  ASSUME [Next]_vars
  PROVE  /\ [Coupon!Next]_OfCoupon /\ [Tutor!Next]_OfTutor /\ [Walker!Next]_OfWalker
         /\ [Shared!Next]_OfShared /\ [Wallet!Next]_OfWallet
         /\ [Commission!Next]_OfCommission /\ [Tip!Next]_OfTip /\ [Saas!Next]_OfSaas
         /\ [Fiscal!Next]_OfFiscal
BY DEF Next, vars

\* CouponUse: a walk that opens without money is one the coupon covers, and its tutor has
\* redeemed it, however many requests redeem at once.
THEOREM FreeWalksAreCovered == Spec => []FreeWalkIsCovered
<1>1. Init => CouponInv BY CouponInit DEF Init
<1>2. CouponInv /\ [Next]_vars => CouponInv' BY PartsNext, CouponNext
<1>3. CouponInv => FreeWalkIsCovered BY DEF CouponInv, FreeWalkIsCovered
<1> QED BY <1>1, <1>2, <1>3, PTL DEF Spec

\* CouponUse: what redemptions in flight commit, single steps on an atomic voucher could.
THEOREM RedemptionsAreAtomic == Spec => RedeemsAtomically
<1>1. Init => CouponInv /\ Coupon!Voucher!Init BY CouponInit, CouponInitRefines DEF Init
<1>2. CouponInv /\ [Next]_vars => CouponInv' BY PartsNext, CouponNext
<1>3. CouponInv /\ [Next]_vars => [Coupon!Voucher!Next]_(Coupon!Voucher!voucherVars)
  BY PartsNext, CouponNextRefines
<1> QED BY <1>1, <1>2, <1>3, PTL DEF Spec, RedeemsAtomically, Coupon!Voucher!Spec

\* SaasBilling: the gateway bills a tenant once, and every live row is billed, over every
\* order of starts, cancellations, refusals and events.
THEOREM SubscriptionsAreBilled == Spec => []RowsMatchGateway
<1>1. Init => SaasInv BY SaasInit DEF Init
<1>2. SaasInv /\ [Next]_vars => SaasInv' BY PartsNext, SaasNext
<1>3. SaasInv => RowsMatchGateway BY SaasFollows DEF RowsMatchGateway
<1> QED BY <1>1, <1>2, <1>3, PTL DEF Spec

\* TutorReferrals and WalkerReferrals: a reward is given once and a bonus entered once,
\* whatever order the joins, walks and decisions that lead to them overlap in.
THEOREM ReferralsArePaidOnce == Spec => []ReferralsPayOnce
<1>1. Init => TutorInv /\ WalkerInv BY TutorInit, WalkerInit DEF Init
<1>2. TutorInv /\ WalkerInv /\ [Next]_vars => (TutorInv /\ WalkerInv)'
  BY PartsNext, TutorNext, WalkerNext
<1>3. TutorInv /\ WalkerInv => ReferralsPayOnce
  BY WalkerFollows DEF TutorInv, ReferralsPayOnce
<1> QED BY <1>1, <1>2, <1>3, PTL DEF Spec

\* SharedWalks: over any joins, payments, confirmations and departures that do not act on
\* stale rows, the group fits, has paid when it walks, and is dissolved with its session.
THEOREM GroupsAreSettled == Spec => []GroupIsSettled
<1>1. Init => SharedInv BY SharedInit DEF Init
<1>2. SharedInv /\ [Next]_vars => SharedInv' BY PartsNext, SharedNext
<1>3. SharedInv => GroupIsSettled BY DEF SharedInv, GroupIsSettled
<1> QED BY <1>1, <1>2, <1>3, PTL DEF Spec

\* WalkerWallet: a withdrawal is transferred once, and once more for every answer lost,
\* however often it is approved, rejected and given back.
THEOREM WithdrawalsLeaveOnce == Spec => []TransferredOnce
<1>1. Init => WalletInv BY WalletInit DEF Init
<1>2. WalletInv /\ [Next]_vars => WalletInv' BY PartsNext, WalletNext
<1>3. WalletInv => TransferredOnce BY DEF WalletInv, TransferredOnce
<1> QED BY <1>1, <1>2, <1>3, PTL DEF Spec

\* WalkerWallet: over requests in flight, approvals, rejections and failures told later, what
\* stands of the withdrawals never exceeds what the walks credited at their best.
THEOREM NobodyOverdraws == Spec => []NeverOverdrawn
<1>1. Init => WalletInv /\ Within BY WalletInit, WithinInit DEF Init
<1>2. WalletInv /\ Within /\ [Next]_vars => (WalletInv /\ Within)'
  BY PartsNext, WalletNext, WithinNext
<1>3. WalletInv /\ Within => NeverOverdrawn BY WithinFollows DEF NeverOverdrawn
<1> QED BY <1>1, <1>2, <1>3, PTL DEF Spec

\* CommissionBilling: entries and charges agree unless two runs raced or an answer was
\* lost, paid entries were in a paid charge, a reversed walk is void or credited.
THEOREM CommissionsAreBooked == Spec => []BooksMatchCharges
<1>1. Init => CommissionInv BY CommissionInit DEF Init
<1>2. CommissionInv /\ [Next]_vars => CommissionInv' BY PartsNext, CommissionNext
<1>3. CommissionInv => BooksMatchCharges BY CommissionFollows DEF BooksMatchCharges
<1> QED BY <1>1, <1>2, <1>3, PTL DEF Spec

\* TipLedger: one session is open, and only a charge that was paid counts, whatever the
\* order of checkouts and events.
THEOREM TipsAreCounted == Spec => []TipsFollowMoney
<1>1. Init => TipInv BY TipInit DEF Init
<1>2. TipInv /\ [Next]_vars => TipInv' BY PartsNext, TipNext
<1>3. TipInv => TipsFollowMoney BY TipFollows DEF TipsFollowMoney
<1> QED BY <1>1, <1>2, <1>3, PTL DEF Spec

\* FiscalNotes: one invoice stands for a payment, over any settlements, answers and events.
THEOREM NotesStandAlone == Spec => []OneNoteStands
<1>1. Init => FiscalInv BY FiscalInit DEF Init
<1>2. FiscalInv /\ [Next]_vars => FiscalInv' BY PartsNext, FiscalNext
<1>3. FiscalInv => OneNoteStands BY FiscalFollows DEF OneNoteStands
<1> QED BY <1>1, <1>2, <1>3, PTL DEF Spec

\* Every component keeps its types.
THEOREM TypeCorrect == Spec => []TypeOK
<1> DEFINE I == /\ CouponInv /\ TutorInv /\ WalkerInv /\ SharedInv /\ WalletInv
                /\ CommissionInv /\ TipInv /\ SaasInv /\ FiscalInv
<1>1. Init => I
  BY CouponInit, TutorInit, WalkerInit, SharedInit, WalletInit, CommissionInit, TipInit,
     SaasInit, FiscalInit DEF Init
<1>2. I /\ [Next]_vars => I'
  BY PartsNext, CouponNext, TutorNext, WalkerNext, SharedNext, WalletNext, CommissionNext,
     TipNext, SaasNext, FiscalNext
<1>3. I => TypeOK
  BY WalkerFollows, CommissionFollows, FiscalFollows
     DEF TypeOK, CouponInv, TutorInv, SharedInv, WalletInv, TipInv, SaasInv
<1> HIDE DEF I
<1> QED BY <1>1, <1>2, <1>3, PTL DEF Spec
=============================================================================
