------------------------------ MODULE SumLemmas ------------------------------
(***************************************************************************)
(* Facts about SumFunction of the community module Functions over finite   *)
(* domains: the SQL sums of the services are such sums.                    *)
(*                                                                         *)
(* SumFunction is a recursive function over the subsets of its domain.  An *)
(* induction over those subsets is the search for a minimal counterexample *)
(* (SubsetMin): a set of subsets stands where an induction theorem would   *)
(* take a predicate.                                                       *)
(***************************************************************************)
EXTENDS Integers, FiniteSets, Functions,
        FiniteSetTheorems, WellFoundedInduction, TLAPS

Pick(X) == CHOOSE x \in X : TRUE

\* g holds the sum of w over every subset of S.
Adds(g, w, S) ==
    g = [X \in SUBSET S |->
            IF X = {} THEN 0 ELSE w[Pick(X)] + g[X \ {Pick(X)}]]

\* The same, about one value of g.
LEMMA AddsValue ==
    ASSUME NEW g, NEW w, NEW S, Adds(g, w, S), NEW X \in SUBSET S
    PROVE  g[X] = IF X = {} THEN 0 ELSE w[Pick(X)] + g[X \ {Pick(X)}]
<1>. DEFINE F(Y) == IF Y = {} THEN 0 ELSE w[Pick(Y)] + g[Y \ {Pick(Y)}]
<1>1. g = [Y \in SUBSET S |-> F(Y)]
  BY DEF Adds
<1>. HIDE DEF F
<1>2. g[X] = F(X)
  BY <1>1
<1>. QED
  BY <1>2 DEF F

\* The empty sum is zero.
LEMMA AddsEmpty ==
    ASSUME NEW g, NEW w, NEW S, Adds(g, w, S)
    PROVE  g[{}] = 0
<1>1. g[{}] = IF {} = {} THEN 0 ELSE w[Pick({})] + g[{} \ {Pick({})}]
  <2>1. {} \in SUBSET S
    OBVIOUS
  <2>. QED BY <2>1, AddsValue, Zenon
<1>. QED
  BY <1>1

\* A sum is a term and the sum of the rest.
LEMMA AddsStep ==
    ASSUME NEW g, NEW w, NEW S, Adds(g, w, S), NEW X \in SUBSET S, X # {}
    PROVE  g[X] = w[Pick(X)] + g[X \ {Pick(X)}]
<1>1. g[X] = IF X = {} THEN 0 ELSE w[Pick(X)] + g[X \ {Pick(X)}]
  BY AddsValue, Zenon
<1>. QED
  BY <1>1

\* A set that is not empty has the element picked.
LEMMA PickIn == \A X : X # {} => Pick(X) \in X
BY DEF Pick

\* Among subsets of a finite set there is a minimal one.
LEMMA SubsetMin ==
    ASSUME NEW S, IsFiniteSet(S), NEW B, B \subseteq SUBSET S, B # {}
    PROVE  \E X \in B : \A Y \in B : Y \subseteq X => Y = X
<1>1. FiniteSubsetsOf(S) = SUBSET S
  BY FS_FiniteSubsetsOfFinite
<1>2. IsWellFoundedOn(StrictSubsetOrdering(S), SUBSET S)
  BY <1>1, FS_StrictSubsetOrderingWellFounded
<1>3. PICK X \in B : \A Y \in B : <<Y, X>> \notin StrictSubsetOrdering(S)
  BY <1>2, WFMin
<1>. QED
  BY <1>3 DEF StrictSubsetOrdering

\* Two functions that add up w agree where both are defined.
LEMMA AddsAgree ==
    ASSUME NEW w, NEW S, IsFiniteSet(S),
           NEW X \in SUBSET S, NEW Y \in SUBSET S,
           NEW f, Adds(f, w, X), NEW g, Adds(g, w, Y)
    PROVE  \A Z \in SUBSET (X \cap Y) : f[Z] = g[Z]
<1>. DEFINE B == {Z \in SUBSET (X \cap Y) : f[Z] # g[Z]}
<1>1. SUFFICES ASSUME B # {} PROVE FALSE
  OBVIOUS
<1>2. PICK Z \in B : \A U \in B : U \subseteq Z => U = Z
  <2>1. B \subseteq SUBSET S
    OBVIOUS
  <2>. HIDE DEF B
  <2>. QED BY <1>1, <2>1, SubsetMin
<1>3. Z \subseteq X /\ Z \subseteq Y /\ f[Z] # g[Z]
  OBVIOUS
<1>4. Z # {}
  BY <1>3, AddsEmpty
<1>5. Pick(Z) \in Z
  BY <1>4, PickIn
<1>6. f[Z \ {Pick(Z)}] = g[Z \ {Pick(Z)}]
  <2>1. Z \ {Pick(Z)} \notin B
    BY <1>2, <1>5
  <2>. QED BY <2>1
<1>. HIDE DEF B
<1>7. f[Z] = w[Pick(Z)] + f[Z \ {Pick(Z)}]
  BY <1>3, <1>4, AddsStep
<1>8. g[Z] = w[Pick(Z)] + g[Z \ {Pick(Z)}]
  BY <1>3, <1>4, AddsStep
<1>. QED
  BY <1>3, <1>6, <1>7, <1>8

\* A function that adds up natural numbers exists, and its values are natural.
LEMMA AddsExists ==
    ASSUME NEW S, IsFiniteSet(S), NEW w \in [S -> Nat]
    PROVE  \E g \in [SUBSET S -> Nat] : Adds(g, w, S)
<1>. DEFINE Has(X) == \E g \in [SUBSET X -> Nat] : Adds(g, w, X)
            B == {X \in SUBSET S : ~Has(X)}
<1>1. SUFFICES ASSUME B # {} PROVE FALSE
  <2>1. S \in SUBSET S
    OBVIOUS
  <2>2. S \notin B
    BY <1>1
  <2>. QED BY <2>1, <2>2
<1>2. PICK X \in B : \A U \in B : U \subseteq X => U = X
  <2>1. B \subseteq SUBSET S
    OBVIOUS
  <2>. HIDE DEF B
  <2>. QED BY <1>1, <2>1, SubsetMin
<1>3. X \in SUBSET S /\ ~Has(X)
  OBVIOUS
<1>4. \A Y \in SUBSET X : Y # X => Has(Y)
  BY <1>2, <1>3
<1>. DEFINE G(Y) == CHOOSE g \in [SUBSET Y -> Nat] : Adds(g, w, Y)
<1>5. ASSUME NEW Y \in SUBSET X, Y # X
      PROVE  G(Y) \in [SUBSET Y -> Nat] /\ Adds(G(Y), w, Y)
  BY <1>4, <1>5
<1>. HIDE DEF G, Has, B
<1>. DEFINE Rest(Y) == Y \ {Pick(Y)}
            V(Y) == IF Y = {} THEN 0 ELSE w[Pick(Y)] + G(Rest(Y))[Rest(Y)]
            h == [Y \in SUBSET X |-> V(Y)]
<1>6. ASSUME NEW Y \in SUBSET X, Y # {}
      PROVE  /\ Rest(Y) \in SUBSET X
             /\ Rest(Y) # X
             /\ Pick(Y) \in S
  BY <1>3, <1>6, PickIn
<1>7. \A Y \in SUBSET X : V(Y) \in Nat
  <2>1. ASSUME NEW Y \in SUBSET X, Y # {} PROVE V(Y) \in Nat
    <3>1. Rest(Y) \in SUBSET X /\ Rest(Y) # X /\ w[Pick(Y)] \in Nat
      BY <1>6, <2>1
    <3>2. G(Rest(Y)) \in [SUBSET Rest(Y) -> Nat]
      BY <1>5, <3>1
    <3>3. G(Rest(Y))[Rest(Y)] \in Nat
      <4>. HIDE DEF Rest
      <4>. QED BY <3>2
    <3>. QED BY <2>1, <3>1, <3>3
  <2>. QED BY <2>1
<1>8. \A Y \in SUBSET X : Y # X => V(Y) = G(Y)[Y]
  <2>1. ASSUME NEW Y \in SUBSET X, Y # X, Y = {} PROVE V(Y) = G(Y)[Y]
    <3>1. G(Y)[Y] = 0
      BY <1>5, <2>1, AddsEmpty
    <3>. QED BY <2>1, <3>1
  <2>2. ASSUME NEW Y \in SUBSET X, Y # X, Y # {} PROVE V(Y) = G(Y)[Y]
    <3>1. Rest(Y) \in SUBSET X /\ Rest(Y) # X /\ Rest(Y) \subseteq Y
      BY <1>6, <2>2
    <3>2. Adds(G(Y), w, Y) /\ Adds(G(Rest(Y)), w, Rest(Y))
      BY <1>5, <2>2, <3>1
    <3>3. G(Y)[Y] = w[Pick(Y)] + G(Y)[Rest(Y)]
      <4>1. Y \in SUBSET Y
        OBVIOUS
      <4>. QED BY <2>2, <3>2, <4>1, AddsStep
    <3>4. Y \in SUBSET S /\ Rest(Y) \in SUBSET S
      BY <1>3, <3>1
    <3>5. Rest(Y) \in SUBSET (Y \cap Rest(Y))
      BY <3>1
    <3>. HIDE DEF Rest
    <3>6. G(Y)[Rest(Y)] = G(Rest(Y))[Rest(Y)]
      BY <3>2, <3>4, <3>5, AddsAgree
    <3>. QED BY <2>2, <3>3, <3>6
  <2>. QED BY <2>1, <2>2
<1>9. h \in [SUBSET X -> Nat]
  BY <1>7
<1>10. Adds(h, w, X)
  <2>1. \A Y \in SUBSET X : Y # {} => V(Y) = w[Pick(Y)] + h[Rest(Y)]
    <3>1. ASSUME NEW Y \in SUBSET X, Y # {}
          PROVE  V(Y) = w[Pick(Y)] + h[Rest(Y)]
      <4>1. Rest(Y) \in SUBSET X /\ Rest(Y) # X
        BY <1>6, <3>1
      <4>2. V(Rest(Y)) = G(Rest(Y))[Rest(Y)]
        BY <1>8, <4>1
      <4>3. h[Rest(Y)] = V(Rest(Y))
        BY <4>1
      <4>. QED BY <3>1, <4>2, <4>3
    <3>. QED BY <3>1
  <2>2. h = [Y \in SUBSET X |-> IF Y = {} THEN 0 ELSE w[Pick(Y)] + h[Rest(Y)]]
    BY <2>1
  <2>. QED BY <2>2 DEF Adds
<1>. QED
  BY <1>3, <1>9, <1>10 DEF Has

\* SumFunction is the value of such a function at the whole domain.
LEMMA SumIsAdds ==
    ASSUME NEW S, IsFiniteSet(S), NEW w \in [S -> Nat]
    PROVE  \E g \in [SUBSET S -> Nat] : Adds(g, w, S) /\ SumFunction(w) = g[S]
<1>. DEFINE it == CHOOSE g : Adds(g, w, DOMAIN w)
<1>1. PICK g \in [SUBSET S -> Nat] : Adds(g, w, S)
  BY AddsExists
<1>2. Adds(it, w, S)
  BY <1>1
<1>3. SumFunction(w) = it[DOMAIN w]
  BY DEF SumFunction, SumFunctionOnSet, FoldFunctionOnSet, MapThenFoldSet,
         Adds, Pick
<1>. HIDE DEF it
<1>4. \A Z \in SUBSET (S \cap S) : it[Z] = g[Z]
  BY <1>1, <1>2, AddsAgree
<1>5. it[S] = g[S]
  BY <1>4
<1>. QED
  BY <1>1, <1>3, <1>5

\* A sum of natural numbers is a natural number.
THEOREM SumIsNat ==
    ASSUME NEW S, IsFiniteSet(S), NEW w \in [S -> Nat]
    PROVE  SumFunction(w) \in Nat
<1>1. PICK g \in [SUBSET S -> Nat] : SumFunction(w) = g[S]
  BY SumIsAdds
<1>. QED
  BY <1>1

\* If only the term at a may grow, and by at most k, so may the sum.
THEOREM SumGrowth ==
    ASSUME NEW S, IsFiniteSet(S), NEW v \in [S -> Nat], NEW w \in [S -> Nat],
           NEW a, NEW k \in Nat,
           \A s \in S : w[s] <= v[s] + (IF s = a THEN k ELSE 0)
    PROVE  SumFunction(w) <= SumFunction(v) + k
<1>1. PICK f \in [SUBSET S -> Nat] : Adds(f, v, S) /\ SumFunction(v) = f[S]
  BY SumIsAdds
<1>2. PICK g \in [SUBSET S -> Nat] : Adds(g, w, S) /\ SumFunction(w) = g[S]
  BY SumIsAdds
<1>. DEFINE Extra(X) == IF a \in X THEN k ELSE 0
            B == {X \in SUBSET S : ~(g[X] <= f[X] + Extra(X))}
<1>3. B = {}
  <2>1. SUFFICES ASSUME B # {} PROVE FALSE
    OBVIOUS
  <2>2. PICK X \in B : \A U \in B : U \subseteq X => U = X
    <3>1. B \subseteq SUBSET S
      OBVIOUS
    <3>. HIDE DEF B
    <3>. QED BY <2>1, <3>1, SubsetMin
  <2>3. X \in SUBSET S /\ ~(g[X] <= f[X] + Extra(X))
    OBVIOUS
  <2>4. X # {}
    <3>1. f[{}] = 0 /\ g[{}] = 0
      BY <1>1, <1>2, AddsEmpty
    <3>2. ASSUME X = {} PROVE FALSE
      <4>1. a \notin X
        BY <3>2
      <4>2. Extra(X) = 0 /\ g[X] = 0 /\ f[X] = 0
        BY <3>1, <3>2, <4>1
      <4>. HIDE DEF Extra
      <4>. QED BY <2>3, <4>2
    <3>. QED BY <3>2
  <2>. DEFINE p == Pick(X)
              R == X \ {p}
  <2>5. p \in X /\ p \in S /\ R \in SUBSET S
    BY <2>3, <2>4, PickIn
  <2>6. g[R] <= f[R] + Extra(R)
    <3>1. R \notin B
      BY <2>2, <2>5
    <3>. QED BY <2>5, <3>1
  <2>7. f[X] = v[p] + f[R] /\ g[X] = w[p] + g[R]
    BY <1>1, <1>2, <2>3, <2>4, AddsStep
  <2>8. /\ f[R] \in Nat /\ g[R] \in Nat /\ v[p] \in Nat /\ w[p] \in Nat
        /\ w[p] <= v[p] + (IF p = a THEN k ELSE 0)
    BY <2>5
  <2>9. Extra(X) = Extra(R) + (IF p = a THEN k ELSE 0)
    BY <2>5
  <2>. HIDE DEF p, R, Extra
  <2>. QED
    <3>1. Extra(R) \in Nat
      BY DEF Extra
    <3>. QED BY <2>3, <2>6, <2>7, <2>8, <2>9, <3>1
<1>4. g[S] <= f[S] + Extra(S)
  BY <1>3
<1>. QED
  BY <1>1, <1>2, <1>4

\* A sum of zeros is zero.
THEOREM SumOfZeros ==
    ASSUME NEW S, IsFiniteSet(S), NEW w \in [S -> Nat], \A s \in S : w[s] = 0
    PROVE  SumFunction(w) = 0
<1>1. PICK g \in [SUBSET S -> Nat] : Adds(g, w, S) /\ SumFunction(w) = g[S]
  BY SumIsAdds
<1>. DEFINE B == {X \in SUBSET S : g[X] # 0}
<1>2. B = {}
  <2>1. SUFFICES ASSUME B # {} PROVE FALSE
    OBVIOUS
  <2>2. PICK X \in B : \A U \in B : U \subseteq X => U = X
    <3>1. B \subseteq SUBSET S
      OBVIOUS
    <3>. HIDE DEF B
    <3>. QED BY <2>1, <3>1, SubsetMin
  <2>3. X \in SUBSET S /\ g[X] # 0
    OBVIOUS
  <2>4. X # {}
    BY <1>1, <2>3, AddsEmpty
  <2>5. Pick(X) \in X /\ X \ {Pick(X)} \in SUBSET S
    BY <2>3, <2>4, PickIn
  <2>6. g[X \ {Pick(X)}] = 0
    <3>1. X \ {Pick(X)} \notin B
      BY <2>2, <2>5
    <3>. QED BY <2>5, <3>1
  <2>7. g[X] = w[Pick(X)] + g[X \ {Pick(X)}]
    BY <1>1, <2>3, <2>4, AddsStep
  <2>8. w[Pick(X)] = 0
    BY <2>3, <2>5
  <2>. QED BY <2>3, <2>6, <2>7, <2>8
<1>3. g[S] = 0
  BY <1>2
<1>. QED
  BY <1>1, <1>3

\* Any term may be taken out of a sum, not only the one that is picked.
LEMMA AddsAnyTerm ==
    ASSUME NEW S, IsFiniteSet(S), NEW w \in [S -> Nat],
           NEW g \in [SUBSET S -> Nat], Adds(g, w, S)
    PROVE  \A X \in SUBSET S : \A x \in X : g[X] = w[x] + g[X \ {x}]
<1>. DEFINE B == {X \in SUBSET S : \E x \in X : g[X] # w[x] + g[X \ {x}]}
<1>1. SUFFICES ASSUME B # {} PROVE FALSE
  OBVIOUS
<1>2. PICK X \in B : \A U \in B : U \subseteq X => U = X
  <2>1. B \subseteq SUBSET S
    OBVIOUS
  <2>. HIDE DEF B
  <2>. QED BY <1>1, <2>1, SubsetMin
<1>3. PICK x \in X : g[X] # w[x] + g[X \ {x}]
  OBVIOUS
<1>4. X \in SUBSET S /\ X # {} /\ Pick(X) \in X
  BY <1>3, PickIn
<1>. DEFINE p == Pick(X)
            R == (X \ {p}) \ {x}
<1>5. g[X] = w[p] + g[X \ {p}]
  BY <1>4, AddsStep
<1>6. p \in X /\ p # x
  BY <1>3, <1>4, <1>5
<1>. HIDE DEF p
<1>7. g[X \ {p}] = w[x] + g[R]
  <2>1. X \ {p} \notin B
    BY <1>2, <1>6
  <2>. QED BY <1>3, <1>4, <1>6, <2>1
<1>8. g[X \ {x}] = w[p] + g[R]
  <2>1. X \ {x} \notin B
    BY <1>2, <1>3
  <2>2. (X \ {x}) \ {p} = R
    OBVIOUS
  <2>. QED BY <1>4, <1>6, <2>1, <2>2
<1>9. w[p] \in Nat /\ w[x] \in Nat /\ g[R] \in Nat
  BY <1>3, <1>4, <1>6
<1>. HIDE DEF B, R
<1>. QED
  BY <1>3, <1>5, <1>7, <1>8, <1>9

\* A sum is any of its terms and the sum of the others.
THEOREM SumWithout ==
    ASSUME NEW S, IsFiniteSet(S), NEW w \in [S -> Nat], NEW a \in S
    PROVE  SumFunction(w) = w[a] + SumFunction([s \in S \ {a} |-> w[s]])
<1>. DEFINE T == S \ {a}
            v == [s \in T |-> w[s]]
<1>1. IsFiniteSet(T) /\ v \in [T -> Nat] /\ T \in SUBSET S
  BY FS_Subset
<1>. HIDE DEF v
<1>2. PICK f \in [SUBSET S -> Nat] : Adds(f, w, S) /\ SumFunction(w) = f[S]
  BY SumIsAdds
<1>3. PICK g \in [SUBSET T -> Nat] : Adds(g, v, T) /\ SumFunction(v) = g[T]
  BY <1>1, SumIsAdds
<1>4. Adds(g, w, T)
  <2>1. \A X \in SUBSET T : X # {} => v[Pick(X)] = w[Pick(X)]
    BY PickIn DEF v
  <2>. QED BY <1>3, <2>1 DEF Adds
<1>5. S \in SUBSET S /\ T \in SUBSET (S \cap T)
  OBVIOUS
<1>6. f[T] = g[T]
  BY <1>1, <1>2, <1>4, <1>5, AddsAgree
<1>7. f[S] = w[a] + f[S \ {a}]
  BY <1>2, AddsAnyTerm
<1>. QED
  BY <1>2, <1>3, <1>6, <1>7 DEF v

\* Where one function is the sum of two, so is its sum.
THEOREM SumPlus ==
    ASSUME NEW S, IsFiniteSet(S),
           NEW u \in [S -> Nat], NEW v \in [S -> Nat], NEW w \in [S -> Nat],
           \A s \in S : u[s] = v[s] + w[s]
    PROVE  SumFunction(u) = SumFunction(v) + SumFunction(w)
<1>1. PICK e \in [SUBSET S -> Nat] : Adds(e, u, S) /\ SumFunction(u) = e[S]
  BY SumIsAdds
<1>2. PICK f \in [SUBSET S -> Nat] : Adds(f, v, S) /\ SumFunction(v) = f[S]
  BY SumIsAdds
<1>3. PICK g \in [SUBSET S -> Nat] : Adds(g, w, S) /\ SumFunction(w) = g[S]
  BY SumIsAdds
<1>. DEFINE B == {X \in SUBSET S : e[X] # f[X] + g[X]}
<1>4. B = {}
  <2>1. SUFFICES ASSUME B # {} PROVE FALSE
    OBVIOUS
  <2>2. PICK X \in B : \A U \in B : U \subseteq X => U = X
    <3>1. B \subseteq SUBSET S
      OBVIOUS
    <3>. HIDE DEF B
    <3>. QED BY <2>1, <3>1, SubsetMin
  <2>3. X \in SUBSET S /\ e[X] # f[X] + g[X]
    OBVIOUS
  <2>4. X # {}
    <3>1. e[{}] = 0
      BY <1>1, AddsEmpty
    <3>2. f[{}] = 0 /\ g[{}] = 0
      BY <1>2, <1>3, AddsEmpty
    <3>3. e[{}] = f[{}] + g[{}]
      BY <3>1, <3>2
    <3>. HIDE DEF B
    <3>. QED BY <2>3, <3>3
  <2>. DEFINE p == Pick(X)
              R == X \ {p}
  <2>5. p \in X /\ p \in S /\ R \in SUBSET S
    BY <2>3, <2>4, PickIn
  <2>6. e[R] = f[R] + g[R]
    <3>1. R \notin B
      BY <2>2, <2>5
    <3>. QED BY <2>5, <3>1
  <2>7. e[X] = u[p] + e[R] /\ f[X] = v[p] + f[R] /\ g[X] = w[p] + g[R]
    <3>1. X \in SUBSET S /\ X # {}
      BY <2>3, <2>4
    <3>. HIDE DEF B, p, R
    <3>2. e[X] = u[Pick(X)] + e[X \ {Pick(X)}]
      <4>1. Adds(e, u, S)
        BY <1>1
      <4>. QED BY <3>1, <4>1, AddsStep
    <3>3. f[X] = v[Pick(X)] + f[X \ {Pick(X)}]
      <4>1. Adds(f, v, S)
        BY <1>2
      <4>. QED BY <3>1, <4>1, AddsStep
    <3>4. g[X] = w[Pick(X)] + g[X \ {Pick(X)}]
      <4>1. Adds(g, w, S)
        BY <1>3
      <4>. QED BY <3>1, <4>1, AddsStep
    <3>. QED BY <3>2, <3>3, <3>4 DEF p, R
  <2>8. f[R] \in Nat /\ g[R] \in Nat /\ v[p] \in Nat /\ w[p] \in Nat /\ u[p] = v[p] + w[p]
    BY <2>5
  <2>. HIDE DEF p, R, B
  <2>9. e[X] = f[X] + g[X]
    <3>1. \A i, j, k, l \in Nat : (i + j) + (k + l) = (i + k) + (j + l)
      OBVIOUS
    <3>2. (v[p] + w[p]) + (f[R] + g[R]) = (v[p] + f[R]) + (w[p] + g[R])
      BY <2>8, <3>1
    <3>. QED BY <2>6, <2>7, <2>8, <3>2
  <2>. QED BY <2>3, <2>9
<1>5. e[S] = f[S] + g[S]
  BY <1>4
<1>. QED
  BY <1>1, <1>2, <1>3, <1>5

=============================================================================
