--------------------------- MODULE ProgressProofs ---------------------------
(***************************************************************************)
(* Proofs about the progress figures, for every number of rows: whichever  *)
(* query computes a figure, the result is the same, and the figures of a   *)
(* section and of a project are the sums over the work items below.        *)
(*                                                                         *)
(* A sum is a fold, defined by recursion over the subsets of a finite set. *)
(* The induction over it is the existence of a smallest counterexample:    *)
(* among the finite sets strict inclusion is well founded (WFMin), and a   *)
(* set of counterexamples, unlike a predicate, can be given to a theorem.  *)
(***************************************************************************)
EXTENDS Progress, FiniteSetTheorems, TLAPS

-----------------------------------------------------------------------------
(* Induction and sums. *)

\* What holds of a finite set whenever it holds of its strict subsets holds.
LEMMA SubsetInduction ==
  ASSUME NEW S, IsFiniteSet(S), NEW G,
         \A T \in SUBSET S : (\A U \in SUBSET T : U # T => U \in G) => T \in G
  PROVE  S \in G
<1> DEFINE Bad == {T \in SUBSET S : T \notin G}
<1>1. SUFFICES ASSUME Bad # {} PROVE FALSE
  OBVIOUS
<1>2. Bad \subseteq FiniteSubsetsOf(S)
  BY FS_Subset DEF FiniteSubsetsOf
<1>3. PICK T \in Bad : \A U \in Bad : <<U, T>> \notin StrictSubsetOrdering(S)
  <2> HIDE DEF Bad
  <2> QED BY <1>1, <1>2, WFMin, FS_StrictSubsetOrderingWellFounded
<1>4. \A U \in SUBSET T : U # T => U \in G
  BY <1>3 DEF StrictSubsetOrdering
<1> QED
  BY <1>3, <1>4

\* Counting up from 0.
LEMMA CountingUp ==
  ASSUME NEW m \in Nat, NEW G, 0 \in G, \A n \in 0..m : n # m /\ n \in G => n + 1 \in G
  PROVE  m \in G
<1> DEFINE All == 0..m
           Good == {T \in SUBSET All : \A k \in All : T = 0..k => k \in G}
<1>1. ASSUME NEW T \in SUBSET All, \A U \in SUBSET T : U # T => U \in Good
      PROVE  T \in Good
  <2>1. SUFFICES ASSUME NEW k \in 0..m, T = 0..k PROVE k \in G
    OBVIOUS
  <2>2. CASE k = 0
    BY <2>2
  <2>3. CASE k # 0
    <3>1. k - 1 \in 0..m /\ k - 1 # m /\ 0..(k - 1) \in SUBSET T
      BY <2>1, <2>3
    <3>2. 0..(k - 1) # T
      BY <2>1, <2>3
    <3>3. k - 1 \in G
      BY <1>1, <3>1, <3>2
    <3>4. (k - 1) + 1 \in G
      BY <3>1, <3>3
    <3> QED
      BY <3>4
  <2> QED
    BY <2>2, <2>3
<1>2. IsFiniteSet(All)
  BY FS_Interval
<1>3. All \in Good
  <2>1. \A T \in SUBSET All : (\A U \in SUBSET T : U # T => U \in Good) => T \in Good
    BY <1>1
  <2> HIDE DEF All, Good
  <2> QED BY <1>2, <2>1, SubsetInduction
<1> QED
  BY <1>3

\* The element a fold takes out of s.
Picked(s) == CHOOSE x \in s : TRUE

\* The recursive definition of a sum defines a function.
LEMMA SumUnfolds ==
  ASSUME NEW I, IsFiniteSet(I), NEW g \in [I -> Nat]
  PROVE  \E f : /\ f = [s \in SUBSET I |-> IF s = {} THEN 0 ELSE g[Picked(s)] + f[s \ {Picked(s)}]]
                /\ SumFunction(g) = f[I]
<1> DEFINE Sized(n) == {s \in SUBSET I : Cardinality(s) <= n}
           F(h, D) == [s \in D |-> IF s = {} THEN 0 ELSE g[Picked(s)] + h[s \ {Picked(s)}]]
           G == {n \in Nat : \E f : f = F(f, Sized(n))}
<1>1. \A s \in SUBSET I : IsFiniteSet(s) /\ Cardinality(s) \in Nat
  BY FS_Subset, FS_CardinalityType
<1>2. 0 \in G
  <2>1. \A s \in Sized(0) : s = {}
    BY <1>1, FS_EmptySet
  <2>2. [s \in Sized(0) |-> 0] = F([s \in Sized(0) |-> 0], Sized(0))
    BY <2>1
  <2> QED
    BY <2>2
<1>3. ASSUME NEW n \in Nat, n \in G PROVE n + 1 \in G
  <2>1. PICK f : f = F(f, Sized(n))
    BY <1>3
  <2> DEFINE h == F(f, Sized(n + 1))
  <2>2. ASSUME NEW s \in Sized(n + 1), s # {} PROVE s \ {Picked(s)} \in Sized(n)
    <3>1. Picked(s) \in s
      BY <2>2 DEF Picked
    <3>2. Cardinality(s \ {Picked(s)}) = Cardinality(s) - 1
      BY <1>1, <3>1, FS_RemoveElement
    <3> QED
      BY <1>1, <3>2
  <2>3. ASSUME NEW s \in Sized(n) PROVE h[s] = f[s]
    <3>1. s \in Sized(n + 1)
      BY <1>1
    <3>2. h[s] = IF s = {} THEN 0 ELSE g[Picked(s)] + f[s \ {Picked(s)}]
      BY <3>1
    <3>3. f[s] = IF s = {} THEN 0 ELSE g[Picked(s)] + f[s \ {Picked(s)}]
      <4> HIDE DEF Sized
      <4> QED BY <2>1
    <3> QED
      BY <3>2, <3>3
  <2>4. h = F(h, Sized(n + 1))
    <3> DEFINE D == Sized(n + 1)
    <3>1. \A s \in D : s # {} => h[s \ {Picked(s)}] = f[s \ {Picked(s)}]
      BY <2>2, <2>3
    <3> HIDE DEF Sized
    <3> QED
      BY <3>1
  <2>5. \E w : w = F(w, Sized(n + 1))
    <3> HIDE DEF h, F
    <3> QED
      BY <2>4
  <2>6. n + 1 \in Nat
    OBVIOUS
  <2> HIDE DEF F, Sized
  <2> QED
    BY <2>5, <2>6
<1>4. Cardinality(I) \in G
  <2>1. Cardinality(I) \in Nat
    BY <1>1
  <2> HIDE DEF G
  <2> QED
    BY <1>2, <1>3, <2>1, CountingUp
<1>5. Sized(Cardinality(I)) = SUBSET I
  BY FS_Subset, FS_CardinalityType
<1>6. \E f : f = F(f, SUBSET I)
  <2> HIDE DEF Sized
  <2> QED BY <1>4, <1>5
<1> DEFINE iter == CHOOSE f : f = F(f, SUBSET I)
<1>7. iter = F(iter, SUBSET I)
  BY <1>6
<1>8. SumFunction(g) = iter[I]
  BY DEF SumFunction, SumFunctionOnSet, FoldFunctionOnSet, MapThenFoldSet, Picked
<1> QED
  BY <1>7, <1>8

\* The classes of a finite set have as many members as the set.
LEMMA SumOfClasses ==
  ASSUME NEW P, IsFiniteSet(P), NEW I, IsFiniteSet(I), NEW class \in [P -> I]
  PROVE  SumFunction([i \in I |-> Cardinality({p \in P : class[p] = i})]) = Cardinality(P)
<1> DEFINE g == [i \in I |-> Cardinality({p \in P : class[p] = i})]
           Of(s) == {p \in P : class[p] \in s}
<1>1. \A s : IsFiniteSet(Of(s)) /\ Cardinality(Of(s)) \in Nat
  BY FS_Subset, FS_CardinalityType
<1>2. \A i \in I : IsFiniteSet({p \in P : class[p] = i}) /\ Cardinality({p \in P : class[p] = i}) \in Nat
  BY FS_Subset, FS_CardinalityType
<1>3. g \in [I -> Nat]
  BY <1>2
<1>4. PICK f : /\ f = [s \in SUBSET I |-> IF s = {} THEN 0 ELSE g[Picked(s)] + f[s \ {Picked(s)}]]
               /\ SumFunction(g) = f[I]
  <2> HIDE DEF g
  <2> QED
    BY <1>3, SumUnfolds
<1> DEFINE Good == {s \in SUBSET I : f[s] = Cardinality(Of(s))}
<1>5. ASSUME NEW s \in SUBSET I, \A u \in SUBSET s : u # s => u \in Good PROVE s \in Good
  <2>1. CASE s = {}
    <3>1. Of(s) = {} /\ f[s] = 0
      BY <1>4, <2>1
    <3> QED
      BY <3>1, FS_EmptySet
  <2>2. CASE s # {}
    <3> DEFINE x == Picked(s)  u == s \ {x}  C == {p \in P : class[p] = x}
    <3>1. x \in s /\ x \in I
      BY <2>2 DEF Picked
    <3>2. f[s] = g[x] + f[u]
      <4> HIDE DEF g
      <4> QED
        BY <1>4, <2>2
    <3>3. f[u] = Cardinality(Of(u))
      BY <1>5, <3>1
    <3>4. g[x] = Cardinality(C)
      BY <3>1
    <3>5. Of(s) = C \cup Of(u) /\ C \cap Of(u) = {}
      BY <3>1
    <3>6. Cardinality(C \cup Of(u)) = Cardinality(C) + Cardinality(Of(u)) - Cardinality({})
      <4>1. IsFiniteSet(C) /\ IsFiniteSet(Of(u))
        BY <1>1, <1>2, <3>1
      <4> QED
        BY <3>5, <4>1, FS_Union
    <3>7. Cardinality(Of(s)) = Cardinality(C) + Cardinality(Of(u))
      <4>1. Cardinality({}) = 0
        BY FS_EmptySet
      <4>2. Cardinality(C) \in Nat /\ Cardinality(Of(u)) \in Nat
        BY <1>1, <1>2, <3>1
      <4> HIDE DEF C, Of
      <4> QED
        BY <3>5, <3>6, <4>1, <4>2
    <3> QED
      BY <3>2, <3>3, <3>4, <3>7
  <2> QED
    BY <2>1, <2>2
<1>6. I \in Good
  <2>1. \A s \in SUBSET I : (\A u \in SUBSET s : u # s => u \in Good) => s \in Good
    BY <1>5
  <2> HIDE DEF Good
  <2> QED
    BY <2>1, SubsetInduction
<1>7. Of(I) = P
  OBVIOUS
<1> QED
  BY <1>4, <1>6, <1>7

-----------------------------------------------------------------------------
(* Figures. *)

\* The parent chain of a process and of an item.
LEMMA Chain ==
  /\ \A p \in Processes : /\ ItemOf[p] \in Items
                          /\ SectionAbove(p) = SectionOf[ItemOf[p]] /\ SectionAbove(p) \in Sections
                          /\ ProjectAbove(p) = ProjectOf[SectionOf[ItemOf[p]]]
                          /\ ProjectAbove(p) = ProjectAbove(ItemOf[p])
  /\ \A i \in Items : SectionOf[i] \in Sections /\ ProjectAbove(i) = ProjectOf[SectionOf[i]]
BY ScopeAssumption DEF SectionAbove, ProjectAbove

\* The counts of a figure.
LEMMA Counts ==
  ASSUME NEW S \in SUBSET Processes
  PROVE  LET D == {p \in S : Done(p)}
             R == {p \in S : Running(p)} IN
         /\ IsFiniteSet(S) /\ IsFiniteSet(D) /\ IsFiniteSet(R)
         /\ Cardinality(S) \in Nat /\ Cardinality(D) \in Nat /\ Cardinality(R) \in Nat
         /\ Aggregate(S).completed = Cardinality(D)
         /\ Aggregate(S).active = Cardinality(R)
         /\ Aggregate(S).total = Cardinality(S)
         /\ Aggregate(S).percent = Percent(Cardinality(D), Cardinality(S))
         /\ Cardinality(D) + Cardinality(R) <= Cardinality(S)
<1> DEFINE D == {p \in S : Done(p)}
           R == {p \in S : Running(p)}
<1>1. IsFiniteSet(S) /\ IsFiniteSet(D) /\ IsFiniteSet(R)
  <2>1. IsFiniteSet(S)
    BY ProgressAssumption, FS_Subset
  <2> QED
    BY <2>1, FS_Subset
<1>2. Cardinality(S) \in Nat /\ Cardinality(D) \in Nat /\ Cardinality(R) \in Nat
  <2> HIDE DEF D, R
  <2> QED
    BY <1>1, FS_CardinalityType
<1>3. D \cap R = {} /\ D \cup R \in SUBSET S
  BY DEF Done
<1>4. Cardinality(D) + Cardinality(R) <= Cardinality(S)
  <2> HIDE DEF D, R
  <2>1. Cardinality(D \cup R) = Cardinality(D) + Cardinality(R) - Cardinality({})
    BY <1>1, <1>3, FS_Union
  <2>2. Cardinality(D \cup R) <= Cardinality(S)
    BY <1>1, <1>3, FS_Subset
  <2> QED
    BY <1>2, <2>1, <2>2, FS_EmptySet
<1>5. /\ Aggregate(S).completed = Cardinality(D)
      /\ Aggregate(S).active = Cardinality(R)
      /\ Aggregate(S).total = Cardinality(S)
      /\ Aggregate(S).percent = Percent(Cardinality(D), Cardinality(S))
  BY DEF Aggregate
<1> QED
  BY <1>1, <1>2, <1>4, <1>5

\* A percentage stays within its bounds, with the rounding.
LEMMA PercentBounded ==
  ASSUME NEW c \in Nat, NEW n \in Nat, c <= n
  PROVE  Percent(c, n) \in IF n = 0 THEN {None} ELSE 0..100
<1>1. CASE n = 0
  BY <1>1 DEF Percent
<1>2. CASE n # 0
  <2> DEFINE h == n \div 2
             a == 100 * c + h
             q == a \div n
  <2>1. h \in Nat /\ h < n
    BY <1>2
  <2>2. a \in Nat /\ a < 101 * n
    <3> HIDE DEF h
    <3> QED
      BY <2>1
  <2>3. q \in Int /\ n * q <= a /\ a < n * q + n
    <3> HIDE DEF a
    <3> QED
      BY <1>2, <2>2
  <2>4. q >= 0
    <3> SUFFICES ASSUME q <= -1 PROVE FALSE
      BY <2>3
    <3>1. n * q <= n * (-1)
      <4> HIDE DEF q
      <4> QED
        BY <2>3
    <3> HIDE DEF q, a
    <3> QED
      BY <2>2, <2>3, <3>1
  <2>5. q <= 100
    <3> SUFFICES ASSUME q >= 101 PROVE FALSE
      BY <2>3
    <3>1. n * 101 <= n * q
      <4> HIDE DEF q
      <4> QED
        BY <2>3
    <3> HIDE DEF q, a
    <3> QED
      BY <2>2, <2>3, <3>1
  <2>6. Percent(c, n) = q
    BY <1>2 DEF Percent
  <2> HIDE DEF q
  <2> QED
    BY <1>2, <2>3, <2>4, <2>5, <2>6
<1> QED
  BY <1>1, <1>2

\* The figure of the processes in S is the sum of the figures of the items in I,
\* when S holds the counted processes of these items.
LEMMA ScopeSumsUp ==
  ASSUME NEW I \in SUBSET Items, NEW S,
         S = {p \in Processes : ItemOf[p] \in I /\ Counted(p)}
  PROVE  SumsUp(Aggregate(S), I)
<1>1. S \in SUBSET Processes /\ IsFiniteSet(I)
  BY ProgressAssumption, FS_Subset
<1>2. \A i \in I : /\ ItemScope(i) \in SUBSET Processes
                   /\ ItemScope(i) = {p \in S : ItemOf[p] = i}
  BY DEF ItemScope
<1> DEFINE Sum(P) == SumFunction([i \in I |-> Cardinality({p \in P : ItemOf[p] = i})])
<1>3. ASSUME NEW P \in SUBSET S PROVE Sum(P) = Cardinality(P)
  <2> DEFINE class == [p \in P |-> ItemOf[p]]
             g == [i \in I |-> Cardinality({p \in P : class[p] = i})]
  <2>1. IsFiniteSet(P)
    BY <1>1, ProgressAssumption, FS_Subset
  <2>2. class \in [P -> I]
    OBVIOUS
  <2>3. SumFunction(g) = Cardinality(P)
    <3> HIDE DEF class
    <3> QED
      BY <1>1, <2>1, <2>2, SumOfClasses
  <2>4. \A i \in I : {p \in P : class[p] = i} = {p \in P : ItemOf[p] = i}
    OBVIOUS
  <2>5. g = [i \in I |-> Cardinality({p \in P : ItemOf[p] = i})]
    BY <2>4
  <2> QED
    BY <2>3, <2>5
<1> DEFINE D == {p \in S : Done(p)}
           R == {p \in S : Running(p)}
<1>4. \A i \in I : /\ ForItem(i).completed = Cardinality({p \in D : ItemOf[p] = i})
                   /\ ForItem(i).active = Cardinality({p \in R : ItemOf[p] = i})
                   /\ ForItem(i).total = Cardinality({p \in S : ItemOf[p] = i})
  <2> SUFFICES ASSUME NEW i \in I
               PROVE  /\ ForItem(i).completed = Cardinality({p \in D : ItemOf[p] = i})
                      /\ ForItem(i).active = Cardinality({p \in R : ItemOf[p] = i})
                      /\ ForItem(i).total = Cardinality({p \in S : ItemOf[p] = i})
    OBVIOUS
  <2>1. /\ {p \in ItemScope(i) : Done(p)} = {p \in D : ItemOf[p] = i}
        /\ {p \in ItemScope(i) : Running(p)} = {p \in R : ItemOf[p] = i}
        /\ ItemScope(i) = {p \in S : ItemOf[p] = i}
    BY <1>2
  <2>2. ItemScope(i) \in SUBSET Processes
    BY <1>2
  <2>3. /\ ForItem(i).completed = Cardinality({p \in ItemScope(i) : Done(p)})
        /\ ForItem(i).active = Cardinality({p \in ItemScope(i) : Running(p)})
        /\ ForItem(i).total = Cardinality(ItemScope(i))
    BY <2>2, Counts DEF ForItem
  <2> QED
    BY <2>1, <2>3
<1>5. /\ [i \in I |-> ForItem(i).completed] = [i \in I |-> Cardinality({p \in D : ItemOf[p] = i})]
      /\ [i \in I |-> ForItem(i).active] = [i \in I |-> Cardinality({p \in R : ItemOf[p] = i})]
      /\ [i \in I |-> ForItem(i).total] = [i \in I |-> Cardinality({p \in S : ItemOf[p] = i})]
  <2> HIDE DEF D, R
  <2> QED
    BY <1>4
<1>6. /\ SumFunction([i \in I |-> ForItem(i).completed]) = Cardinality(D)
      /\ SumFunction([i \in I |-> ForItem(i).active]) = Cardinality(R)
      /\ SumFunction([i \in I |-> ForItem(i).total]) = Cardinality(S)
  <2>1. D \in SUBSET S /\ R \in SUBSET S /\ S \in SUBSET S
    OBVIOUS
  <2> HIDE DEF D, R
  <2> QED
    BY <1>3, <1>5, <2>1
<1>7. /\ Aggregate(S).completed = Cardinality(D) /\ Aggregate(S).active = Cardinality(R)
      /\ Aggregate(S).total = Cardinality(S)
      /\ Aggregate(S).percent = Percent(Cardinality(D), Cardinality(S))
      /\ Cardinality(S) \in Nat /\ Cardinality(D) \in Nat /\ Cardinality(R) \in Nat
      /\ Cardinality(D) + Cardinality(R) <= Cardinality(S)
  BY Counts
<1>8. Percent(Cardinality(D), Cardinality(S)) \in IF Cardinality(S) = 0 THEN {None} ELSE 0..100
  <2> HIDE DEF D, R
  <2>1. Cardinality(D) <= Cardinality(S)
    BY <1>7
  <2> QED
    BY <1>7, <2>1, PercentBounded
<1> QED
  <2> HIDE DEF D, R
  <2> QED
    BY <1>6, <1>7, <1>8 DEF SumsUp

\* The walk from all sections of a project reaches from each of them what the
\* walk from it alone reaches: cut out of a closed set of pairs, or spread over
\* all first sections, a closed set stays closed.
LEMMA JointWalkAgrees ==
  ASSUME NEW f, NEW s \in Sections, NEW r
  PROVE  <<s, r>> \in PairWalk(f, ProjectOf[s]) <=> r \in Walk(f, s)
<1> DEFINE P == SectionsIn(ProjectOf[s])
           ClosedUnder(S) == s \in S /\ \A q \in P : f[q] \in S => q \in S
           ClosedPairs(W) ==
             /\ \A a \in P : <<a, a>> \in W
             /\ \A a, b, q \in P : <<a, b>> \in W /\ f[q] = b => <<a, q>> \in W
<1>1. ProjectOf[s] \in Projects /\ s \in P
  BY ScopeAssumption DEF SectionsIn
<1>2. r \in Walk(f, s) <=> r \in P /\ \A S \in SUBSET P : ClosedUnder(S) => r \in S
  BY DEF Walk
<1>3. <<s, r>> \in PairWalk(f, ProjectOf[s]) <=>
        r \in P /\ \A W \in SUBSET (P \X P) : ClosedPairs(W) => <<s, r>> \in W
  BY <1>1 DEF PairWalk
<1>4. ASSUME r \in P, \A S \in SUBSET P : ClosedUnder(S) => r \in S,
             NEW W \in SUBSET (P \X P), ClosedPairs(W)
      PROVE  <<s, r>> \in W
  <2> DEFINE S == {q \in P : <<s, q>> \in W}
  <2>1. S \in SUBSET P /\ ClosedUnder(S)
    <3> HIDE DEF P
    <3> QED
      BY <1>1, <1>4
  <2>2. r \in S
    BY <1>4, <2>1
  <2> QED
    BY <2>2
<1>5. ASSUME r \in P, \A W \in SUBSET (P \X P) : ClosedPairs(W) => <<s, r>> \in W,
             NEW S \in SUBSET P, ClosedUnder(S)
      PROVE  r \in S
  <2> DEFINE W == {w \in P \X P : w[1] = s => w[2] \in S}
  <2>1. W \in SUBSET (P \X P) /\ ClosedPairs(W)
    <3> HIDE DEF P
    <3> QED
      BY <1>1, <1>5
  <2>2. <<s, r>> \in W
    BY <1>5, <2>1
  <2> QED
    BY <2>2
<1> QED
  <2> HIDE DEF P, ClosedUnder, ClosedPairs
  <2> QED
    BY <1>2, <1>3, <1>4, <1>5

\* The two walks of a tree find the same.
LEMMA TreesAgree == \A tree \in Trees : tree.joint = tree.single
<1> SUFFICES ASSUME NEW tree \in Trees PROVE tree.joint = tree.single
  OBVIOUS
<1> DEFINE pairs == {<<s, r>> : s \in Sections, r \in Sections}
<1>1. PICK f \in Forests : /\ tree.single = {w \in pairs : w[2] \in Walk(f, w[1])}
                           /\ tree.joint = {w \in pairs : w \in PairWalk(f, ProjectOf[w[1]])}
  BY DEF Trees
<1>2. \A w \in pairs : w \in PairWalk(f, ProjectOf[w[1]]) <=> w[2] \in Walk(f, w[1])
  BY JointWalkAgrees
<1> QED
  <2> HIDE DEF pairs
  <2> QED
    BY <1>1, <1>2

\* Every state has it, and so every state of every behaviour: the lists show
\* what the details show, and the figures above are the sums of those below.
THEOREM FiguresAgree == Spec => []FiguresAddUp
<1>1. ASSUME NEW i \in Items PROVE Shown(ForItems(SectionOf[i]), i) = ForItem(i)
  <2> DEFINE found == {p \in Processes : SectionAbove(p) = SectionOf[i] /\ Counted(p)}
             groups == {ItemOf[p] : p \in found}
  <2>1. ItemScope(i) = {p \in found : ItemOf[p] = i}
    BY Chain DEF ItemScope
  <2>2. ForItems(SectionOf[i]) = [j \in groups |-> Aggregate({p \in found : ItemOf[p] = j})]
    BY DEF ForItems
  <2>3. i \notin groups => {p \in found : ItemOf[p] = i} = {}
    OBVIOUS
  <2> HIDE DEF found, groups
  <2> QED
    BY <2>1, <2>2, <2>3 DEF Shown, ForItem
<1>2. ASSUME NEW tree \in Trees, NEW s \in Sections
      PROVE  Shown(ForSections(tree, ProjectOf[s]), s) = ForSection(tree, s)
  <2> DEFINE found == {r \in Sections \X Processes :
                         /\ ProjectOf[r[1]] = ProjectOf[s]
                         /\ <<r[1], SectionAbove(r[2])>> \in tree.joint
                         /\ Counted(r[2])}
             groups == {r[1] : r \in found}
             Group(x) == {p \in Processes : <<x, p>> \in found}
  <2>1. SectionScope(tree, s) = Group(s)
    BY TreesAgree DEF SectionScope
  <2>2. ForSections(tree, ProjectOf[s]) = [x \in groups |-> Aggregate(Group(x))]
    BY DEF ForSections
  <2>3. s \notin groups => Group(s) = {}
    <3> HIDE DEF found
    <3> QED
      OBVIOUS
  <2> HIDE DEF found, groups, Group
  <2> QED
    BY <2>1, <2>2, <2>3 DEF Shown, ForSection
<1>3. ASSUME NEW x \in Projects PROVE Shown(ForProjects, x) = ForProject(x)
  <2> DEFINE found == {p \in Processes : Counted(p)}
             groups == {ProjectAbove(p) : p \in found}
             Group(y) == {p \in found : ProjectAbove(p) = y}
  <2>1. ProjectScope(x) = Group(x)
    BY DEF ProjectScope
  <2>2. ForProjects = [y \in groups |-> Aggregate(Group(y))]
    BY DEF ForProjects
  <2>3. x \notin groups => Group(x) = {}
    OBVIOUS
  <2> HIDE DEF found, groups, Group
  <2> QED
    BY <2>1, <2>2, <2>3 DEF Shown, ForProject
<1>4. ASSUME NEW tree \in Trees, NEW s \in Sections
      PROVE  SumsUp(ForSection(tree, s), {i \in Items : <<s, SectionOf[i]>> \in tree.single})
  <2> DEFINE I == {i \in Items : <<s, SectionOf[i]>> \in tree.single}
  <2>1. SectionScope(tree, s) = {p \in Processes : ItemOf[p] \in I /\ Counted(p)}
    BY Chain DEF SectionScope
  <2> QED
    BY <2>1, ScopeSumsUp DEF ForSection
<1>5. ASSUME NEW x \in Projects
      PROVE  SumsUp(ForProject(x), {i \in Items : ProjectAbove(i) = x})
  <2> DEFINE I == {i \in Items : ProjectAbove(i) = x}
  <2>1. ProjectScope(x) = {p \in Processes : ItemOf[p] \in I /\ Counted(p)}
    BY Chain DEF ProjectScope
  <2> QED
    BY <2>1, ScopeSumsUp DEF ForProject
<1>6. ASSUME NEW tree \in Trees, NEW x \in Projects, NEW s \in SectionsIn(x)
      PROVE  /\ Shown(ForSections(tree, x), s) = ForSection(tree, s)
             /\ SumsUp(Shown(ForSections(tree, x), s),
                       {i \in Items : <<s, SectionOf[i]>> \in tree.single})
  <2>1. s \in Sections /\ x = ProjectOf[s]
    BY DEF SectionsIn
  <2> QED
    BY <1>2, <1>4, <2>1
<1>7. FiguresAddUp
  BY <1>1, <1>3, <1>5, <1>6 DEF FiguresAddUp
<1> QED
  BY <1>7, PTL

=============================================================================
