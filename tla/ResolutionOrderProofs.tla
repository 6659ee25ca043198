----------------------- MODULE ResolutionOrderProofs ------------------------
(***************************************************************************)
(* latest-wins is one total order, for any devices, hashes, clocks and     *)
(* times.  All of it rests on the counter mass, a sum over the devices of  *)
(* a clock, so the lemmas about sums come first: the equation of the fold  *)
(* that adds up, that any element may be taken out, and that larger terms  *)
(* over more elements add up to no less.                                   *)
(***************************************************************************)
EXTENDS ResolutionOrder, FiniteSetTheorems, TLAPS

-----------------------------------------------------------------------------
(* Induction, over numbers and over the subsets of a finite set.  Both are   *)
(* stated for sets and rest on the orders being well founded.                *)

LEMMA NumbersReached ==
    ASSUME NEW A, 0 \in A, \A n \in Nat : n \in A => n + 1 \in A
    PROVE  Nat \subseteq A
<1> DEFINE less == {ss \in Nat \X Nat : ss[1] < ss[2]}
<1>1. IsWellFoundedOn(less, Nat)
  BY NatLessThanWellFounded DEF OpToRel
<1>2. SUFFICES ASSUME Nat \ A # {} PROVE FALSE
  OBVIOUS
<1>3. PICK n \in Nat \ A : \A m \in Nat \ A : ~(<<m, n>> \in less)
  <2>1. Nat \ A \subseteq Nat
    OBVIOUS
  <2> HIDE DEF less
  <2> QED BY ONLY <1>1, <1>2, <2>1, WFMin
<1>4. n # 0
  BY <1>3
<1>5. n - 1 \in Nat /\ n - 1 < n
  BY <1>3, <1>4
<1>6. n - 1 \in A
  BY <1>3, <1>5
<1> QED BY <1>3, <1>5, <1>6

\* Among some subsets of a finite set there is one with none of them inside.
LEMMA SmallestSet ==
    ASSUME NEW S, IsFiniteSet(S), NEW B \in SUBSET (SUBSET S), B # {}
    PROVE  \E T \in B : \A U \in B : U \subseteq T => U = T
<1>1. IsWellFoundedOn(StrictSubsetOrdering(S), FiniteSubsetsOf(S))
  BY FS_StrictSubsetOrderingWellFounded
<1>2. FiniteSubsetsOf(S) = SUBSET S
  BY FS_FiniteSubsetsOfFinite
<1>3. \E T \in B : \A U \in B : ~(<<U, T>> \in StrictSubsetOrdering(S))
  BY <1>1, <1>2, WFMin
<1> QED BY <1>3 DEF StrictSubsetOrdering

-----------------------------------------------------------------------------
(* Sums: SumFunctionOnSet of the community modules, which takes the elements *)
(* of a set in the order in which CHOOSE picks them.                         *)

Some(s) == CHOOSE x \in s : TRUE

LEMMA SomeIn == \A s : s # {} => Some(s) \in s
BY DEF Some

\* g adds up f over the sets in D.
AddsUp(g, f, D) == g = [s \in D |-> IF s = {} THEN 0 ELSE f[Some(s)] + g[s \ {Some(s)}]]

LEMMA SumIs ==
    ASSUME NEW f, NEW S
    PROVE  SumFunctionOnSet(f, S) = (CHOOSE g : AddsUp(g, f, SUBSET S))[S]
BY Zenon DEF SumFunctionOnSet, FoldFunctionOnSet, MapThenFoldSet, AddsUp, Some

LEMMA SumExists ==
    ASSUME NEW S, IsFiniteSet(S), NEW f
    PROVE  \E g : AddsUp(g, f, SUBSET S)
<1> DEFINE Upto(n) == {s \in SUBSET S : Cardinality(s) <= n}
           A == {n \in Nat : \E g : AddsUp(g, f, Upto(n))}
<1>1. \A s \in SUBSET S : IsFiniteSet(s) /\ Cardinality(s) \in Nat /\ Cardinality(s) <= Cardinality(S)
  BY FS_Subset, FS_CardinalityType
<1>2. \A s \in SUBSET S : s # {} => /\ s \ {Some(s)} \in SUBSET S
                                    /\ Cardinality(s \ {Some(s)}) = Cardinality(s) - 1
  BY <1>1, FS_RemoveElement, SomeIn
<1>3. \A s \in SUBSET S : Cardinality(s) <= 0 <=> s = {}
  BY <1>1, FS_EmptySet
<1>4. 0 \in A
  <2>1. Upto(0) = {{}}
    BY <1>3
  <2>2. AddsUp([s \in {{}} |-> 0], f, {{}})
    BY DEF AddsUp
  <2> QED BY <2>1, <2>2
<1>5. ASSUME NEW n \in Nat, n \in A PROVE n + 1 \in A
  <2>1. PICK g : AddsUp(g, f, Upto(n))
    BY <1>5
  <2> DEFINE h == [s \in Upto(n + 1) |-> IF s = {} THEN 0 ELSE f[Some(s)] + g[s \ {Some(s)}]]
  <2>2. \A s \in Upto(n) : g[s] = IF s = {} THEN 0 ELSE f[Some(s)] + g[s \ {Some(s)}]
    BY <2>1 DEF AddsUp
  <2>3. Upto(n) \subseteq Upto(n + 1)
    BY <1>1
  <2>4. \A s \in Upto(n) : h[s] = g[s]
    BY <2>2, <2>3
  <2>5. \A s \in Upto(n + 1) : s # {} => s \ {Some(s)} \in Upto(n)
    BY <1>1, <1>2
  <2>6. AddsUp(h, f, Upto(n + 1))
    BY <2>4, <2>5 DEF AddsUp
  <2> QED BY <2>6
<1>6. Cardinality(S) \in A
  <2> HIDE DEF A
  <2> QED BY <1>1, <1>4, <1>5, NumbersReached
<1>7. Upto(Cardinality(S)) = SUBSET S
  BY <1>1
<1> QED BY <1>6, <1>7

\* Whichever sets are added up besides, the sum over s is the same.
LEMMA SumOn ==
    ASSUME NEW S, IsFiniteSet(S), NEW f, NEW g, AddsUp(g, f, SUBSET S), NEW T \in SUBSET S
    PROVE  SumFunctionOnSet(f, T) = g[T]
<1>1. IsFiniteSet(T)
  BY FS_Subset
<1> DEFINE h == CHOOSE k : AddsUp(k, f, SUBSET T)
<1>2. AddsUp(h, f, SUBSET T)
  BY <1>1, SumExists
<1>3. SumFunctionOnSet(f, T) = h[T]
  BY SumIs
<1> HIDE DEF h
<1> DEFINE B == {s \in SUBSET T : h[s] # g[s]}
<1>4. ASSUME B # {} PROVE FALSE
  <2>1. PICK s \in B : \A u \in B : u \subseteq s => u = s
    <3> HIDE DEF B
    <3>1. B \in SUBSET (SUBSET T)
      BY DEF B
    <3> QED BY <1>1, <1>4, <3>1, SmallestSet
  <2>2. s \in SUBSET T /\ s \in SUBSET S
    OBVIOUS
  <2>3. /\ h[s] = IF s = {} THEN 0 ELSE f[Some(s)] + h[s \ {Some(s)}]
        /\ g[s] = IF s = {} THEN 0 ELSE f[Some(s)] + g[s \ {Some(s)}]
    BY <1>2, <2>2 DEF AddsUp
  <2>4. s # {} => s \ {Some(s)} \notin B
    BY <2>1, SomeIn
  <2> QED BY <2>1, <2>2, <2>3, <2>4
<1> QED BY <1>3, <1>4

\* Adding up takes out one element at a time.
LEMMA SumEquation ==
    ASSUME NEW S, IsFiniteSet(S), NEW f
    PROVE  SumFunctionOnSet(f, S) =
               IF S = {} THEN 0 ELSE f[Some(S)] + SumFunctionOnSet(f, S \ {Some(S)})
<1>1. PICK g : AddsUp(g, f, SUBSET S)
  BY SumExists
<1>2. \A T \in SUBSET S : SumFunctionOnSet(f, T) = g[T]
  BY <1>1, SumOn
<1>3. g[S] = IF S = {} THEN 0 ELSE f[Some(S)] + g[S \ {Some(S)}]
  BY <1>1 DEF AddsUp
<1> QED BY <1>2, <1>3

\* A sum is a number, and any element may be taken out first.
LEMMA SumRemove ==
    ASSUME NEW S, IsFiniteSet(S), NEW f, \A x \in S : f[x] \in Nat
    PROVE  /\ SumFunctionOnSet(f, S) \in Nat
           /\ S = {} => SumFunctionOnSet(f, S) = 0
           /\ \A x \in S : SumFunctionOnSet(f, S) = f[x] + SumFunctionOnSet(f, S \ {x})
<1> DEFINE Sum(T) == SumFunctionOnSet(f, T)
           Good(T) == Sum(T) \in Nat /\ \A x \in T : Sum(T) = f[x] + Sum(T \ {x})
           B == {T \in SUBSET S : ~Good(T)}
<1>1. \A T \in SUBSET S : IsFiniteSet(T)
  BY FS_Subset
<1>2. \A T \in SUBSET S : Sum(T) = IF T = {} THEN 0 ELSE f[Some(T)] + Sum(T \ {Some(T)})
  BY <1>1, SumEquation
<1> HIDE DEF Sum
<1>3. ASSUME B # {} PROVE FALSE
  <2>1. PICK T \in B : \A U \in B : U \subseteq T => U = T
    <3> HIDE DEF B
    <3>1. B \in SUBSET (SUBSET S)
      BY DEF B
    <3> QED BY <1>3, <3>1, SmallestSet
  <2>2. T \in SUBSET S /\ ~Good(T)
    OBVIOUS
  <2>3. ASSUME NEW U \in SUBSET T, U # T PROVE Good(U)
    <3> HIDE DEF Good
    <3> QED BY <2>1, <2>2, <2>3
  <2>4. T # {}
    <3>1. T = {} => Sum(T) = 0
      BY <1>2, <2>2
    <3> QED BY <2>2, <3>1
  <2> DEFINE x == Some(T)
             R == T \ {x}
  <2>5. x \in T /\ x \in S
    BY <2>2, <2>4, SomeIn
  <2> HIDE DEF x
  <2>6. Sum(T) = f[x] + Sum(R) /\ Good(R)
    BY <1>2, <2>2, <2>3, <2>4, <2>5 DEF x
  <2>7. Sum(T) \in Nat
    BY <2>5, <2>6
  <2>8. ASSUME NEW y \in T, y # x PROVE Sum(T) = f[y] + Sum(T \ {y})
    <3>1. Sum(R) = f[y] + Sum(R \ {y})
      BY <2>6, <2>8
    <3>2. Good(T \ {y}) /\ Good(R \ {y})
      BY <2>3
    <3>3. Sum(T \ {y}) = f[x] + Sum((T \ {y}) \ {x})
      BY <2>5, <2>8, <3>2
    <3>4. (T \ {y}) \ {x} = R \ {y}
      OBVIOUS
    <3>5. f[y] \in Nat /\ f[x] \in Nat
      BY <2>2, <2>5, <2>8
    <3>6. Sum(R \ {y}) \in Nat
      BY <3>2
    <3>7. Sum(T \ {y}) = f[x] + Sum(R \ {y})
      BY ONLY <3>3, <3>4
    <3>8. Sum(T) = f[x] + (f[y] + Sum(R \ {y}))
      BY ONLY <2>6, <3>1
    <3> QED BY ONLY <3>5, <3>6, <3>7, <3>8
  <2> QED BY <2>2, <2>6, <2>7, <2>8
<1>4. Good(S)
  BY <1>3
<1> QED BY <1>2, <1>4 DEF Sum

\* A sum of no less terms over no fewer elements is no less.
LEMMA SumGrows ==
    ASSUME NEW S, IsFiniteSet(S), NEW f, NEW g, \A x \in S : g[x] \in Nat,
           NEW R \in SUBSET S, \A x \in R : f[x] \in Nat /\ f[x] <= g[x]
    PROVE  SumFunctionOnSet(f, R) <= SumFunctionOnSet(g, S)
<1> DEFINE F(T) == SumFunctionOnSet(f, T)
           G(T) == SumFunctionOnSet(g, T)
           B == {T \in SUBSET S : ~(F(T \cap R) <= G(T))}
<1>1. \A T \in SUBSET S : IsFiniteSet(T) /\ IsFiniteSet(T \cap R)
  BY FS_Subset
<1>2. \A T \in SUBSET S : /\ G(T) \in Nat
                          /\ T = {} => G(T) = 0
                          /\ \A x \in T : G(T) = g[x] + G(T \ {x})
  BY <1>1, SumRemove
<1>3. \A T \in SUBSET R : /\ F(T) \in Nat
                          /\ T = {} => F(T) = 0
                          /\ \A x \in T : F(T) = f[x] + F(T \ {x})
  BY <1>1, SumRemove
<1> HIDE DEF F, G
<1>4. ASSUME B # {} PROVE FALSE
  <2>1. PICK T \in B : \A U \in B : U \subseteq T => U = T
    <3> HIDE DEF B
    <3>1. B \in SUBSET (SUBSET S)
      BY DEF B
    <3> QED BY <1>4, <3>1, SmallestSet
  <2>2. T \in SUBSET S /\ ~(F(T \cap R) <= G(T)) /\ T \cap R \in SUBSET R
    OBVIOUS
  <2>3. T # {}
    <3>1. {} \cap R = {}
      OBVIOUS
    <3> QED BY <1>2, <1>3, <2>2, <3>1
  <2>4. PICK x : x \in T
    BY <2>3
  <2> DEFINE U == T \ {x}
  <2>5. U \in SUBSET S /\ U \cap R \in SUBSET R /\ F(U \cap R) <= G(U)
    BY <2>1, <2>2, <2>4
  <2>6. G(T) = g[x] + G(U) /\ g[x] \in Nat
    BY <1>2, <2>2, <2>4
  <2>7. CASE x \in R
    <3>1. (T \cap R) \ {x} = U \cap R /\ x \in T \cap R
      BY <2>4, <2>7
    <3>2. F(T \cap R) = f[x] + F(U \cap R)
      BY <1>3, <2>2, <3>1
    <3> HIDE DEF U
    <3> QED BY <1>2, <1>3, <2>2, <2>5, <2>6, <2>7, <3>2
  <2>8. CASE x \notin R
    <3>1. T \cap R = U \cap R
      BY <2>8
    <3> HIDE DEF U
    <3> QED BY <1>2, <1>3, <2>2, <2>5, <2>6, <3>1
  <2> QED BY <2>7, <2>8
<1>5. F(S \cap R) <= G(S) /\ S \cap R = R
  BY <1>4
<1> QED BY <1>5 DEF F, G

-----------------------------------------------------------------------------
(* The counter mass (conflict.rs:23-29) *)

Terms(c) == [d \in Device |-> DeviceHash[d] + c[d]]
Counted(c) == {d \in Device : c[d] > 0}

LEMMA MassIsSum == ASSUME NEW c PROVE FullMass(c) = SumFunctionOnSet(Terms(c), Counted(c))
BY DEF FullMass, Terms, Counted

LEMMA TermTypes ==
    ASSUME NEW c \in Clock
    PROVE  /\ IsFiniteSet(Counted(c)) /\ Counted(c) \subseteq Device
           /\ \A d \in Device : /\ DeviceHash[d] \in Nat /\ c[d] \in Nat
                               /\ Terms(c)[d] = DeviceHash[d] + c[d] /\ Terms(c)[d] \in Nat
<1>1. Counted(c) \in SUBSET Device
  BY DEF Counted
<1>2. IsFiniteSet(Counted(c))
  BY <1>1, FS_Subset, OrderAssumption
<1> QED BY <1>1, <1>2, HashAssumption, CounterAssumption DEF Terms, Clock, Counter

LEMMA MassTypes ==
    ASSUME NEW c \in Clock
    PROVE  /\ FullMass(c) \in Nat /\ CounterMass(c) \in Nat
           /\ FullMass(c) < MassModulus => CounterMass(c) = FullMass(c)
<1>1. FullMass(c) \in Nat
  BY TermTypes, MassIsSum, SumRemove
<1> QED BY <1>1, HashAssumption DEF CounterMass

\* A clock that causally follows another has the greater mass, as long as the
\* masses do not wrap.
LEMMA LaterWeighsMore ==
    ASSUME NEW a \in Clock, NEW b \in Clock, HappensBefore(a, b)
    PROVE  FullMass(a) < FullMass(b)
<1> DEFINE A == Counted(a)
           B == Counted(b)
<1>1. PICK d \in Device : a[d] < b[d]
  BY DEF HappensBefore
<1>2. \A g \in Device : a[g] \in Nat /\ b[g] \in Nat /\ DeviceHash[g] \in Nat /\ a[g] <= b[g]
  BY TermTypes DEF HappensBefore, AtMost
<1>3. A \subseteq B /\ d \in B
  BY <1>1, <1>2 DEF Counted
<1>4. IsFiniteSet(A) /\ IsFiniteSet(B) /\ IsFiniteSet(A \ {d}) /\ IsFiniteSet(B \ {d})
  BY TermTypes, FS_RemoveElement
<1>5. \A g \in B : Terms(b)[g] \in Nat
  BY TermTypes
<1>6. \A g \in A : Terms(a)[g] \in Nat /\ Terms(a)[g] <= Terms(b)[g]
  <2> SUFFICES ASSUME NEW g \in A PROVE Terms(a)[g] \in Nat /\ Terms(a)[g] <= Terms(b)[g]
    OBVIOUS
  <2>1. g \in Device
    BY TermTypes
  <2>2. /\ Terms(a)[g] = DeviceHash[g] + a[g] /\ Terms(a)[g] \in Nat
        /\ Terms(b)[g] = DeviceHash[g] + b[g]
    BY <2>1, TermTypes
  <2> QED BY <1>2, <2>1, <2>2
<1> HIDE DEF A, B
<1>7. SumFunctionOnSet(Terms(b), B) = Terms(b)[d] + SumFunctionOnSet(Terms(b), B \ {d})
  BY <1>3, <1>4, <1>5, SumRemove
<1>8. SumFunctionOnSet(Terms(a), A \ {d}) <= SumFunctionOnSet(Terms(b), B \ {d})
  BY <1>3, <1>4, <1>5, <1>6, SumGrows
<1>9. /\ SumFunctionOnSet(Terms(a), A \ {d}) \in Nat
      /\ SumFunctionOnSet(Terms(b), B \ {d}) \in Nat
  BY <1>4, <1>5, <1>6, SumRemove
<1>10. CASE d \in A
  <2>1. SumFunctionOnSet(Terms(a), A) = Terms(a)[d] + SumFunctionOnSet(Terms(a), A \ {d})
    BY <1>4, <1>6, <1>10, SumRemove
  <2>2. Terms(a)[d] < Terms(b)[d] /\ Terms(a)[d] \in Nat /\ Terms(b)[d] \in Nat
    BY <1>1, <1>2, TermTypes
  <2> QED BY <1>7, <1>8, <1>9, <2>1, <2>2, MassIsSum DEF A, B
<1>11. CASE d \notin A
  <2>1. A \ {d} = A
    BY <1>11
  <2>2. 0 < Terms(b)[d] /\ Terms(b)[d] \in Nat
    BY <1>1, <1>2, TermTypes
  <2> QED BY <1>7, <1>8, <1>9, <2>1, <2>2, MassIsSum DEF A, B
<1> QED BY <1>10, <1>11

-----------------------------------------------------------------------------
(* One conflict *)

LEMMA ClockOrder ==
    ASSUME NEW a \in Clock, NEW b \in Clock
    PROVE  /\ ~HappensBefore(a, a)
           /\ HappensBefore(a, b) => ~HappensBefore(b, a)
<1>1. \A d \in Device : a[d] \in Nat /\ b[d] \in Nat
  BY TermTypes
<1> QED BY <1>1 DEF HappensBefore, AtMost

LEMMA TieBreakDecides ==
    ASSUME NEW l \in Entry, NEW r \in Entry, l.blob # r.blob
    PROVE  TieBreak(l, r) <=> ~TieBreak(r, l)
<1>1. l.blob \in Nat /\ r.blob \in Nat /\ l.modified \in Nat /\ r.modified \in Nat
  BY DEF Entry
<1> QED BY <1>1 DEF TieBreak

\* Either side decides in the same way, and never against the causal order.
LEMMA BothSidesAgree ==
    ASSUME NEW l \in Entry, NEW r \in Entry, l = r \/ l.blob # r.blob
    PROVE  /\ WinnerOf(l, r) = WinnerOf(r, l)
           /\ HappensBefore(l.clock, r.clock) => LatestWinsChoice(l, r) = "keep_remote"
<1>1. l.clock \in Clock /\ r.clock \in Clock
  BY DEF Entry
<1>2. CounterMass(l.clock) \in Nat /\ CounterMass(r.clock) \in Nat
  BY <1>1, MassTypes
<1>3. /\ CompareClocks(l.clock, r.clock) = "less" <=> CompareClocks(r.clock, l.clock) = "greater"
      /\ CompareClocks(l.clock, r.clock) = "equal" <=> CompareClocks(r.clock, l.clock) = "equal"
      /\ CompareClocks(l.clock, r.clock) \in {"less", "greater", "equal"}
      /\ CompareClocks(r.clock, l.clock) \in {"less", "greater", "equal"}
  BY <1>1, <1>2, ClockOrder DEF CompareClocks
<1>4. HappensBefore(l.clock, r.clock) => CompareClocks(l.clock, r.clock) = "less"
  BY <1>1, ClockOrder DEF CompareClocks
<1> QED BY <1>3, <1>4, TieBreakDecides DEF WinnerOf, ChosenEntry, LatestWinsChoice

\* As long as no mass wraps, the one that outranks the other wins.
LEMMA WinnerOutranks ==
    ASSUME NEW l \in Entry, NEW r \in Entry, l.blob # r.blob,
           FullMass(l.clock) < MassModulus, FullMass(r.clock) < MassModulus
    PROVE  \/ WinnerOf(l, r) = l /\ Outranks(l, r)
           \/ WinnerOf(l, r) = r /\ Outranks(r, l)
<1>1. l.clock \in Clock /\ r.clock \in Clock
  BY DEF Entry
<1>2. /\ CounterMass(l.clock) \in Nat /\ CounterMass(r.clock) \in Nat
      /\ CounterMass(l.clock) = FullMass(l.clock) /\ CounterMass(r.clock) = FullMass(r.clock)
  BY <1>1, MassTypes
<1>3. /\ HappensBefore(l.clock, r.clock) => CounterMass(l.clock) < CounterMass(r.clock)
      /\ HappensBefore(r.clock, l.clock) => CounterMass(r.clock) < CounterMass(l.clock)
  BY <1>1, <1>2, LaterWeighsMore
<1>4. /\ CompareClocks(l.clock, r.clock) = "less" => CounterMass(l.clock) < CounterMass(r.clock)
      /\ CompareClocks(l.clock, r.clock) = "greater" => CounterMass(r.clock) < CounterMass(l.clock)
      /\ CompareClocks(l.clock, r.clock) = "equal" => CounterMass(r.clock) = CounterMass(l.clock)
      /\ CompareClocks(l.clock, r.clock) \in {"less", "greater", "equal"}
  BY <1>2, <1>3 DEF CompareClocks
<1>5. l.blob \in Nat /\ r.blob \in Nat /\ l.modified \in Nat /\ r.modified \in Nat
  BY DEF Entry
<1> QED BY <1>2, <1>4, <1>5
        DEF WinnerOf, ChosenEntry, LatestWinsChoice, TieBreak, Outranks

LEMMA OutranksTransitive ==
    ASSUME NEW e \in Entry, NEW f \in Entry, NEW g \in Entry, Outranks(e, f), Outranks(f, g)
    PROVE  Outranks(e, g)
<1>1. /\ e.clock \in Clock /\ f.clock \in Clock /\ g.clock \in Clock
      /\ e.blob \in Nat /\ f.blob \in Nat /\ g.blob \in Nat
      /\ e.modified \in Nat /\ f.modified \in Nat /\ g.modified \in Nat
  BY DEF Entry
<1>2. /\ CounterMass(e.clock) \in Nat /\ CounterMass(f.clock) \in Nat
      /\ CounterMass(g.clock) \in Nat
  BY <1>1, MassTypes
<1> QED BY <1>1, <1>2 DEF Outranks

-----------------------------------------------------------------------------
(* Three versions that meet one after the other *)

OrderTypes ==
    /\ versions \in [1 .. 3 -> Entry] /\ \A i \in 1 .. 3 : versions[i].blob = i
    /\ waiting \subseteq 1 .. 3
    /\ \E i \in 1 .. 3 \ waiting : winner = versions[i]

\* Whoever has met the winner is outranked by it.
WinnerLeads ==
    (\A i \in 1 .. 3 : FullMass(versions[i].clock) < MassModulus)
      => \A i \in 1 .. 3 \ waiting : versions[i] # winner => Outranks(winner, versions[i])

OrderInv == OrderTypes /\ WinnerLeads

LEMMA VersionTypes ==
    ASSUME NEW i \in 1 .. 3, NEW c \in Clocks, NEW t \in Times
    PROVE  Version(i, c, t) \in Entry /\ Version(i, c, t).blob = i
<1>1. c \in Clock /\ t \in Nat
  BY OrderAssumption, CounterAssumption DEF Clocks, Clock, Counter
<1>2. 1 \in Counter
  BY CounterAssumption DEF Counter
<1>3. (CHOOSE x \in Content : TRUE) \in Content
  BY OrderAssumption
<1> QED BY <1>1, <1>2, <1>3 DEF Version, Entry

LEMMA OrderInitInv == OrderInit => OrderInv
<1> SUFFICES ASSUME OrderInit PROVE OrderInv
  OBVIOUS
<1>1. PICK c \in [1 .. 3 -> Clocks], t \in [1 .. 3 -> Times] :
          versions = [i \in 1 .. 3 |-> Version(i, c[i], t[i])]
  BY DEF OrderInit
<1>2. \A i \in 1 .. 3 : versions[i] \in Entry /\ versions[i].blob = i
  <2> TAKE i \in 1 .. 3
  <2>1. c[i] \in Clocks /\ t[i] \in Times /\ versions[i] = Version(i, c[i], t[i])
    BY <1>1
  <2> QED BY <2>1, VersionTypes
<1>3. versions \in [1 .. 3 -> Entry]
  BY <1>1, <1>2
<1>4. /\ waiting \subseteq 1 .. 3 /\ Cardinality(waiting) = 2
      /\ \E i \in 1 .. 3 \ waiting : winner = versions[i]
  BY DEF OrderInit
<1>5. \A i, j \in 1 .. 3 \ waiting : i = j
  <2> SUFFICES ASSUME NEW i \in 1 .. 3 \ waiting, NEW j \in 1 .. 3 \ waiting, i # j PROVE FALSE
    OBVIOUS
  <2>1. PICK k \in 1 .. 3 : waiting \subseteq {k}
    <3>1. PICK k \in {1, 2, 3} : k # i /\ k # j
      OBVIOUS
    <3>2. 1 .. 3 = {1, 2, 3} /\ i \in {1, 2, 3} /\ j \in {1, 2, 3}
      OBVIOUS
    <3>3. \A m \in waiting : m = k
      BY <3>1, <3>2, <1>4
    <3> QED BY <3>1, <3>2, <3>3
  <2>2. IsFiniteSet({k}) /\ Cardinality({k}) = 1
    BY FS_Singleton
  <2>3. Cardinality(waiting) <= 1
    BY <2>1, <2>2, FS_Subset
  <2> QED BY <1>4, <2>3
<1> QED BY <1>2, <1>3, <1>4, <1>5 DEF OrderInv, OrderTypes, WinnerLeads

LEMMA OrderStep == OrderInv /\ [OrderNext]_orderVars => OrderInv'
<1> SUFFICES ASSUME OrderInv, [OrderNext]_orderVars PROVE OrderInv'
  OBVIOUS
<1> USE DEF OrderInv
<1>1. CASE UNCHANGED orderVars
  BY <1>1 DEF orderVars, OrderTypes, WinnerLeads
<1>2. ASSUME NEW i \in 1 .. 3, Meet(i) PROVE OrderInv'
  <2>1. /\ i \in waiting /\ waiting' = waiting \ {i} /\ versions' = versions
        /\ winner' \in {WinnerOf(winner, versions[i]), WinnerOf(versions[i], winner)}
    BY <1>2 DEF Meet
  <2>2. PICK k \in 1 .. 3 \ waiting : winner = versions[k]
    BY DEF OrderTypes
  <2>3. /\ versions[i] \in Entry /\ winner \in Entry /\ winner.blob # versions[i].blob
        /\ i # k
    BY <2>1, <2>2 DEF OrderTypes
  <2>4. winner' = WinnerOf(winner, versions[i])
    BY <2>1, <2>3, BothSidesAgree
  <2>5. winner' = winner \/ winner' = versions[i]
    BY <2>4 DEF WinnerOf, ChosenEntry
  <2>6. OrderTypes'
    BY <2>1, <2>2, <2>5 DEF OrderTypes
  <2>7. ASSUME \A j \in 1 .. 3 : FullMass(versions[j].clock) < MassModulus,
               NEW j \in 1 .. 3 \ waiting', versions[j] # winner'
        PROVE  Outranks(winner', versions[j])
    <3>1. \/ winner' = winner /\ Outranks(winner, versions[i])
          \/ winner' = versions[i] /\ Outranks(versions[i], winner)
      BY <2>2, <2>3, <2>4, <2>7, WinnerOutranks
    <3>2. j = i \/ j \in 1 .. 3 \ waiting
      BY <2>1, <2>7
    <3>3. versions[j] \in Entry
      BY <2>7 DEF OrderTypes
    <3>4. j \in 1 .. 3 \ waiting /\ versions[j] # winner => Outranks(winner, versions[j])
      BY <2>7 DEF WinnerLeads
    <3> QED BY <2>3, <2>7, <3>1, <3>2, <3>3, <3>4, OutranksTransitive
  <2> QED BY <2>1, <2>6, <2>7 DEF WinnerLeads
<1> QED BY <1>1, <1>2 DEF OrderNext, Settled

-----------------------------------------------------------------------------
\* As long as no mass wraps, the last winner is the version of the greatest mass,
\* then time, then blob id, in whatever order and from whichever side they met:
\* compare_clocks and its tie-breaks are one total order (conflict.rs:6, 98).
THEOREM LatestWinsIsOneOrder == OrderSpec => []OrderDoesNotMatter
<1>1. OrderInv => OrderDoesNotMatter
  BY DEF OrderInv, WinnerLeads, OrderDoesNotMatter
<1> QED BY <1>1, OrderInitInv, OrderStep, PTL DEF OrderSpec

\* Even if masses wrap, both sides of a conflict choose the same version, and
\* never one that the other causally follows (resolve_conflict, conflict.rs:97).
THEOREM NewerWinsFromBothSides == OrderSpec => []WinnerIsNewerOfTwo
<1>1. OrderInv => WinnerIsNewerOfTwo
  <2> SUFFICES ASSUME OrderInv, NEW i \in 1 .. 3
               PROVE  /\ WinnerOf(winner, versions[i]) = WinnerOf(versions[i], winner)
                      /\ HappensBefore(winner.clock, versions[i].clock)
                            => LatestWinsChoice(winner, versions[i]) = "keep_remote"
    BY DEF WinnerIsNewerOfTwo
  <2>1. /\ winner \in Entry /\ versions[i] \in Entry
        /\ winner = versions[i] \/ winner.blob # versions[i].blob
    BY DEF OrderInv, OrderTypes
  <2> QED BY <2>1, BothSidesAgree
<1> QED BY <1>1, OrderInitInv, OrderStep, PTL DEF OrderSpec

=============================================================================
