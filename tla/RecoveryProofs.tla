--------------------------- MODULE RecoveryProofs ---------------------------
(***************************************************************************)
(* Shamir's scheme gives back what was split: in any field of a prime      *)
(* order, of any polynomial, from any shares that are enough.  A fold over *)
(* a finite set is shown to satisfy its equation, a sum to be linear and   *)
(* the weights of the points to add up to one; then the polynomial is      *)
(* climbed coefficient by coefficient, as Horner's rule does.              *)
(***************************************************************************)
EXTENDS Recovery, FiniteSetTheorems, TLAPS

-----------------------------------------------------------------------------
(* Arithmetic modulo a prime *)

\* a and b are the same element of the field.
Same(a, b) == \E k \in Int : a = b + k * Prime

LEMMA ProductOfNats == \A m, n \in Nat : m * n \in Nat
OBVIOUS

LEMMA ProductOfInts == \A m, n \in Int : m * n \in Int
OBVIOUS

LEMMA PrimeIsNat == Prime \in Nat /\ Prime > 1
BY PrimeAssumption

LEMMA Remainder ==
    ASSUME NEW a \in Int
    PROVE  a % Prime \in Field /\ a % Prime \in Int /\ Same(a % Prime, a) /\ Same(a, a % Prime)
<1>1. a % Prime \in 0 .. Prime - 1
  BY PrimeIsNat
<1>2. a = Prime * (a \div Prime) + (a % Prime) /\ a \div Prime \in Int
  BY PrimeIsNat
<1> DEFINE k == a \div Prime
           r == a % Prime
<1>3. k \in Int /\ -k \in Int /\ r \in Int
  BY <1>1, <1>2
<1> HIDE DEF k, r
<1>4. a = r + k * Prime
  BY <1>2, <1>3, PrimeIsNat DEF k, r
<1>5. r = a + (-k) * Prime
  BY <1>3, <1>4, PrimeIsNat
<1> QED BY <1>1, <1>3, <1>4, <1>5 DEF Same, Field, r

LEMMA SameRefl == \A a \in Int : Same(a, a)
<1> SUFFICES ASSUME NEW a \in Int PROVE \E k \in Int : a = a + k * Prime
  BY DEF Same
<1>1. a = a + 0 * Prime
  BY PrimeIsNat
<1> QED BY <1>1

LEMMA SameSym == ASSUME NEW a \in Int, NEW b \in Int, Same(a, b) PROVE Same(b, a)
<1>1. PICK k \in Int : a = b + k * Prime
  BY DEF Same
<1>2. b = a + (-k) * Prime /\ -k \in Int
  BY <1>1, PrimeIsNat
<1> QED BY <1>2 DEF Same

LEMMA SameTrans ==
    ASSUME NEW a \in Int, NEW b \in Int, NEW c \in Int, Same(a, b), Same(b, c) PROVE Same(a, c)
<1>1. PICK k \in Int : a = b + k * Prime
  BY DEF Same
<1>2. PICK m \in Int : b = c + m * Prime
  BY DEF Same
<1>3. a = c + (k + m) * Prime /\ k + m \in Int
  BY <1>1, <1>2, PrimeIsNat
<1> QED BY <1>3 DEF Same

LEMMA SamePlus ==
    ASSUME NEW a \in Int, NEW b \in Int, NEW c \in Int, NEW d \in Int, Same(a, b), Same(c, d)
    PROVE  Same(a + c, b + d)
<1>1. PICK k \in Int : a = b + k * Prime
  BY DEF Same
<1>2. PICK m \in Int : c = d + m * Prime
  BY DEF Same
<1>3. a + c = (b + d) + (k + m) * Prime /\ k + m \in Int
  BY <1>1, <1>2, PrimeIsNat
<1> QED BY <1>3 DEF Same

LEMMA SameTimes ==
    ASSUME NEW a \in Int, NEW b \in Int, NEW c \in Int, NEW d \in Int, Same(a, b), Same(c, d)
    PROVE  Same(a * c, b * d)
<1>1. PICK k \in Int : a = b + k * Prime
  BY DEF Same
<1>2. PICK m \in Int : c = d + m * Prime
  BY DEF Same
<1> DEFINE j == k * d + m * b + k * m * Prime
<1>3. j \in Int
  BY PrimeIsNat
<1>4. (b + k * Prime) * (d + m * Prime) = b * d + (k * d + m * b + k * m * Prime) * Prime
  BY PrimeIsNat
<1>5. a * c = b * d + j * Prime
  BY <1>1, <1>2, <1>4
<1> QED BY <1>3, <1>5 DEF Same

\* Elements of the field that are the same are equal.
LEMMA SameInField ==
    ASSUME NEW a \in Field, NEW b \in Field, Same(a, b) PROVE a = b
<1>1. PICK k \in Int : a = b + k * Prime
  BY DEF Same
<1>2. /\ a \in Int /\ b \in Int /\ 0 <= a /\ a < Prime /\ 0 <= b /\ b < Prime
  BY PrimeIsNat DEF Field
<1>3. k >= 1 => k * Prime >= Prime
  <2>1. k >= 1 => (k - 1) * Prime \in Nat
    BY PrimeIsNat, ProductOfNats
  <2>2. k * Prime = (k - 1) * Prime + Prime
    BY PrimeIsNat
  <2> QED BY <2>1, <2>2, PrimeIsNat
<1>4. k <= -1 => k * Prime <= -Prime
  <2>1. k <= -1 => (-1 - k) * Prime \in Nat
    BY PrimeIsNat, ProductOfNats
  <2>2. k * Prime = -((-1 - k) * Prime) - Prime
    BY PrimeIsNat
  <2>3. (-1 - k) * Prime \in Int
    BY PrimeIsNat, ProductOfInts
  <2> QED BY <2>1, <2>2, <2>3, PrimeIsNat
<1>5. k = 0 => k * Prime = 0
  BY PrimeIsNat
<1>6. k * Prime \in Int
  BY PrimeIsNat, ProductOfInts
<1> DEFINE m == k * Prime
<1> HIDE DEF m
<1>7. a = b + m /\ m \in Int /\ (k >= 1 => m >= Prime) /\ (k <= -1 => m <= -Prime) /\ (k = 0 => m = 0)
  BY <1>1, <1>3, <1>4, <1>5, <1>6 DEF m
<1> QED BY <1>2, <1>7, PrimeIsNat

\* Numbers have a least one among them.
LEMMA LeastNumber ==
    ASSUME NEW A \in SUBSET Nat, A # {} PROVE \E n \in A : \A m \in A : n <= m
<1> DEFINE less == {ss \in Nat \X Nat : ss[1] < ss[2]}
<1>1. IsWellFoundedOn(less, Nat)
  BY NatLessThanWellFounded DEF OpToRel
<1>2. \E n \in A : \A m \in A : ~(<<m, n>> \in less)
  <2> HIDE DEF less
  <2> QED BY ONLY <1>1, WFMin, A \in SUBSET Nat, A # {}
<1>3. PICK n \in A : \A m \in A : ~(<<m, n>> \in less)
  BY <1>2
<1>4. ASSUME NEW m \in A, ~(n <= m) PROVE FALSE
  <2>1. m \in Nat /\ n \in Nat
    OBVIOUS
  <2>2. m < n
    BY <1>4, <2>1
  <2>3. <<m, n>> \in less
    BY <2>1, <2>2
  <2> QED BY <1>3, <2>3
<1> QED BY <1>4

\* The smallest multiple of a modulo the prime divides the prime, so it is 1.
LEMMA MultipleIsOne ==
    ASSUME NEW a \in 1 .. Prime - 1 PROVE \E b \in Int : Same(a * b, 1)
<1> DEFINE A == {m \in 1 .. Prime - 1 : \E b \in Int : Same(a * b, m)}
<1>1. a \in Int /\ a \in A
  <2>1. a \in Int /\ a * 1 = a /\ 1 \in Int
    BY PrimeIsNat
  <2>2. Same(a * 1, a)
    BY <2>1, SameRefl
  <2>3. \E b \in Int : Same(a * b, a)
    BY <2>1, <2>2, Zenon
  <2> QED BY <2>1, <2>3
<1>2. PICK m \in A : \A n \in A : m <= n
  <2>1. A \in SUBSET Nat /\ A # {}
    <3>1. 1 .. Prime - 1 \subseteq Nat /\ A \subseteq 1 .. Prime - 1
      BY PrimeIsNat
    <3> HIDE DEF A
    <3> QED BY <1>1, <3>1
  <2> HIDE DEF A
  <2> QED BY <2>1, LeastNumber
<1>3. m \in Nat /\ 1 <= m /\ m < Prime
  BY PrimeIsNat
<1>4. PICK b \in Int : Same(a * b, m)
  OBVIOUS
<1>5. PICK k \in Int : a * b = m + k * Prime
  BY <1>4 DEF Same
<1> DEFINE q == Prime \div m
           s == Prime % m
<1>6. q \in Int /\ s \in 0 .. m - 1 /\ Prime = m * q + s
  <2>1. Prime = m * (Prime \div m) + (Prime % m) /\ Prime \div m \in Int /\ Prime % m \in 0 .. m - 1
    BY <1>3, PrimeIsNat
  <2> QED BY <2>1
<1> HIDE DEF A, q, s
<1>7. a * (-(b * q)) = s + (-1 - k * q) * Prime
  <2>1. a * (-(b * q)) = -((a * b) * q)
    BY <1>1, <1>6
  <2>2. (m + k * Prime) * q = m * q + (k * q) * Prime
    BY <1>3, <1>6, PrimeIsNat
  <2>3. m * q = Prime - s
    <3>1. m * q \in Int
      BY <1>3, <1>6, ProductOfInts
    <3> QED BY <1>3, <1>6, <3>1, PrimeIsNat
  <2>4. k * q \in Int /\ (k * q) * Prime \in Int
    BY <1>6, PrimeIsNat, ProductOfInts
  <2>5. (-1 - k * q) * Prime = -Prime - (k * q) * Prime
    BY <1>6, PrimeIsNat
  <2>6. a * (-(b * q)) = -((Prime - s) + (k * q) * Prime)
    BY <1>5, <2>1, <2>2, <2>3
  <2> DEFINE t == (k * q) * Prime
  <2> HIDE DEF t
  <2>7. -((Prime - s) + t) = s + (-Prime - t)
    BY <1>3, <1>6, <2>4, PrimeIsNat DEF t
  <2> QED BY <2>5, <2>6, <2>7 DEF t
<1>8. s = 0
  <2>1. -(b * q) \in Int /\ -1 - k * q \in Int
    BY <1>6, ProductOfInts
  <2>2. Same(a * (-(b * q)), s)
    BY <1>7, <2>1 DEF Same
  <2>3. s # 0 => s \in A
    <3>1. \E c \in Int : Same(a * c, s)
      BY <2>1, <2>2, Zenon
    <3>2. s # 0 => s \in 1 .. Prime - 1
      BY <1>3, <1>6, PrimeIsNat
    <3> QED BY <3>1, <3>2 DEF A
  <2> QED BY <1>2, <1>3, <1>6, <2>3
<1>9. m = 1
  <2> SUFFICES ASSUME m >= 2 PROVE FALSE
    BY <1>3
  <2>1. Prime = m * q
    <3>1. m * q \in Int
      BY <1>3, <1>6, ProductOfInts
    <3> QED BY <1>6, <1>8, <3>1
  <2>2. q >= 2
    <3>1. CASE q = 1
      BY <1>3, <2>1, <3>1
    <3>2. CASE q <= 0
      <4>1. -q \in Nat /\ m * (-q) \in Nat
        BY <1>3, <1>6, <3>2, ProductOfNats
      <4>2. m * (-q) = -(m * q)
        BY <1>3, <1>6
      <4> QED BY <2>1, <4>1, <4>2, PrimeIsNat
    <3> QED BY <1>6, <3>1, <3>2
  <2>3. q < Prime
    <3>1. m - 2 \in Nat /\ q \in Nat /\ (m - 2) * q \in Nat
      BY <1>3, <1>6, <2>2, ProductOfNats
    <3>2. m * q = (m - 2) * q + q + q
      BY <1>3, <1>6
    <3> QED BY <2>1, <2>2, <3>1, <3>2
  <2>4. m \in 2 .. Prime - 1 /\ q \in 2 .. Prime - 1
    BY <1>3, <1>6, <2>2, <2>3, PrimeIsNat
  <2> QED BY <2>1, <2>4, PrimeAssumption
<1> QED BY <1>4, <1>9

\* Every element but 0 has a reciprocal, and Reciprocal chooses it.
LEMMA ReciprocalIs ==
    ASSUME NEW a \in 1 .. Prime - 1
    PROVE  Reciprocal(a) \in Field /\ Reciprocal(a) \in Int /\ Same(a * Reciprocal(a), 1)
<1>1. a \in Int /\ 1 \in Field /\ 1 \in Int
  BY PrimeIsNat DEF Field
<1>2. PICK b \in Int : Same(a * b, 1)
  BY MultipleIsOne
<1> DEFINE r == b % Prime
<1>3. r \in Field /\ r \in Int /\ Same(r, b)
  BY Remainder
<1> HIDE DEF r
<1>4. Same(a * r, a * b)
  BY <1>1, <1>3, SameRefl, SameTimes
<1>5. Same(a * r, 1) /\ a * r \in Int
  BY <1>1, <1>2, <1>3, <1>4, SameTrans, ProductOfInts
<1>6. (a * r) % Prime \in Field /\ (a * r) % Prime \in Int /\ Same((a * r) % Prime, a * r)
  BY <1>5, Remainder
<1>7. (a * r) % Prime = 1
  BY <1>1, <1>5, <1>6, SameTrans, SameInField
<1>8. Reciprocal(a) \in Field /\ (a * Reciprocal(a)) % Prime = 1
  BY <1>3, <1>7 DEF Reciprocal
<1>9. Reciprocal(a) \in Int /\ a * Reciprocal(a) \in Int
  BY <1>1, <1>8, PrimeIsNat, ProductOfInts DEF Field
<1> QED BY <1>8, <1>9, Remainder

-----------------------------------------------------------------------------
(* Induction over numbers and over finite sets                               *)

LEMMA NumbersReached ==
    ASSUME NEW A, 0 \in A, \A n \in Nat : n \in A => n + 1 \in A
    PROVE  Nat \subseteq A
<1> DEFINE less == {ss \in Nat \X Nat : ss[1] < ss[2]}
<1>1. IsWellFoundedOn(less, Nat)
  BY NatLessThanWellFounded DEF OpToRel
<1>2. SUFFICES ASSUME Nat \ A # {} PROVE FALSE
  OBVIOUS
<1>3. PICK n \in Nat \ A : \A m \in Nat \ A : ~(<<m, n>> \in less)
  <2>1. Nat \ A \subseteq Nat
    OBVIOUS
  <2> HIDE DEF less
  <2> QED BY ONLY <1>1, <1>2, <2>1, WFMin
<1>4. n # 0
  BY <1>3
<1>5. n - 1 \in Nat /\ n - 1 < n
  BY <1>3, <1>4
<1>6. n - 1 \in A
  BY <1>3, <1>5
<1> QED BY <1>3, <1>5, <1>6

\* Among some subsets of a finite set there is one with none of them inside.
LEMMA SmallestSet ==
    ASSUME NEW S, IsFiniteSet(S), NEW B \in SUBSET (SUBSET S), B # {}
    PROVE  \E T \in B : \A U \in B : U \subseteq T => U = T
<1>1. IsWellFoundedOn(StrictSubsetOrdering(S), FiniteSubsetsOf(S))
  BY FS_StrictSubsetOrderingWellFounded
<1>2. FiniteSubsetsOf(S) = SUBSET S
  BY FS_FiniteSubsetsOfFinite
<1>3. \E T \in B : \A U \in B : ~(<<U, T>> \in StrictSubsetOrdering(S))
  BY <1>1, <1>2, WFMin
<1> QED BY <1>3 DEF StrictSubsetOrdering

-----------------------------------------------------------------------------
(* Folds.  A fold takes the elements of a finite set one by one, in the order *)
(* of ch; what it makes of an element and of the rest stays in V.             *)

FoldOver(S, V, ch, step, base) ==
    /\ IsFiniteSet(S)
    /\ base \in V
    /\ step \in [S -> [V -> V]]
    /\ \A s \in SUBSET S : s # {} => ch[s] \in s

\* g is the fold of the sets in D.
Folds(g, ch, step, base, D) ==
    \A s \in D : /\ s = {} => g[s] = base
                 /\ s # {} => g[s] = step[ch[s]][g[s \ {ch[s]}]]

\* g is the fold of all subsets of S.
IsFold(g, S, V, ch, step, base) ==
    /\ FoldOver(S, V, ch, step, base)
    /\ g \in [SUBSET S -> V]
    /\ Folds(g, ch, step, base, SUBSET S)

\* There is a function that satisfies the equations of a fold.
LEMMA FoldExists ==
    ASSUME NEW S, NEW V, NEW ch, NEW step, NEW base, FoldOver(S, V, ch, step, base)
    PROVE  \E g : IsFold(g, S, V, ch, step, base)
<1> DEFINE Upto(n) == {s \in SUBSET S : Cardinality(s) <= n}
           A == {n \in Nat : \E g \in [Upto(n) -> V] : Folds(g, ch, step, base, Upto(n))}
<1>1. \A s \in SUBSET S : IsFiniteSet(s) /\ Cardinality(s) \in Nat /\ Cardinality(s) <= Cardinality(S)
  BY FS_Subset, FS_CardinalityType DEF FoldOver
<1>2. \A s \in SUBSET S : s # {} => /\ ch[s] \in s /\ s \ {ch[s]} \in SUBSET S
                                    /\ Cardinality(s \ {ch[s]}) = Cardinality(s) - 1
  BY <1>1, FS_RemoveElement DEF FoldOver
<1>3. \A s \in SUBSET S : Cardinality(s) <= 0 <=> s = {}
  BY <1>1, FS_EmptySet
<1>4. 0 \in A
  <2>1. Upto(0) = {{}}
    BY <1>3
  <2>2. [s \in {{}} |-> base] \in [{{}} -> V] /\ Folds([s \in {{}} |-> base], ch, step, base, {{}})
    BY DEF Folds, FoldOver
  <2> QED BY <2>1, <2>2
<1>5. ASSUME NEW n \in Nat, n \in A PROVE n + 1 \in A
  <2>1. PICK g \in [Upto(n) -> V] : Folds(g, ch, step, base, Upto(n))
    BY <1>5
  <2> DEFINE h == [s \in Upto(n + 1) |-> IF s = {} THEN base ELSE step[ch[s]][g[s \ {ch[s]}]]]
  <2>2. Upto(n) \subseteq Upto(n + 1)
    BY <1>1
  <2>3. \A s \in Upto(n) : h[s] = g[s]
    BY <2>1, <2>2 DEF Folds
  <2>4. \A s \in Upto(n + 1) : s # {} => s \ {ch[s]} \in Upto(n) /\ ch[s] \in S
    BY <1>1, <1>2
  <2>5. \A s \in Upto(n + 1) : s # {} => step[ch[s]][g[s \ {ch[s]}]] \in V
    BY <2>1, <2>4 DEF FoldOver
  <2>6. h \in [Upto(n + 1) -> V]
    BY <2>5 DEF FoldOver
  <2>7. Folds(h, ch, step, base, Upto(n + 1))
    BY <2>3, <2>4 DEF Folds
  <2> HIDE DEF h
  <2>8. \E f \in [Upto(n + 1) -> V] : Folds(f, ch, step, base, Upto(n + 1))
    BY <2>6, <2>7
  <2>9. n + 1 \in Nat
    OBVIOUS
  <2> HIDE DEF Upto
  <2> QED BY <2>8, <2>9, Zenon
<1>6. Cardinality(S) \in A
  <2> HIDE DEF A
  <2> QED BY <1>1, <1>4, <1>5, NumbersReached DEF FoldOver
<1>7. Upto(Cardinality(S)) = SUBSET S
  BY <1>1
<1> QED BY <1>6, <1>7 DEF IsFold

\* g is a fold as far as it is known to stay in V.
Follows(g, ch, step, base, V, D) ==
    \A s \in D : /\ s = {} => g[s] = base
                 /\ s # {} /\ g[s \ {ch[s]}] \in V => g[s] = step[ch[s]][g[s \ {ch[s]}]]

\* What satisfies the equations of a fold is that fold.
LEMMA FoldIsUnique ==
    ASSUME NEW S, NEW V, NEW ch, NEW step, NEW base, NEW k,
           IsFold(k, S, V, ch, step, base),
           NEW T \in SUBSET S, NEW g, Follows(g, ch, step, base, V, SUBSET T)
    PROVE  g[T] = k[T]
<1> USE DEF IsFold
<1> DEFINE B == {s \in SUBSET T : g[s] # k[s]}
<1>1. IsFiniteSet(T)
  BY FS_Subset DEF FoldOver
<1>2. SUFFICES ASSUME B # {} PROVE FALSE
  OBVIOUS
<1>3. PICK s \in B : \A u \in B : u \subseteq s => u = s
  <2> HIDE DEF B
  <2>1. B \in SUBSET (SUBSET T)
    BY DEF B
  <2> QED BY <1>1, <1>2, <2>1, SmallestSet
<1>4. s \in SUBSET T /\ s \in SUBSET S
  OBVIOUS
<1>5. s # {} => /\ ch[s] \in s /\ s \ {ch[s]} \in SUBSET T /\ s \ {ch[s]} \in SUBSET S
                /\ s \ {ch[s]} \notin B
  BY <1>3, <1>4 DEF FoldOver
<1>6. s # {} => g[s \ {ch[s]}] = k[s \ {ch[s]}] /\ k[s \ {ch[s]}] \in V
  BY <1>5
<1> QED BY <1>3, <1>4, <1>6 DEF Follows, Folds

\* The order of two elements does not matter.
Commutes(step, S, V) == \A x, y \in S, v \in V : step[x][step[y][v]] = step[y][step[x][v]]

\* Then any element may be taken first.
LEMMA FoldTakesAny ==
    ASSUME NEW S, NEW V, NEW ch, NEW step, NEW base, NEW k,
           IsFold(k, S, V, ch, step, base), Commutes(step, S, V)
    PROVE  \A z \in S : k[S] = step[z][k[S \ {z}]]
<1> USE DEF IsFold
<1> DEFINE Good(s) == \A x \in s : k[s] = step[x][k[s \ {x}]]
           B == {s \in SUBSET S : ~Good(s)}
<1>1. SUFFICES ASSUME B # {} PROVE FALSE
  OBVIOUS
<1>2. PICK s \in B : \A u \in B : u \subseteq s => u = s
  <2> HIDE DEF B
  <2>1. B \in SUBSET (SUBSET S)
    BY DEF B
  <2> QED BY <1>1, <2>1, SmallestSet DEF FoldOver
<1>3. s \in SUBSET S /\ ~Good(s)
  OBVIOUS
<1>4. PICK y \in s : k[s] # step[y][k[s \ {y}]]
  BY <1>3
<1> DEFINE x == ch[s]
<1>5. x \in s /\ k[s] = step[x][k[s \ {x}]]
  BY <1>3, <1>4 DEF FoldOver, Folds
<1> HIDE DEF x
<1>6. x # y /\ y \in s \ {x} /\ x \in s \ {y}
  BY <1>4, <1>5
<1>7. ASSUME NEW u \in SUBSET s, u # s PROVE Good(u)
  <2> HIDE DEF Good
  <2> QED BY <1>2, <1>3, <1>7
<1> DEFINE r == (s \ {x}) \ {y}
<1>8. (s \ {y}) \ {x} = r /\ r \in SUBSET S /\ k[r] \in V
  BY <1>3
<1>9. k[s \ {x}] = step[y][k[r]]
  BY <1>5, <1>6, <1>7
<1>10. k[s \ {y}] = step[x][k[r]]
  <2>1. Good(s \ {y})
    BY <1>4, <1>7
  <2>2. k[s \ {y}] = step[x][k[(s \ {y}) \ {x}]]
    BY <1>6, <2>1
  <2> QED BY <1>8, <2>2
<1> HIDE DEF r
<1>11. step[x][step[y][k[r]]] = step[y][step[x][k[r]]]
  BY <1>3, <1>4, <1>5, <1>8 DEF Commutes
<1> QED BY <1>4, <1>5, <1>9, <1>10, <1>11

-----------------------------------------------------------------------------
(* Sums modulo the prime *)

\* The element that FoldSet takes first.
Some(s) == CHOOSE x \in s : TRUE

SomeOf(S) == [s \in SUBSET S |-> Some(s)]

LEMMA SomeOfIn ==
    \A S : \A s \in SUBSET S : SomeOf(S)[s] = Some(s) /\ (s # {} => Some(s) \in s)
BY DEF SomeOf, Some

\* The sum of the t[x] over S, as a fold.
Adding(t, S) == [x \in S |-> [v \in Field |-> (v + t[x]) % Prime]]

IsSum(k, t, S) == IsFold(k, S, Field, SomeOf(S), Adding(t, S), 0)

Total(t, S) == (CHOOSE k : IsSum(k, t, S))[S]

LEMMA FieldIsInt == Field \subseteq Int /\ 0 \in Field /\ 1 \in Field
BY PrimeIsNat DEF Field

LEMMA SumFolds ==
    ASSUME NEW S, IsFiniteSet(S), NEW t, \A x \in S : t[x] \in Int
    PROVE  /\ FoldOver(S, Field, SomeOf(S), Adding(t, S), 0)
           /\ \A x \in S, v \in Field : Adding(t, S)[x][v] = (v + t[x]) % Prime
           /\ \E k : IsSum(k, t, S)
<1>1. \A x \in S, v \in Field : (v + t[x]) % Prime \in Field
  <2> SUFFICES ASSUME NEW x \in S, NEW v \in Field PROVE (v + t[x]) % Prime \in Field
    OBVIOUS
  <2>1. v + t[x] \in Int
    BY FieldIsInt
  <2> QED BY <2>1, Remainder
<1>2. Adding(t, S) \in [S -> [Field -> Field]]
  BY <1>1 DEF Adding
<1>3. \A x \in S, v \in Field : Adding(t, S)[x][v] = (v + t[x]) % Prime
  BY DEF Adding
<1>4. FoldOver(S, Field, SomeOf(S), Adding(t, S), 0)
  BY <1>2, SomeOfIn, FieldIsInt DEF FoldOver
<1>5. \E k : IsSum(k, t, S)
  BY <1>4, FoldExists DEF IsSum
<1> QED BY <1>3, <1>4, <1>5

LEMMA TotalOf ==
    ASSUME NEW S, IsFiniteSet(S), NEW t, \A x \in S : t[x] \in Int, NEW k, IsSum(k, t, S),
           NEW T \in SUBSET S
    PROVE  Total(t, T) = k[T]
<1> DEFINE g == CHOOSE h : IsSum(h, t, T)
<1>1. IsFiniteSet(T) /\ \A x \in T : t[x] \in Int
  BY FS_Subset
<1>2. IsSum(g, t, T)
  BY <1>1, SumFolds
<1> HIDE DEF g
<1>3. Follows(g, SomeOf(S), Adding(t, S), 0, Field, SUBSET T)
  <2> SUFFICES ASSUME NEW s \in SUBSET T
               PROVE  /\ s = {} => g[s] = 0
                      /\ s # {} /\ g[s \ {SomeOf(S)[s]}] \in Field =>
                            g[s] = Adding(t, S)[SomeOf(S)[s]][g[s \ {SomeOf(S)[s]}]]
    BY DEF Follows
  <2>1. s = {} => g[s] = 0
    BY <1>2 DEF IsSum, IsFold, Folds
  <2>2. ASSUME s # {}, g[s \ {SomeOf(S)[s]}] \in Field
        PROVE  g[s] = Adding(t, S)[SomeOf(S)[s]][g[s \ {SomeOf(S)[s]}]]
    <3>1. SomeOf(S)[s] = Some(s) /\ SomeOf(T)[s] = Some(s) /\ Some(s) \in T /\ Some(s) \in S
      BY <2>2, SomeOfIn
    <3>2. g[s] = Adding(t, T)[Some(s)][g[s \ {Some(s)}]]
      BY <1>2, <2>2, <3>1 DEF IsSum, IsFold, Folds
    <3>3. Adding(t, S)[Some(s)] = Adding(t, T)[Some(s)]
      BY <3>1 DEF Adding
    <3> QED BY <3>1, <3>2, <3>3
  <2> QED BY <2>1, <2>2
<1>4. g[T] = k[T]
  BY <1>3, FoldIsUnique DEF IsSum
<1> QED BY <1>4 DEF Total, g

\* A sum is in the field, and any term may be taken out.
LEMMA TotalTakesOut ==
    ASSUME NEW S, IsFiniteSet(S), NEW t, \A x \in S : t[x] \in Int
    PROVE  /\ Total(t, S) \in Field /\ Total(t, S) \in Int
           /\ S = {} => Total(t, S) = 0
           /\ \A x \in S : Same(Total(t, S), Total(t, S \ {x}) + t[x])
<1>1. PICK k : IsSum(k, t, S)
  BY SumFolds
<1>2. \A T \in SUBSET S : Total(t, T) = k[T]
  BY <1>1, TotalOf
<1>3. \A T \in SUBSET S : Total(t, T) \in Field /\ Total(t, T) \in Int
  BY <1>1, <1>2, FieldIsInt DEF IsSum, IsFold
<1>4. S = {} => Total(t, S) = 0
  BY <1>1, <1>2 DEF IsSum, IsFold, Folds
<1>5. Commutes(Adding(t, S), S, Field)
  <2> SUFFICES ASSUME NEW x \in S, NEW y \in S, NEW v \in Field
               PROVE  Adding(t, S)[x][Adding(t, S)[y][v]] = Adding(t, S)[y][Adding(t, S)[x][v]]
    BY DEF Commutes
  <2>1. v \in Int /\ t[x] \in Int /\ t[y] \in Int
    BY FieldIsInt
  <2> DEFINE both(p, q) == (((v + p) % Prime) + q) % Prime
  <2>2. ASSUME NEW p \in Int, NEW q \in Int
        PROVE  both(p, q) \in Field /\ both(p, q) \in Int /\ Same(both(p, q), (v + p) + q)
    <3> DEFINE r == (v + p) % Prime
    <3>1. v + p \in Int
      BY <2>1
    <3>2. r \in Int /\ Same(r, v + p)
      BY <3>1, Remainder
    <3> HIDE DEF r
    <3>3. Same(r + q, (v + p) + q)
      BY <3>1, <3>2, SameRefl, SamePlus
    <3>4. r + q \in Int /\ (v + p) + q \in Int
      BY <3>1, <3>2
    <3> QED BY <3>3, <3>4, Remainder, SameTrans DEF r
  <2>3. /\ both(t[x], t[y]) \in Field /\ both(t[x], t[y]) \in Int
        /\ both(t[y], t[x]) \in Field /\ both(t[y], t[x]) \in Int
        /\ Same(both(t[x], t[y]), (v + t[x]) + t[y])
        /\ Same(both(t[y], t[x]), (v + t[y]) + t[x])
    BY <2>1, <2>2
  <2>4. (v + t[x]) + t[y] = (v + t[y]) + t[x] /\ (v + t[x]) + t[y] \in Int
    BY <2>1
  <2> HIDE DEF both
  <2>5. Same(both(t[x], t[y]), both(t[y], t[x]))
    BY <2>3, <2>4, SameSym, SameTrans
  <2>6. both(t[x], t[y]) = both(t[y], t[x])
    BY <2>3, <2>5, SameInField
  <2>7. \A z \in S : (v + t[z]) % Prime \in Field
    <3> SUFFICES ASSUME NEW z \in S PROVE (v + t[z]) % Prime \in Field
      OBVIOUS
    <3>1. v + t[z] \in Int
      BY <2>1
    <3> QED BY <3>1, Remainder
  <2> QED BY <2>6, <2>7, SumFolds DEF both
<1>6. ASSUME NEW x \in S PROVE Same(Total(t, S), Total(t, S \ {x}) + t[x])
  <2>1. k[S] = Adding(t, S)[x][k[S \ {x}]]
    BY <1>1, <1>5, FoldTakesAny DEF IsSum
  <2>2. Total(t, S) = (Total(t, S \ {x}) + t[x]) % Prime
    BY <1>2, <1>3, <2>1, SumFolds
  <2>3. Total(t, S \ {x}) + t[x] \in Int
    BY <1>3
  <2> QED BY <2>2, <2>3, Remainder
<1> QED BY <1>3, <1>4, <1>6

\* Sums are linear in their terms.
LEMMA TotalIsLinear ==
    ASSUME NEW S, IsFiniteSet(S), NEW t, NEW u, NEW w, NEW a \in Int, NEW b \in Int,
           \A x \in S : /\ t[x] \in Int /\ u[x] \in Int /\ w[x] \in Int
                        /\ Same(t[x], a * u[x] + b * w[x])
    PROVE  Same(Total(t, S), a * Total(u, S) + b * Total(w, S))
<1> DEFINE Good(T) == Same(Total(t, T), a * Total(u, T) + b * Total(w, T))
           B == {T \in SUBSET S : ~Good(T)}
<1>1. SUFFICES ASSUME B # {} PROVE FALSE
  OBVIOUS
<1>2. PICK T \in B : \A U \in B : U \subseteq T => U = T
  <2> HIDE DEF B
  <2>1. B \in SUBSET (SUBSET S)
    BY DEF B
  <2> QED BY <1>1, <2>1, SmallestSet
<1>3. T \in SUBSET S /\ ~Good(T) /\ IsFiniteSet(T)
  BY FS_Subset
<1>4. /\ Total(t, T) \in Int /\ Total(u, T) \in Int /\ Total(w, T) \in Int
  BY <1>3, TotalTakesOut
<1>5. T # {}
  <2> SUFFICES ASSUME T = {} PROVE FALSE
    OBVIOUS
  <2>1. Total(t, T) = 0 /\ Total(u, T) = 0 /\ Total(w, T) = 0
    BY <1>3, TotalTakesOut
  <2>2. a * 0 + b * 0 = 0 /\ 0 \in Int
    OBVIOUS
  <2>3. Same(0, a * 0 + b * 0)
    BY <2>2, SameRefl
  <2> QED BY <1>3, <2>1, <2>3
<1>6. PICK x : x \in T
  BY <1>5
<1> DEFINE R == T \ {x}
           tr == Total(t, R)
           ur == Total(u, R)
           wr == Total(w, R)
           tx == t[x]
           ux == u[x]
           wx == w[x]
<1>7. R \in SUBSET S /\ IsFiniteSet(R) /\ Good(R)
  BY <1>2, <1>3, <1>6, FS_Subset
<1>8. tr \in Int /\ ur \in Int /\ wr \in Int
  BY <1>7, TotalTakesOut
<1>9. tx \in Int /\ ux \in Int /\ wx \in Int /\ Same(tx, a * ux + b * wx)
  BY <1>3, <1>6
<1>10. Same(Total(t, T), tr + tx) /\ Same(Total(u, T), ur + ux) /\ Same(Total(w, T), wr + wx)
  BY <1>3, <1>6, TotalTakesOut
<1>11. Same(tr, a * ur + b * wr)
  BY <1>7
<1> DEFINE tt == Total(t, T)
           ut == Total(u, T)
           wt == Total(w, T)
<1> HIDE DEF R, tr, ur, wr, tx, ux, wx, tt, ut, wt
<1>12. a * ur + b * wr \in Int /\ a * ux + b * wx \in Int
  BY <1>8, <1>9, ProductOfInts
<1>13. Same(tr + tx, (a * ur + b * wr) + (a * ux + b * wx))
  BY <1>8, <1>9, <1>11, <1>12, SamePlus
<1>14. (a * ur + b * wr) + (a * ux + b * wx) = a * (ur + ux) + b * (wr + wx)
  BY <1>8, <1>9
<1>15. /\ tt \in Int /\ ut \in Int /\ wt \in Int
       /\ Same(tt, tr + tx) /\ Same(ur + ux, ut) /\ Same(wr + wx, wt)
       /\ ur + ux \in Int /\ wr + wx \in Int /\ tr + tx \in Int
  <2>1. ur + ux \in Int /\ wr + wx \in Int /\ tr + tx \in Int
    BY <1>8, <1>9
  <2> QED BY <1>4, <1>10, <2>1, SameSym DEF tt, ut, wt
<1>16. Same(a * (ur + ux) + b * (wr + wx), a * ut + b * wt)
  <2>1. Same(a * (ur + ux), a * ut) /\ Same(b * (wr + wx), b * wt)
    BY <1>15, SameRefl, SameTimes
  <2>2. a * (ur + ux) \in Int /\ a * ut \in Int /\ b * (wr + wx) \in Int /\ b * wt \in Int
    BY <1>15, ProductOfInts
  <2> QED BY <2>1, <2>2, SamePlus
<1>17. Same(tt, a * ut + b * wt)
  <2>1. a * (ur + ux) + b * (wr + wx) \in Int /\ a * ut + b * wt \in Int
    BY <1>15, ProductOfInts
  <2>2. Same(tt, a * (ur + ux) + b * (wr + wx))
    BY <1>13, <1>14, <1>15, <2>1, SameTrans
  <2> QED BY <1>15, <1>16, <2>1, <2>2, SameTrans
<1> QED BY <1>3, <1>17 DEF tt, ut, wt
-----------------------------------------------------------------------------
(* Weights (sharks::recover)                                                 *)

\* Points to interpolate: finitely many, with different indices, none of them 0.
Points(S) ==
    /\ IsFiniteSet(S)
    /\ \A p \in S : p.index \in 1 .. Prime - 1 /\ p.y \in Field
    /\ \A p, q \in S : p.index = q.index => p = q

LEMMA SomePoints == ASSUME NEW S, Points(S), NEW T \in SUBSET S PROVE Points(T)
BY FS_Subset DEF Points

LEMMA PointTypes ==
    ASSUME NEW S, Points(S), NEW p \in S
    PROVE  p.index \in Int /\ p.index \in Field /\ p.y \in Int /\ p.y \in Field
BY PrimeIsNat, FieldIsInt DEF Points, Field

\* What the distance of two points is divided by.
Apart(q, p) == Reciprocal((q.index - p.index) % Prime)

LEMMA ApartInverts ==
    ASSUME NEW S, Points(S), NEW p \in S, NEW q \in S, p # q
    PROVE  Apart(q, p) \in Int /\ Same((q.index - p.index) * Apart(q, p), 1)
<1> DEFINE i == q.index
           j == p.index
           r == (i - j) % Prime
           b == Apart(q, p)
<1>1. i \in Int /\ j \in Int /\ i \in Field /\ j \in Field /\ i # j
  BY PointTypes DEF Points
<1> HIDE DEF i, j
<1>2. i - j \in Int
  BY <1>1
<1>3. r \in Field /\ r \in Int /\ Same(r, i - j) /\ Same(i - j, r)
  BY <1>2, Remainder
<1> HIDE DEF r
<1>4. r # 0
  <2> SUFFICES ASSUME r = 0 PROVE FALSE
    OBVIOUS
  <2>1. Same(i - j, 0) /\ Same(j, j) /\ 0 \in Int
    BY <1>1, <1>3, SameRefl
  <2>2. Same((i - j) + j, 0 + j)
    BY <1>1, <1>2, <2>1, SamePlus
  <2>3. (i - j) + j = i /\ 0 + j = j
    BY <1>1
  <2> QED BY <1>1, <2>2, <2>3, SameInField
<1>5. r \in 1 .. Prime - 1
  BY <1>3, <1>4, PrimeIsNat DEF Field
<1>6. b \in Int /\ Same(r * b, 1)
  BY <1>5, ReciprocalIs DEF Apart, r, i, j
<1> HIDE DEF b
<1>7. Same((i - j) * b, r * b)
  BY <1>2, <1>3, <1>6, SameRefl, SameTimes
<1>8. (i - j) * b \in Int /\ r * b \in Int /\ 1 \in Int
  BY <1>2, <1>3, <1>6, ProductOfInts
<1> QED BY <1>6, <1>7, <1>8, SameTrans DEF b, i, j

\* The steps of the fold of Weight.
Weighing(p, S) == [q \in S |-> [w \in Field |-> (w * q.index * Apart(q, p)) % Prime]]

\* g is what the fold of Weight computes.
Weighs(g, p, T) ==
    g = [s \in SUBSET T |->
            IF s = {} THEN 1
            ELSE (g[s \ {Some(s)}] * Some(s).index * Apart(Some(s), p)) % Prime]

LEMMA WeightIs ==
    ASSUME NEW S, NEW p
    PROVE  Weight(S, p) = (CHOOSE g : Weighs(g, p, S \ {p}))[S \ {p}]
BY Zenon DEF Weight, FoldSet, MapThenFoldSet, Weighs, Some, Apart

LEMMA WeighingFolds ==
    ASSUME NEW S, Points(S), NEW p \in S
    PROVE  LET R == S \ {p}
           IN  /\ FoldOver(R, Field, SomeOf(R), Weighing(p, R), 1)
               /\ \A q \in R, w \in Field : Weighing(p, R)[q][w] = (w * q.index * Apart(q, p)) % Prime
               /\ Commutes(Weighing(p, R), R, Field)
               /\ \E k : IsFold(k, R, Field, SomeOf(R), Weighing(p, R), 1)
<1> DEFINE R == S \ {p}
           by(w, q) == (w * q.index * Apart(q, p)) % Prime
<1>1. \A q \in R : q.index \in Int /\ Apart(q, p) \in Int
  BY PointTypes, ApartInverts
<1>2. ASSUME NEW w \in Int, NEW q \in R
      PROVE  /\ w * q.index * Apart(q, p) \in Int
             /\ by(w, q) \in Field /\ by(w, q) \in Int
             /\ Same(by(w, q), w * q.index * Apart(q, p))
  <2>1. w * q.index * Apart(q, p) \in Int
    BY <1>1, ProductOfInts
  <2> QED BY <2>1, Remainder
<1>3. \A q \in R, w \in Field : by(w, q) \in Field
  BY <1>2, FieldIsInt
<1>4. Weighing(p, R) \in [R -> [Field -> Field]]
  BY <1>3 DEF Weighing
<1>5. \A q \in R, w \in Field : Weighing(p, R)[q][w] = by(w, q)
  BY DEF Weighing
<1>6. IsFiniteSet(R)
  BY FS_Subset DEF Points
<1>7. FoldOver(R, Field, SomeOf(R), Weighing(p, R), 1)
  BY <1>4, <1>6, SomeOfIn, FieldIsInt DEF FoldOver
<1>8. \E k : IsFold(k, R, Field, SomeOf(R), Weighing(p, R), 1)
  BY <1>7, FoldExists
<1>9. Commutes(Weighing(p, R), R, Field)
  <2> SUFFICES ASSUME NEW x \in R, NEW y \in R, NEW v \in Field
               PROVE  Weighing(p, R)[x][Weighing(p, R)[y][v]] = Weighing(p, R)[y][Weighing(p, R)[x][v]]
    BY DEF Commutes
  <2>1. v \in Int
    BY FieldIsInt
  <2>2. ASSUME NEW f \in R, NEW g \in R
        PROVE  /\ by(by(v, f), g) \in Field /\ by(by(v, f), g) \in Int
               /\ Same(by(by(v, f), g), (v * f.index * Apart(f, p)) * g.index * Apart(g, p))
    <3> DEFINE r == by(v, f)
               m == v * f.index * Apart(f, p)
               i == g.index
               b == Apart(g, p)
    <3>1. r \in Int /\ m \in Int /\ Same(r, m) /\ i \in Int /\ b \in Int
      BY <1>1, <1>2, <2>1
    <3>2. by(r, g) \in Field /\ by(r, g) \in Int /\ Same(by(r, g), r * i * b)
      BY <1>2, <3>1
    <3> HIDE DEF r, m, i, b, by
    <3>3. Same(r * i, m * i) /\ r * i \in Int /\ m * i \in Int
      BY <3>1, SameRefl, SameTimes, ProductOfInts
    <3>4. Same(r * i * b, m * i * b) /\ r * i * b \in Int /\ m * i * b \in Int
      BY <3>1, <3>3, SameRefl, SameTimes, ProductOfInts
    <3>5. Same(by(r, g), m * i * b)
      BY <3>2, <3>4, SameTrans
    <3> QED BY <3>2, <3>5 DEF r, m, i, b
  <2> DEFINE xy == by(by(v, y), x)
             yx == by(by(v, x), y)
             e == (v * y.index * Apart(y, p)) * x.index * Apart(x, p)
             f == (v * x.index * Apart(x, p)) * y.index * Apart(y, p)
  <2>3. /\ xy \in Field /\ xy \in Int /\ Same(xy, e)
        /\ yx \in Field /\ yx \in Int /\ Same(yx, f)
    BY <2>2
  <2>4. e = f /\ e \in Int
    <3> DEFINE a == x.index
               b == Apart(x, p)
               c == y.index
               d == Apart(y, p)
    <3>1. a \in Int /\ b \in Int /\ c \in Int /\ d \in Int
      BY <1>1
    <3> HIDE DEF a, b, c, d
    <3>2. (v * c * d) * a * b = (v * a * b) * c * d
      BY <2>1, <3>1
    <3>3. (v * c * d) * a * b \in Int
      BY <2>1, <3>1, ProductOfInts
    <3> QED BY <3>2, <3>3 DEF a, b, c, d
  <2> HIDE DEF xy, yx, e, f
  <2>5. xy = yx
    BY <2>3, <2>4, SameSym, SameTrans, SameInField
  <2>6. by(v, x) \in Field /\ by(v, y) \in Field
    BY <1>3
  <2> HIDE DEF by, R
  <2>7. Weighing(p, R)[x][by(v, y)] = by(by(v, y), x) /\ Weighing(p, R)[y][by(v, x)] = by(by(v, x), y)
    BY <1>5, <2>6
  <2> QED BY <1>5, <2>5, <2>7 DEF xy, yx
<1> QED BY <1>5, <1>7, <1>8, <1>9

\* The weight of p among some of the points.
LEMMA WeightOf ==
    ASSUME NEW S, Points(S), NEW p \in S, NEW k,
           IsFold(k, S \ {p}, Field, SomeOf(S \ {p}), Weighing(p, S \ {p}), 1),
           NEW T \in SUBSET S, p \in T
    PROVE  Weight(T, p) = k[T \ {p}]
<1> DEFINE R == S \ {p}
           U == T \ {p}
           h == [s \in SUBSET U |-> k[s]]
           g == CHOOSE x : Weighs(x, p, U)
<1>1. U \in SUBSET R
  OBVIOUS
<1>2. ASSUME NEW s \in SUBSET U, s # {}
      PROVE  /\ Some(s) \in s /\ Some(s) \in R /\ SomeOf(R)[s] = Some(s)
             /\ \A w \in Field :
                   Weighing(p, R)[Some(s)][w] = (w * Some(s).index * Apart(Some(s), p)) % Prime
  <2>1. Some(s) \in s /\ Some(s) \in R /\ SomeOf(R)[s] = Some(s)
    BY <1>1, <1>2, SomeOfIn
  <2> QED BY <2>1 DEF Weighing
<1>3. Weighs(h, p, U)
  <2>1. ASSUME NEW s \in SUBSET U
        PROVE  h[s] = IF s = {} THEN 1
                      ELSE (h[s \ {Some(s)}] * Some(s).index * Apart(Some(s), p)) % Prime
    <3>1. CASE s = {}
      BY <1>1, <3>1 DEF IsFold, Folds
    <3>2. CASE s # {}
      <4>1. s \ {Some(s)} \in SUBSET U /\ s \ {Some(s)} \in SUBSET R /\ s \in SUBSET R
        BY <1>1
      <4>2. k[s \ {Some(s)}] \in Field
        BY <4>1 DEF IsFold
      <4>3. k[s] = Weighing(p, R)[Some(s)][k[s \ {Some(s)}]]
        BY <1>2, <3>2, <4>1 DEF IsFold, Folds
      <4>4. k[s] = (k[s \ {Some(s)}] * Some(s).index * Apart(Some(s), p)) % Prime
        BY <1>2, <3>2, <4>2, <4>3
      <4> QED BY <3>2, <4>1, <4>4
    <3> QED BY <3>1, <3>2
  <2> DEFINE e(s) == IF s = {} THEN 1
                     ELSE (h[s \ {Some(s)}] * Some(s).index * Apart(Some(s), p)) % Prime
  <2>2. h = [s \in SUBSET U |-> h[s]]
    OBVIOUS
  <2>3. \A s \in SUBSET U : h[s] = e(s)
    BY <2>1
  <2> HIDE DEF h, e
  <2>4. h = [s \in SUBSET U |-> e(s)]
    BY <2>2, <2>3
  <2> QED BY <2>4, Zenon DEF Weighs, e
<1>4. Weighs(g, p, U)
  <2> HIDE DEF h
  <2> QED BY <1>3
<1> HIDE DEF g, h
<1>5. Follows(g, SomeOf(R), Weighing(p, R), 1, Field, SUBSET U)
  <2> SUFFICES ASSUME NEW s \in SUBSET U
               PROVE  /\ s = {} => g[s] = 1
                      /\ s # {} /\ g[s \ {SomeOf(R)[s]}] \in Field =>
                            g[s] = Weighing(p, R)[SomeOf(R)[s]][g[s \ {SomeOf(R)[s]}]]
    BY DEF Follows
  <2>1. g[s] = IF s = {} THEN 1
               ELSE (g[s \ {Some(s)}] * Some(s).index * Apart(Some(s), p)) % Prime
    <3> DEFINE e(x) == IF x = {} THEN 1
                       ELSE (g[x \ {Some(x)}] * Some(x).index * Apart(Some(x), p)) % Prime
    <3>1. g = [x \in SUBSET U |-> e(x)]
      BY <1>4, Zenon DEF Weighs
    <3> HIDE DEF e
    <3>2. g[s] = e(s)
      BY <3>1
    <3> QED BY <3>2 DEF e
  <2> HIDE DEF U, R
  <2> QED BY <1>2, <2>1
<1>6. g[U] = k[U]
  <2> HIDE DEF U, R
  <2>1. IsFold(k, R, Field, SomeOf(R), Weighing(p, R), 1)
    BY DEF R
  <2> QED BY <1>1, <1>5, <2>1, FoldIsUnique
<1> QED BY <1>6, WeightIs DEF g, U

\* The factor of c in a weight is taken out by the distance from c.
LEMMA WeightTakesOut ==
    ASSUME NEW S, Points(S), NEW p \in S
    PROVE  /\ Weight(S, p) \in Field /\ Weight(S, p) \in Int
           /\ Weight({p}, p) = 1
           /\ \A c \in S \ {p} :
                 Same((p.index - c.index) * Weight(S, p), (-c.index) * Weight(S \ {c}, p))
<1> DEFINE R == S \ {p}
<1>1. PICK k : IsFold(k, R, Field, SomeOf(R), Weighing(p, R), 1)
  BY WeighingFolds
<1>2. \A T \in SUBSET S : p \in T => Weight(T, p) = k[T \ {p}] /\ k[T \ {p}] \in Field
  BY <1>1, WeightOf DEF IsFold
<1>3. \A T \in SUBSET S : p \in T => Weight(T, p) \in Field /\ Weight(T, p) \in Int
  BY <1>2, FieldIsInt
<1>4. Weight({p}, p) = 1
  <2>1. {p} \ {p} = {} /\ {p} \in SUBSET S
    OBVIOUS
  <2>2. k[{}] = 1
    BY <1>1 DEF IsFold, Folds
  <2> QED BY <1>2, <2>1, <2>2
<1>5. ASSUME NEW c \in S \ {p}
      PROVE  Same((p.index - c.index) * Weight(S, p), (-c.index) * Weight(S \ {c}, p))
  <2> DEFINE w == Weight(S \ {c}, p)
             v == Weight(S, p)
             i == c.index
             j == p.index
             b == Apart(c, p)
  <2>1. k[R] = Weighing(p, R)[c][k[R \ {c}]]
    BY <1>1, <1>5, WeighingFolds, FoldTakesAny
  <2>2. S \ {c} \in SUBSET S /\ (S \ {c}) \ {p} = R \ {c} /\ p \in S \ {c}
    BY <1>5
  <2>3. w = k[R \ {c}] /\ v = k[R] /\ w \in Field /\ w \in Int /\ v \in Int
    BY <1>2, <1>3, <2>2
  <2>4. v = (w * i * b) % Prime
    BY <1>5, <2>1, <2>3, WeighingFolds
  <2>5. i \in Int /\ j \in Int /\ b \in Int /\ Same((i - j) * b, 1)
    BY <1>5, PointTypes, ApartInverts
  <2> HIDE DEF w, v, i, j, b
  <2>6. w * i * b \in Int /\ w * i \in Int /\ (i - j) * b \in Int /\ j - i \in Int /\ 1 \in Int
    BY <2>3, <2>5, ProductOfInts
  <2>7. Same(v, w * i * b)
    BY <2>4, <2>6, Remainder
  <2>8. Same((j - i) * v, (j - i) * (w * i * b))
    BY <2>3, <2>6, <2>7, SameRefl, SameTimes
  <2>9. (j - i) * (w * i * b) = (-(w * i)) * ((i - j) * b)
    BY <2>3, <2>5
  <2>10. -(w * i) \in Int /\ (-(w * i)) * ((i - j) * b) \in Int /\ (-(w * i)) * 1 = (-i) * w
    BY <2>3, <2>5, <2>6, ProductOfInts
  <2>11. Same((-(w * i)) * ((i - j) * b), (-(w * i)) * 1)
    BY <2>5, <2>6, <2>10, SameRefl, SameTimes
  <2>12. (j - i) * v \in Int /\ (-i) * w \in Int
    BY <2>3, <2>5, <2>6, ProductOfInts
  <2>13. Same((j - i) * v, (-i) * w)
    BY <2>8, <2>9, <2>10, <2>11, <2>12, SameTrans
  <2> QED BY <2>13 DEF w, v, i, j
<1> QED BY <1>3, <1>4, <1>5

-----------------------------------------------------------------------------
(* What the points of a function f say of its value at 0                     *)

\* The value at 0 of the polynomial through the points (x.index, f[x]).
Weighted(f, T) == [x \in T |-> f[x] * Weight(T, x)]

Estimate(f, T) == Total(Weighted(f, T), T)

LEMMA WeightedTypes ==
    ASSUME NEW T, Points(T), NEW f, \A x \in T : f[x] \in Int
    PROVE  /\ \A x \in T : /\ Weight(T, x) \in Int /\ f[x] * Weight(T, x) \in Int
                           /\ Weighted(f, T)[x] = f[x] * Weight(T, x)
           /\ \A x \in T : Weighted(f, T)[x] \in Int
           /\ Estimate(f, T) \in Field /\ Estimate(f, T) \in Int
           /\ IsFiniteSet(T)
<1>1. \A x \in T : /\ Weight(T, x) \in Int /\ f[x] * Weight(T, x) \in Int
                   /\ Weighted(f, T)[x] = f[x] * Weight(T, x)
  BY WeightTakesOut, ProductOfInts DEF Weighted
<1>2. IsFiniteSet(T)
  BY DEF Points
<1> QED BY <1>1, <1>2, TotalTakesOut DEF Estimate

LEMMA EstimateIsLinear ==
    ASSUME NEW T, Points(T), NEW f, NEW g, NEW h, NEW a \in Int, NEW b \in Int,
           \A x \in T : /\ f[x] \in Int /\ g[x] \in Int /\ h[x] \in Int
                        /\ Same(f[x], a * g[x] + b * h[x])
    PROVE  Same(Estimate(f, T), a * Estimate(g, T) + b * Estimate(h, T))
<1>1. ASSUME NEW x \in T
      PROVE  Same(Weighted(f, T)[x], a * Weighted(g, T)[x] + b * Weighted(h, T)[x])
  <2> DEFINE w == Weight(T, x)
             fx == f[x]
             gx == g[x]
             hx == h[x]
  <2>1. w \in Int /\ fx \in Int /\ gx \in Int /\ hx \in Int /\ Same(fx, a * gx + b * hx)
    BY WeightedTypes
  <2>2. /\ Weighted(f, T)[x] = fx * w /\ Weighted(g, T)[x] = gx * w
        /\ Weighted(h, T)[x] = hx * w
    BY DEF Weighted
  <2> HIDE DEF w, fx, gx, hx
  <2>3. Same(fx * w, (a * gx + b * hx) * w)
    BY <2>1, SameRefl, SameTimes, ProductOfInts
  <2>4. (a * gx + b * hx) * w = a * (gx * w) + b * (hx * w)
    BY <2>1
  <2> QED BY <2>2, <2>3, <2>4
<1>2. \A x \in T : /\ Weighted(f, T)[x] \in Int /\ Weighted(g, T)[x] \in Int
                   /\ Weighted(h, T)[x] \in Int
  BY WeightedTypes
<1>3. IsFiniteSet(T)
  BY DEF Points
<1> QED BY <1>1, <1>2, <1>3, TotalIsLinear DEF Estimate

\* A function that is 0 at c says of its other points what a smaller one does.
LEMMA EstimateDescends ==
    ASSUME NEW T, Points(T), NEW c \in T, NEW f, NEW h,
           \A x \in T : /\ f[x] \in Int /\ h[x] \in Int
                        /\ Same(f[x], (x.index - c.index) * h[x])
    PROVE  Same(Estimate(f, T), (-c.index) * Estimate(h, T \ {c}))
<1> DEFINE R == T \ {c}
           t == Weighted(f, T)
           u == Weighted(h, R)
           i == c.index
<1>1. Points(R) /\ IsFiniteSet(R) /\ IsFiniteSet(T) /\ i \in Int /\ -i \in Int
  BY SomePoints, PointTypes DEF Points
<1>2. \A x \in T : t[x] \in Int
  BY WeightedTypes
<1>3. \A x \in R : u[x] \in Int
  BY <1>1, WeightedTypes
<1>4. ASSUME NEW x \in R PROVE Same(t[x], (-i) * u[x] + 0 * u[x])
  <2> DEFINE w == Weight(T, x)
             v == Weight(R, x)
             fx == f[x]
             hx == h[x]
             j == x.index
  <2>1. /\ w \in Int /\ v \in Int /\ fx \in Int /\ hx \in Int /\ j \in Int
        /\ Same(fx, (j - i) * hx) /\ Same((j - i) * w, (-i) * v)
    <3>1. c \in T \ {x}
      OBVIOUS
    <3> QED BY <1>1, <3>1, PointTypes, WeightTakesOut
  <2>2. t[x] = fx * w /\ u[x] = hx * v
    BY DEF Weighted
  <2> HIDE DEF w, v, fx, hx, j, i
  <2>3. /\ fx * w \in Int /\ (j - i) * hx \in Int /\ ((j - i) * hx) * w \in Int
        /\ (j - i) * w \in Int /\ (-i) * v \in Int
        /\ hx * ((j - i) * w) \in Int /\ hx * ((-i) * v) \in Int
    BY <1>1, <2>1, ProductOfInts
  <2>4. Same(fx * w, ((j - i) * hx) * w)
    BY <2>1, <2>3, SameRefl, SameTimes
  <2>5. ((j - i) * hx) * w = hx * ((j - i) * w)
    BY <1>1, <2>1
  <2>6. Same(hx * ((j - i) * w), hx * ((-i) * v))
    BY <2>1, <2>3, SameRefl, SameTimes
  <2>7. hx * ((-i) * v) = (-i) * (hx * v) + 0 * (hx * v)
    BY <1>1, <2>1
  <2>8. Same(fx * w, hx * ((-i) * v))
    BY <2>3, <2>4, <2>5, <2>6, SameTrans
  <2> QED BY <2>2, <2>7, <2>8
<1>5. Same(Total(t, R), (-i) * Total(u, R) + 0 * Total(u, R))
  <2> HIDE DEF t, u, i, R
  <2>1. \A x \in R : t[x] \in Int
    BY <1>2 DEF R
  <2>2. 0 \in Int
    OBVIOUS
  <2> QED BY <1>1, <1>3, <1>4, <2>1, <2>2, TotalIsLinear
<1>6. Same(t[c], 0)
  <2> DEFINE w == Weight(T, c)
             fc == f[c]
             hc == h[c]
  <2>1. w \in Int /\ fc \in Int /\ hc \in Int /\ Same(fc, (i - i) * hc) /\ t[c] = fc * w
    BY WeightedTypes DEF Weighted
  <2> HIDE DEF w, fc, hc, i
  <2>2. (i - i) * hc = 0 /\ 0 * w = 0 /\ 0 \in Int
    BY <1>1, <2>1
  <2> QED BY <2>1, <2>2, SameRefl, SameTimes
<1>7. Same(Total(t, T), Total(t, R) + t[c])
  BY <1>1, <1>2, TotalTakesOut
<1>8. Total(t, T) \in Int /\ Total(t, R) \in Int /\ Total(u, R) \in Int /\ t[c] \in Int
  <2>1. \A x \in R : t[x] \in Int
    BY <1>2
  <2> QED BY <1>1, <1>2, <1>3, <2>1, TotalTakesOut
<1> DEFINE tt == Total(t, T)
           tr == Total(t, R)
           ur == Total(u, R)
           tc == t[c]
<1> HIDE DEF tt, tr, ur, tc, t, u, i, R
<1>9. Same(tr, (-i) * ur) /\ (-i) * ur \in Int
  <2>1. (-i) * ur + 0 * ur = (-i) * ur /\ (-i) * ur \in Int
    BY <1>1, <1>8, ProductOfInts DEF ur
  <2> QED BY <1>5, <2>1 DEF tr, ur
<1>10. Same(tr + tc, (-i) * ur + 0) /\ tr + tc \in Int /\ (-i) * ur + 0 = (-i) * ur
  <2>1. tr \in Int /\ tc \in Int /\ 0 \in Int /\ Same(tc, 0)
    BY <1>6, <1>8 DEF tr, tc
  <2> DEFINE m == (-i) * ur
  <2>2. m \in Int /\ Same(tr, m)
    BY <1>9
  <2> HIDE DEF m
  <2>3. Same(tr + tc, m + 0) /\ tr + tc \in Int /\ m + 0 = m
    BY <2>1, <2>2, SamePlus
  <2> QED BY <2>3 DEF m
<1>11. Same(tt, (-i) * ur)
  <2>1. tt \in Int /\ Same(tt, tr + tc)
    BY <1>7, <1>8 DEF tt, tr, tc
  <2> QED BY <1>9, <1>10, <2>1, SameTrans
<1> QED BY <1>11 DEF tt, ur, Estimate, t, u, R, i

\* The weights of all points add up to 1.
LEMMA WeightsAddUp ==
    ASSUME NEW S, Points(S), NEW T \in SUBSET S, T # {}
    PROVE  Same(Estimate([x \in S |-> 1], T), 1)
<1> DEFINE ones == [x \in S |-> 1]
           B == {U \in SUBSET S : U # {} /\ ~Same(Estimate(ones, U), 1)}
<1>1. SUFFICES ASSUME B # {} PROVE FALSE
  OBVIOUS
<1>2. PICK U \in B : \A R \in B : R \subseteq U => R = U
  <2> HIDE DEF B
  <2>1. B \in SUBSET (SUBSET S) /\ IsFiniteSet(S)
    BY DEF B, Points
  <2> QED BY <1>1, <2>1, SmallestSet
<1>3. U \in SUBSET S /\ U # {} /\ ~Same(Estimate(ones, U), 1) /\ Points(U)
  BY SomePoints
<1>4. \A R \in SUBSET S : Points(R) /\ \A x \in R : ones[x] = 1 /\ ones[x] \in Int
  BY SomePoints
<1>5. \A R \in SUBSET S : Estimate(ones, R) \in Int
  <2> HIDE DEF ones
  <2> QED BY <1>4, WeightedTypes
<1>6. \A R \in SUBSET U : R # {} /\ R # U => Same(Estimate(ones, R), 1)
  BY <1>2, <1>3
<1>7. PICK c \in U : TRUE
  BY <1>3
<1>8. CASE U = {c}
  <2>1. Weighted(ones, U)[c] = ones[c] * Weight(U, c) /\ Weight(U, c) = 1 /\ ones[c] = 1
    BY <1>3, <1>4, <1>8, WeightTakesOut DEF Weighted
  <2>2. Weighted(ones, U)[c] = 1
    BY <2>1
  <2> DEFINE t == Weighted(ones, U)
  <2>3. \A x \in U : t[x] \in Int
    BY <1>8, <2>2
  <2>4. IsFiniteSet(U) /\ U \ {c} = {} /\ IsFiniteSet(U \ {c})
    BY <1>3, <1>8, FS_EmptySet DEF Points
  <2> HIDE DEF t, ones
  <2>5. Same(Total(t, U), Total(t, U \ {c}) + t[c]) /\ Total(t, U \ {c}) = 0
    BY <2>3, <2>4, TotalTakesOut
  <2>6. Total(t, U \ {c}) + t[c] = 1
    BY <2>2, <2>5 DEF t
  <2> QED BY <1>3, <2>5, <2>6 DEF Estimate, t
<1>9. CASE U # {c}
  <2>1. PICK d \in U : d # c
    BY <1>9
  <2> DEFINE i == c.index
             j == d.index
             fromc == [x \in S |-> x.index - c.index]
             fromd == [x \in S |-> x.index - d.index]
             dist == [x \in S |-> d.index - c.index]
             e == Estimate(ones, U)
             ec == Estimate(fromc, U)
             ed == Estimate(fromd, U)
             ef == Estimate(dist, U)
  <2>2. /\ i \in Int /\ j \in Int /\ -i \in Int /\ -j \in Int /\ j - i \in Int
        /\ \A x \in U : x \in S /\ x.index \in Int
    BY <1>3, PointTypes
  <2>3. \A x \in U : /\ fromc[x] = x.index - i /\ fromd[x] = x.index - j /\ dist[x] = j - i
                     /\ fromc[x] \in Int /\ fromd[x] \in Int /\ dist[x] \in Int
                     /\ ones[x] = 1 /\ ones[x] \in Int
    BY <2>2
  <2>4. /\ Same(Estimate(ones, U \ {c}), 1) /\ Estimate(ones, U \ {c}) \in Int
        /\ Same(Estimate(ones, U \ {d}), 1) /\ Estimate(ones, U \ {d}) \in Int
    <3>1. /\ U \ {c} \in SUBSET U /\ U \ {c} # {} /\ U \ {c} # U /\ U \ {c} \in SUBSET S
          /\ U \ {d} \in SUBSET U /\ U \ {d} # {} /\ U \ {d} # U /\ U \ {d} \in SUBSET S
      BY <1>3, <2>1
    <3> HIDE DEF ones
    <3> QED BY <1>5, <1>6, <3>1
  <2>5. /\ \A x \in U : Same(fromc[x], (x.index - c.index) * ones[x])
        /\ \A x \in U : Same(fromd[x], (x.index - d.index) * ones[x])
        /\ \A x \in U : Same(dist[x], 1 * fromc[x] + (-1) * fromd[x])
        /\ \A x \in U : Same(dist[x], (j - i) * ones[x] + 0 * ones[x])
    <3> SUFFICES ASSUME NEW x \in U
                 PROVE  /\ Same(fromc[x], (x.index - c.index) * ones[x])
                        /\ Same(fromd[x], (x.index - d.index) * ones[x])
                        /\ Same(dist[x], 1 * fromc[x] + (-1) * fromd[x])
                        /\ Same(dist[x], (j - i) * ones[x] + 0 * ones[x])
      OBVIOUS
    <3>1. /\ fromc[x] = (x.index - c.index) * ones[x]
          /\ fromd[x] = (x.index - d.index) * ones[x]
          /\ dist[x] = 1 * fromc[x] + (-1) * fromd[x]
          /\ dist[x] = (j - i) * ones[x] + 0 * ones[x]
      BY <2>2, <2>3
    <3> HIDE DEF fromc, fromd, dist, ones
    <3> QED BY <2>3, <3>1, SameRefl
  <2> HIDE DEF fromc, fromd, dist, ones
  <2>6. e \in Int /\ ec \in Int /\ ed \in Int /\ ef \in Int
    BY <1>3, <2>3, WeightedTypes
  <2>7. Same(ec, (-i) * Estimate(ones, U \ {c})) /\ Same(ed, (-j) * Estimate(ones, U \ {d}))
    BY <1>3, <2>1, <2>3, <2>5, EstimateDescends
  <2>8. Same(ec, -i) /\ Same(ed, -j)
    <3> DEFINE a == Estimate(ones, U \ {c})
               b == Estimate(ones, U \ {d})
    <3>1. a \in Int /\ b \in Int /\ Same(a, 1) /\ Same(b, 1) /\ Same(ec, (-i) * a) /\ Same(ed, (-j) * b)
      BY <2>4, <2>7
    <3> HIDE DEF a, b, i, j, ec, ed
    <3>2. /\ (-i) * 1 = -i /\ (-j) * 1 = -j /\ 1 \in Int /\ (-i) * a \in Int /\ (-j) * b \in Int
      BY <2>2, <3>1, ProductOfInts
    <3>3. Same((-i) * a, (-i) * 1) /\ Same((-j) * b, (-j) * 1)
      BY <2>2, <3>1, <3>2, SameRefl, SameTimes
    <3> QED BY <2>2, <2>6, <3>1, <3>2, <3>3, SameTrans
  <2>9. Same(ef, 1 * ec + (-1) * ed) /\ Same(ef, (j - i) * e + 0 * e)
    <3>1. 1 \in Int /\ -1 \in Int /\ 0 \in Int
      OBVIOUS
    <3> HIDE DEF i, j
    <3> QED BY <1>3, <2>2, <2>3, <2>5, <3>1, EstimateIsLinear
  <2> DEFINE b == Apart(d, c)
  <2>10. b \in Int /\ Same((j - i) * b, 1)
    BY <1>3, <2>1, ApartInverts
  <2> HIDE DEF i, j, e, ec, ed, ef, b
  <2>11. Same((j - i) * e, j - i) /\ (j - i) * e \in Int
    <3>1. /\ (j - i) * e + 0 * e = (j - i) * e /\ (j - i) * e \in Int
          /\ 1 * ec + (-1) * ed = ec - ed /\ ec - ed \in Int /\ (-1) * ed = -ed /\ -ed \in Int
      BY <2>2, <2>6, ProductOfInts
    <3>2. Same(ef, (j - i) * e) /\ Same(ef, ec - ed) /\ Same((j - i) * e, ef)
      BY <2>6, <2>9, <3>1, SameSym
    <3>3. Same((-1) * ed, (-1) * (-j)) /\ (-1) * (-j) = j
      <4> DEFINE n == -j
      <4>1. n \in Int /\ -1 \in Int /\ Same(ed, n)
        BY <2>2, <2>8
      <4>2. (-1) * n = j
        BY <2>2
      <4> HIDE DEF n
      <4>3. Same((-1) * ed, (-1) * n)
        BY <2>6, <4>1, SameRefl, SameTimes
      <4> QED BY <4>2, <4>3 DEF n
    <3>4. Same(ec + (-ed), (-i) + j)
      BY <2>2, <2>6, <2>8, <3>1, <3>3, SamePlus
    <3>5. ec + (-ed) = ec - ed /\ (-i) + j = j - i
      BY <2>2, <2>6
    <3>6. Same(ef, j - i)
      BY <2>2, <2>6, <3>1, <3>2, <3>4, <3>5, SameTrans
    <3> QED BY <2>2, <2>6, <3>1, <3>2, <3>6, SameTrans
  <2>12. Same(e, 1)
    <3> DEFINE m == j - i
    <3>1. m \in Int /\ Same(m * e, m) /\ Same(m * b, 1) /\ Same(1, m * b)
      <4>1. (j - i) * b \in Int /\ 1 \in Int
        BY <2>2, <2>10, ProductOfInts
      <4> QED BY <2>2, <2>10, <2>11, <4>1, SameSym
    <3> HIDE DEF m
    <3>2. /\ m * e \in Int /\ m * b \in Int /\ b * (m * e) \in Int /\ b * m \in Int /\ e * (m * b) \in Int
          /\ e * 1 = e /\ 1 \in Int
      BY <2>6, <2>10, <3>1, ProductOfInts
    <3>3. Same(b * (m * e), b * m)
      BY <2>10, <3>1, <3>2, SameRefl, SameTimes
    <3>4. Same(e * 1, e * (m * b))
      BY <2>6, <3>1, <3>2, SameRefl, SameTimes
    <3>5. e * (m * b) = b * (m * e) /\ b * m = m * b
      BY <2>6, <2>10, <3>1
    <3>6. Same(e, b * m)
      BY <2>6, <3>2, <3>3, <3>4, <3>5, SameTrans
    <3> QED BY <2>6, <3>1, <3>2, <3>5, <3>6, SameTrans
  <2> QED BY <1>3, <2>12 DEF e
<1> QED BY <1>8, <1>9

\* If g comes to b, with and without the point c, then a + x * g comes to a.
LEMMA EstimateClimbs ==
    ASSUME NEW T, Points(T), NEW c \in T, NEW f, NEW g, NEW a \in Int, NEW b \in Int,
           \A x \in T : /\ f[x] \in Int /\ g[x] \in Int
                        /\ Same(f[x], a + x.index * g[x]),
           Same(Estimate(g, T), b), Same(Estimate(g, T \ {c}), b)
    PROVE  Same(Estimate(f, T), a)
<1> DEFINE R == T \ {c}
           i == c.index
           ones == [x \in T |-> 1]
           h == [x \in T |-> x.index * g[x]]
           fromc == [x \in T |-> (x.index - i) * g[x]]
           eo == Estimate(ones, T)
           eg == Estimate(g, T)
           er == Estimate(g, R)
           eh == Estimate(h, T)
           ec == Estimate(fromc, T)
           ef == Estimate(f, T)
<1>1. i \in Int /\ -i \in Int /\ \A x \in T : x.index \in Int
  BY PointTypes
<1>2. \A x \in T : /\ h[x] = x.index * g[x] /\ h[x] \in Int
                   /\ fromc[x] = (x.index - i) * g[x] /\ fromc[x] \in Int
                   /\ ones[x] = 1 /\ ones[x] \in Int
  BY <1>1, ProductOfInts
<1>3. \A x \in T : /\ Same(f[x], a * ones[x] + 1 * h[x])
                   /\ Same(h[x], i * g[x] + 1 * fromc[x])
                   /\ Same(fromc[x], (x.index - i) * g[x])
  <2> SUFFICES ASSUME NEW x \in T
               PROVE  /\ Same(f[x], a * ones[x] + 1 * h[x])
                      /\ Same(h[x], i * g[x] + 1 * fromc[x])
                      /\ Same(fromc[x], (x.index - i) * g[x])
    OBVIOUS
  <2>1. a * ones[x] + 1 * h[x] = a + x.index * g[x]
    BY <1>1, <1>2
  <2>2. h[x] = i * g[x] + 1 * fromc[x]
    BY <1>1, <1>2
  <2>3. Same(h[x], h[x]) /\ Same(fromc[x], fromc[x]) /\ fromc[x] = (x.index - i) * g[x]
    BY <1>2, SameRefl
  <2> HIDE DEF ones, h, fromc
  <2> QED BY <2>1, <2>2, <2>3
<1> HIDE DEF ones, h, fromc
<1>4. Points(R) /\ \A x \in R : g[x] \in Int
  BY SomePoints
<1>5. /\ eo \in Int /\ eg \in Int /\ eh \in Int /\ ec \in Int /\ ef \in Int
      /\ er \in Int
  BY <1>2, <1>4, WeightedTypes
<1>6. Same(eo, 1)
  <2>1. T \in SUBSET T /\ T # {}
    OBVIOUS
  <2> QED BY <2>1, WeightsAddUp DEF ones
<1>7. Same(ec, (-i) * er)
  BY <1>2, <1>3, EstimateDescends
<1> HIDE DEF i, R
<1>8. Same(eh, i * eg + 1 * ec) /\ Same(ef, a * eo + 1 * eh)
  <2>1. 1 \in Int
    OBVIOUS
  <2> QED BY <1>1, <1>2, <1>3, <2>1, EstimateIsLinear
<1>9. Same(eg, b) /\ Same(er, b)
  BY DEF R
<1> HIDE DEF eo, eg, er, eh, ec, ef
<1>10. Same(eh, 0)
  <2> DEFINE m == i * eg
             n == i * b
             k == (-i) * er
             j == (-i) * b
  <2>1. m \in Int /\ n \in Int /\ k \in Int /\ j \in Int /\ n + j = 0 /\ i * eg + 1 * ec = m + ec
    BY <1>1, <1>5, ProductOfInts
  <2>2. Same(m, n) /\ Same(k, j) /\ Same(ec, k) /\ Same(eh, i * eg + 1 * ec)
    BY <1>1, <1>5, <1>7, <1>8, <1>9, SameRefl, SameTimes
  <2> HIDE DEF m, n, k, j
  <2>3. Same(ec, j)
    BY <1>5, <2>1, <2>2, SameTrans
  <2>4. Same(m + ec, n + j) /\ m + ec \in Int
    BY <1>5, <2>1, <2>2, <2>3, SamePlus
  <2> QED BY <1>5, <2>1, <2>2, <2>4, SameTrans
<1>11. Same(a * eo, a) /\ a * eo \in Int
  <2>1. a * 1 = a /\ 1 \in Int /\ a * eo \in Int
    BY <1>5, ProductOfInts
  <2>2. Same(a * eo, a * 1)
    BY <1>5, <1>6, <2>1, SameRefl, SameTimes
  <2> QED BY <2>1, <2>2
<1>12. Same(ef, a)
  <2> DEFINE m == a * eo
  <2>1. m \in Int /\ Same(m, a) /\ a * eo + 1 * eh = m + eh
    BY <1>5, <1>11
  <2> HIDE DEF m
  <2>2. Same(m + eh, a + 0) /\ m + eh \in Int /\ a + 0 = a
    BY <1>5, <1>10, <2>1, SamePlus
  <2> QED BY <1>5, <1>8, <2>1, <2>2, SameTrans
<1> QED BY <1>12 DEF ef

-----------------------------------------------------------------------------
(* The values of a polynomial (Horner's rule)                                *)

Least(S) == [s \in SUBSET S |-> Min(s)]

Climbing(coefs, x, D) == [i \in D |-> [v \in Field |-> (v * x + coefs[i]) % Prime]]

\* g is what the fold of Value computes.
Evaluates(g, coefs, x, D) ==
    g = [s \in SUBSET D |-> IF s = {} THEN 0 ELSE (g[s \ {Min(s)}] * x + coefs[Min(s)]) % Prime]

LEMMA ValueIs ==
    ASSUME NEW coefs, NEW x
    PROVE  Value(coefs, x) = (CHOOSE g : Evaluates(g, coefs, x, DOMAIN coefs))[DOMAIN coefs]
BY Zenon DEF Value, FoldRight, MapThenFoldSet, Evaluates

LEMMA MinIsLeast ==
    ASSUME NEW A \in SUBSET Nat, A # {} PROVE Min(A) \in A /\ \A m \in A : Min(A) <= m
BY LeastNumber, Zenon DEF Min

\* k gives, for every j, the value at x of the polynomial of the coefficients from j.
Horner(k, coefs, x, n) ==
    /\ k \in [1 .. n + 1 -> Field]
    /\ k[n + 1] = 0
    /\ \A j \in 1 .. n : k[j] = (k[j + 1] * x + coefs[j]) % Prime

\* Value is computed by Horner's rule.
LEMMA HornersRule ==
    ASSUME NEW n \in Nat, NEW coefs, DOMAIN coefs = 1 .. n, \A i \in 1 .. n : coefs[i] \in Int,
           NEW x \in Int
    PROVE  \E k : Horner(k, coefs, x, n) /\ Value(coefs, x) = k[1]
<1> DEFINE D == 1 .. n
           step == Climbing(coefs, x, D)
<1>1. \A i \in D, v \in Field : (v * x + coefs[i]) % Prime \in Field
  <2> SUFFICES ASSUME NEW i \in D, NEW v \in Field PROVE (v * x + coefs[i]) % Prime \in Field
    OBVIOUS
  <2> DEFINE m == v * x
  <2>1. m \in Int
    BY FieldIsInt, ProductOfInts
  <2> HIDE DEF m
  <2>2. m + coefs[i] \in Int
    BY <2>1
  <2>3. (m + coefs[i]) % Prime \in Field
    BY <2>2, Remainder
  <2> QED BY <2>3 DEF m
<1>2. \A s \in SUBSET D :
         /\ Least(D)[s] = Min(s)
         /\ s # {} => Min(s) \in s /\ Min(s) \in D /\ \A i \in s : Min(s) <= i
  <2>1. \A s \in SUBSET D : s \in SUBSET Nat
    OBVIOUS
  <2> QED BY <2>1, MinIsLeast DEF Least
<1>3. FoldOver(D, Field, Least(D), step, 0)
  <2>1. step \in [D -> [Field -> Field]]
    BY <1>1 DEF Climbing
  <2>2. IsFiniteSet(D)
    BY FS_Interval
  <2> HIDE DEF D, step
  <2> QED BY <1>2, <2>1, <2>2, FieldIsInt DEF FoldOver
<1>4. PICK f : IsFold(f, D, Field, Least(D), step, 0)
  <2> HIDE DEF D, step
  <2> QED BY <1>3, FoldExists
<1>5. \A i \in D, v \in Field : step[i][v] = (v * x + coefs[i]) % Prime
  BY DEF Climbing
<1> HIDE DEF step
<1>6. f[{}] = 0 /\ f \in [SUBSET D -> Field]
  BY <1>4 DEF IsFold, Folds
<1>7. ASSUME NEW s \in SUBSET D, s # {}
      PROVE  /\ s \ {Min(s)} \in SUBSET D /\ f[s \ {Min(s)}] \in Field
             /\ f[s] = (f[s \ {Min(s)}] * x + coefs[Min(s)]) % Prime
  <2>1. s \ {Min(s)} \in SUBSET D /\ f[s \ {Min(s)}] \in Field /\ Min(s) \in D
    BY <1>2, <1>6, <1>7
  <2>2. f[s] = step[Min(s)][f[s \ {Min(s)}]]
    BY <1>2, <1>4, <1>7 DEF IsFold, Folds
  <2> QED BY <1>5, <2>1, <2>2
<1> DEFINE h == [s \in SUBSET D |-> f[s]]
           e(k, s) == IF s = {} THEN 0 ELSE (k[s \ {Min(s)}] * x + coefs[Min(s)]) % Prime
           g == CHOOSE k : Evaluates(k, coefs, x, D)
<1>8. Evaluates(h, coefs, x, D)
  <2>1. \A s \in SUBSET D : h[s] = e(h, s)
    BY <1>6, <1>7
  <2>2. h = [s \in SUBSET D |-> h[s]]
    OBVIOUS
  <2> HIDE DEF h, e, D
  <2>3. h = [s \in SUBSET D |-> e(h, s)]
    BY <2>1, <2>2
  <2> QED BY <2>3, Zenon DEF Evaluates, e
<1>9. Evaluates(g, coefs, x, D)
  <2> HIDE DEF h, D
  <2> QED BY <1>8
<1> HIDE DEF g, h, D
<1>10. \A s \in SUBSET D : g[s] = e(g, s)
  <2>1. g = [s \in SUBSET D |-> e(g, s)]
    BY <1>9, Zenon DEF Evaluates
  <2> HIDE DEF e
  <2> QED BY <2>1
<1>11. Follows(g, Least(D), step, 0, Field, SUBSET D)
  <2> SUFFICES ASSUME NEW s \in SUBSET D
               PROVE  /\ s = {} => g[s] = 0
                      /\ s # {} /\ g[s \ {Least(D)[s]}] \in Field =>
                            g[s] = step[Least(D)[s]][g[s \ {Least(D)[s]}]]
    BY DEF Follows
  <2>1. s = {} => g[s] = 0
    BY <1>10
  <2>2. ASSUME s # {}, g[s \ {Min(s)}] \in Field PROVE g[s] = step[Min(s)][g[s \ {Min(s)}]]
    <3>1. g[s] = (g[s \ {Min(s)}] * x + coefs[Min(s)]) % Prime
      BY <1>10, <2>2
    <3> QED BY <1>2, <1>5, <2>2, <3>1
  <2> QED BY <1>2, <2>1, <2>2
<1>12. Value(coefs, x) = f[D]
  <2>1. D \in SUBSET D
    OBVIOUS
  <2>2. g[D] = f[D]
    BY ONLY <1>4, <1>11, <2>1, FoldIsUnique
  <2> QED BY <2>2, ValueIs DEF g, D
<1> DEFINE k == [j \in 1 .. n + 1 |-> f[j .. n]]
<1>13. ASSUME NEW j \in 1 .. n PROVE k[j] = (k[j + 1] * x + coefs[j]) % Prime
  <2>1. j .. n \in SUBSET D /\ j \in j .. n
    BY DEF D
  <2>2. Min(j .. n) = j
    <3>1. Min(j .. n) \in j .. n
      BY <1>2, <2>1
    <3>2. Min(j .. n) <= j
      BY <1>2, <2>1
    <3> QED BY <3>1, <3>2
  <2>3. (j .. n) \ {j} = (j + 1) .. n
    OBVIOUS
  <2>4. k[j] = f[j .. n] /\ k[j + 1] = f[(j + 1) .. n]
    OBVIOUS
  <2>5. f[j .. n] = (f[(j .. n) \ {Min(j .. n)}] * x + coefs[Min(j .. n)]) % Prime
    BY <1>7, <2>1
  <2> HIDE DEF k
  <2> QED BY <2>2, <2>3, <2>4, <2>5
<1>14. k \in [1 .. n + 1 -> Field]
  <2>1. \A j \in 1 .. n + 1 : f[j .. n] \in Field
    <3>1. \A j \in 1 .. n + 1 : j .. n \in SUBSET D
      BY DEF D
    <3> QED BY <1>6, <3>1
  <2> QED BY <2>1
<1>15. k[n + 1] = 0 /\ k[1] = f[D]
  <2>1. (n + 1) .. n = {} /\ n + 1 \in 1 .. n + 1 /\ 1 \in 1 .. n + 1
    OBVIOUS
  <2> QED BY <1>6, <2>1 DEF D
<1> QED BY <1>12, <1>13, <1>14, <1>15 DEF Horner

-----------------------------------------------------------------------------
(* Shares come back                                                          *)

\* The values of the polynomial of the coefficients from j, at the points.
From(k, T, j) == [p \in T |-> k[p.index][j]]

\* Any points, as many as there are coefficients or more, tell the first of them.
LEMMA EnoughPoints ==
    ASSUME NEW n \in Nat, NEW coefs, \A i \in 1 .. n : coefs[i] \in Int,
           NEW k, \A x \in 1 .. Prime - 1 : Horner(k[x], coefs, x, n),
           NEW T, Points(T), Cardinality(T) >= n, n > 0
    PROVE  Same(Estimate(From(k, T, 1), T), coefs[1])
<1> DEFINE Tells(m, U) ==
              Cardinality(U) >= m =>
                  Same(Estimate(From(k, T, n + 1 - m), U), IF m = 0 THEN 0 ELSE coefs[n + 1 - m])
           A == {m \in Nat : m <= n => \A U \in SUBSET T : Tells(m, U)}
<1>1. \A p \in T : /\ p.index \in 1 .. Prime - 1 /\ p.index \in Int
                   /\ k[p.index] \in [1 .. n + 1 -> Field] /\ k[p.index][n + 1] = 0
                   /\ \A j \in 1 .. n : k[p.index][j] = (k[p.index][j + 1] * p.index + coefs[j]) % Prime
  BY PointTypes DEF Points, Horner
<1>2. \A j \in 1 .. n + 1 : \A p \in T : /\ From(k, T, j)[p] = k[p.index][j]
                                         /\ From(k, T, j)[p] \in Int
  BY <1>1, FieldIsInt DEF From
<1>3. ASSUME NEW U \in SUBSET T
      PROVE  Points(U) /\ IsFiniteSet(U) /\ Cardinality(U) \in Nat
  BY SomePoints, FS_CardinalityType DEF Points
<1>4. 0 \in A
  <2> SUFFICES ASSUME NEW U \in SUBSET T PROVE Same(Estimate(From(k, T, n + 1), U), 0)
    OBVIOUS
  <2> DEFINE f == From(k, T, n + 1)
             e == Estimate(f, U)
  <2>1. \A p \in U : f[p] = 0
    <3>1. n + 1 \in 1 .. n + 1
      OBVIOUS
    <3> QED BY <1>1, <1>2, <3>1
  <2> HIDE DEF f
  <2>2. \A p \in U : f[p] \in Int /\ Same(f[p], 0 * f[p] + 0 * f[p])
    <3>1. 0 * 0 + 0 * 0 = 0 /\ 0 \in Int
      OBVIOUS
    <3> QED BY <2>1, <3>1, SameRefl
  <2>3. Same(e, 0 * e + 0 * e) /\ e \in Int
    <3>1. 0 \in Int
      OBVIOUS
    <3> QED BY <1>3, <2>2, <3>1, EstimateIsLinear, WeightedTypes
  <2> HIDE DEF e
  <2>4. 0 * e + 0 * e = 0
    BY <2>3
  <2> QED BY <2>3, <2>4 DEF e, f
<1>5. ASSUME NEW m \in Nat, m \in A PROVE m + 1 \in A
  <2> SUFFICES ASSUME m + 1 <= n, NEW U \in SUBSET T, Cardinality(U) >= m + 1
               PROVE  Same(Estimate(From(k, T, n - m), U), coefs[n - m])
    <3>1. n + 1 - (m + 1) = n - m /\ m + 1 # 0 /\ m + 1 \in Nat
      OBVIOUS
    <3> QED BY <3>1
  <2> DEFINE j == n - m
             f == From(k, T, j)
             g == From(k, T, j + 1)
             b == IF m = 0 THEN 0 ELSE coefs[j + 1]
  <2>1. j \in 1 .. n /\ j \in 1 .. n + 1 /\ j + 1 \in 1 .. n + 1 /\ j + 1 = n + 1 - m
    OBVIOUS
  <2>2. b \in Int /\ coefs[j] \in Int
    <3>1. m # 0 => j + 1 \in 1 .. n
      OBVIOUS
    <3> QED BY <2>1, <3>1
  <2>3. \A V \in SUBSET T : Cardinality(V) >= m => Same(Estimate(g, V), b)
    <3>1. m <= n
      OBVIOUS
    <3>2. \A V \in SUBSET T : Tells(m, V)
      BY <1>5, <3>1
    <3> QED BY <2>1, <3>2
  <2>4. PICK c \in U : TRUE
    <3>1. U # {}
      BY <1>3, FS_EmptySet
    <3> QED BY <3>1
  <2>5. U \ {c} \in SUBSET T /\ Cardinality(U \ {c}) = Cardinality(U) - 1
    BY <1>3, FS_RemoveElement
  <2>6. Same(Estimate(g, U), b) /\ Same(Estimate(g, U \ {c}), b)
    <3>1. Cardinality(U) >= m /\ Cardinality(U \ {c}) >= m
      BY <1>3, <2>5
    <3> HIDE DEF g, b
    <3> QED BY <2>3, <2>5, <3>1
  <2>7. \A p \in U : f[p] \in Int /\ g[p] \in Int /\ Same(f[p], coefs[j] + p.index * g[p])
    <3> SUFFICES ASSUME NEW p \in U
                 PROVE  f[p] \in Int /\ g[p] \in Int /\ Same(f[p], coefs[j] + p.index * g[p])
      OBVIOUS
    <3> DEFINE v == k[p.index][j + 1]
               a == coefs[j]
               i == p.index
    <3>1. f[p] \in Int /\ g[p] \in Int /\ f[p] = k[p.index][j] /\ g[p] = v /\ v \in Int /\ i \in Int
      BY <1>1, <1>2, <2>1
    <3>2. f[p] = (v * i + a) % Prime
      BY <1>1, <2>1, <3>1
    <3> HIDE DEF v, a, i, f, g, j
    <3>3. v * i + a = a + i * v /\ v * i + a \in Int
      <4>1. v * i = i * v /\ v * i \in Int
        BY <3>1, ProductOfInts
      <4> QED BY <2>2, <4>1 DEF a
    <3>4. Same(f[p], a + i * v)
      BY <3>2, <3>3, Remainder
    <3> QED BY <3>1, <3>4 DEF a, i
  <2> HIDE DEF b, f, g
  <2> QED BY <1>3, <2>2, <2>6, <2>7, EstimateClimbs DEF f
<1>6. n \in A
  <2> HIDE DEF A
  <2> QED BY <1>4, <1>5, NumbersReached
<1>7. Tells(n, T)
  BY <1>6
<1> QED BY <1>7

\* What the points say of the value at 0 is what the fold of Interpolate computes.
Interpolates(g, T) ==
    g = [s \in SUBSET T |->
            IF s = {} THEN 0 ELSE (g[s \ {Some(s)}] + Some(s).y * Weight(T, Some(s))) % Prime]

LEMMA InterpolateIs ==
    ASSUME NEW T PROVE Interpolate(T) = (CHOOSE g : Interpolates(g, T))[T]
BY Zenon DEF Interpolate, FoldSet, MapThenFoldSet, Interpolates, Some

LEMMA InterpolateEstimates ==
    ASSUME NEW T, Points(T)
    PROVE  Interpolate(T) = Estimate([p \in T |-> p.y], T)
<1> DEFINE f == [p \in T |-> p.y]
           t == Weighted(f, T)
           adding == Adding(t, T)
           e(g, s) == IF s = {} THEN 0
                      ELSE (g[s \ {Some(s)}] + Some(s).y * Weight(T, Some(s))) % Prime
<1>1. \A p \in T : f[p] = p.y /\ f[p] \in Int
  BY PointTypes
<1> HIDE DEF f
<1>2. /\ \A p \in T : t[p] = p.y * Weight(T, p) /\ t[p] \in Int
      /\ IsFiniteSet(T)
  BY <1>1, WeightedTypes
<1> HIDE DEF t
<1>3. PICK k : IsSum(k, t, T)
  BY <1>2, SumFolds
<1>4. /\ IsFold(k, T, Field, SomeOf(T), adding, 0)
      /\ \A p \in T, v \in Field : adding[p][v] = (v + t[p]) % Prime
  BY <1>2, <1>3, SumFolds DEF IsSum
<1> HIDE DEF adding
<1>5. k[{}] = 0 /\ k \in [SUBSET T -> Field]
  BY <1>4 DEF IsFold, Folds
<1>6. \A s \in SUBSET T : s # {} => /\ Some(s) \in s /\ Some(s) \in T /\ SomeOf(T)[s] = Some(s)
                                    /\ s \ {Some(s)} \in SUBSET T /\ k[s \ {Some(s)}] \in Field
  BY <1>5, SomeOfIn
<1>7. ASSUME NEW s \in SUBSET T PROVE k[s] = e(k, s)
  <2>1. CASE s = {}
    BY <1>5, <2>1
  <2>2. CASE s # {}
    <3>1. k[s] = adding[Some(s)][k[s \ {Some(s)}]]
      BY <1>4, <1>6, <2>2 DEF IsFold, Folds
    <3>2. k[s] = (k[s \ {Some(s)}] + t[Some(s)]) % Prime
      BY <1>4, <1>6, <2>2, <3>1
    <3> QED BY <1>2, <1>6, <2>2, <3>2
  <2> QED BY <2>1, <2>2
<1> HIDE DEF e
<1>8. Interpolates(k, T)
  <2>1. k = [s \in SUBSET T |-> e(k, s)]
    BY <1>5, <1>7
  <2> QED BY <2>1, Zenon DEF Interpolates, e
<1> DEFINE g == CHOOSE h : Interpolates(h, T)
<1>9. Interpolates(g, T)
  BY <1>8
<1> HIDE DEF g
<1>10. \A s \in SUBSET T : g[s] = e(g, s)
  <2>1. g = [s \in SUBSET T |-> e(g, s)]
    BY <1>9, Zenon DEF Interpolates, e
  <2> QED BY <2>1
<1>11. Follows(g, SomeOf(T), adding, 0, Field, SUBSET T)
  <2> SUFFICES ASSUME NEW s \in SUBSET T
               PROVE  /\ s = {} => g[s] = 0
                      /\ s # {} /\ g[s \ {SomeOf(T)[s]}] \in Field =>
                            g[s] = adding[SomeOf(T)[s]][g[s \ {SomeOf(T)[s]}]]
    BY DEF Follows
  <2>1. s = {} => g[s] = 0
    BY <1>10 DEF e
  <2>2. ASSUME s # {}, g[s \ {Some(s)}] \in Field PROVE g[s] = adding[Some(s)][g[s \ {Some(s)}]]
    <3>1. g[s] = (g[s \ {Some(s)}] + Some(s).y * Weight(T, Some(s))) % Prime
      BY <1>10, <2>2 DEF e
    <3>2. t[Some(s)] = Some(s).y * Weight(T, Some(s))
      BY <1>2, <1>6, <2>2
    <3>3. adding[Some(s)][g[s \ {Some(s)}]] = (g[s \ {Some(s)}] + t[Some(s)]) % Prime
      BY <1>4, <1>6, <2>2
    <3> QED BY <3>1, <3>2, <3>3
  <2> QED BY <1>6, <2>1, <2>2
<1>12. g[T] = k[T]
  <2>1. T \in SUBSET T
    OBVIOUS
  <2> QED BY ONLY <1>4, <1>11, <2>1, FoldIsUnique
<1>13. Total(t, T) = k[T]
  <2>1. T \in SUBSET T
    OBVIOUS
  <2> QED BY <1>2, <1>3, <2>1, TotalOf
<1> QED BY <1>12, <1>13, InterpolateIs DEF g, Estimate, t, f

\* Shamir's scheme keeps its promise: in every field, for every polynomial and for
\* every choice of its shares, as many as its threshold or more.
THEOREM EverySplitComesBack ==
    ASSUME NEW slopes \in Seq(Field), NEW n \in Nat, n < Prime
    PROVE  ComesBack(slopes, n)
<1> SUFFICES ASSUME NEW rik \in Field, NEW T \in SUBSET Shares(rik, slopes, n),
                    Cardinality(T) > Len(slopes)
             PROVE  Interpolate(T) = rik
  BY DEF ComesBack
<1> DEFINE coefs == <<rik>> \o slopes
           m == Len(slopes) + 1
           k == [x \in 1 .. Prime - 1 |->
                    CHOOSE v : Horner(v, coefs, x, m) /\ Value(coefs, x) = v[1]]
<1>1. /\ m \in Nat /\ m > 0 /\ DOMAIN coefs = 1 .. m /\ coefs[1] = rik
      /\ \A i \in 1 .. m : coefs[i] \in Int
  <2>1. <<rik>> \in Seq(Field) /\ coefs \in Seq(Field) /\ Len(coefs) = m /\ Len(slopes) \in Nat
    OBVIOUS
  <2>2. coefs[1] = rik
    OBVIOUS
  <2> HIDE DEF coefs
  <2>3. DOMAIN coefs = 1 .. m /\ \A i \in 1 .. m : coefs[i] \in Field
    BY <2>1
  <2>4. m \in Nat /\ m > 0
    BY <2>1
  <2> HIDE DEF m
  <2> QED BY <2>2, <2>3, <2>4, FieldIsInt
<1> HIDE DEF coefs, m
<1>2. \A x \in 1 .. Prime - 1 : Horner(k[x], coefs, x, m) /\ Value(coefs, x) = k[x][1]
  <2> SUFFICES ASSUME NEW x \in 1 .. Prime - 1
               PROVE  Horner(k[x], coefs, x, m) /\ Value(coefs, x) = k[x][1]
    OBVIOUS
  <2>1. x \in Int
    BY PrimeIsNat
  <2>2. \E v : Horner(v, coefs, x, m) /\ Value(coefs, x) = v[1]
    BY <1>1, <2>1, HornersRule
  <2>3. k[x] = CHOOSE v : Horner(v, coefs, x, m) /\ Value(coefs, x) = v[1]
    OBVIOUS
  <2> HIDE DEF k
  <2> QED BY <2>2, <2>3
<1> HIDE DEF k
<1>3. \A p \in T : \E x \in 1 .. n : p = [index |-> x, y |-> Value(coefs, x)]
  BY DEF Shares, coefs
<1>4. \A p \in T : /\ p.index \in 1 .. n /\ p.index \in 1 .. Prime - 1
                   /\ p = [index |-> p.index, y |-> Value(coefs, p.index)]
                   /\ p.y = k[p.index][1] /\ p.y \in Field
  <2> SUFFICES ASSUME NEW p \in T
               PROVE  /\ p.index \in 1 .. n /\ p.index \in 1 .. Prime - 1
                      /\ p = [index |-> p.index, y |-> Value(coefs, p.index)]
                      /\ p.y = k[p.index][1] /\ p.y \in Field
    OBVIOUS
  <2>1. PICK x \in 1 .. n : p = [index |-> x, y |-> Value(coefs, x)]
    BY <1>3
  <2>2. p.index = x /\ p.y = Value(coefs, x) /\ x \in 1 .. Prime - 1
    BY <2>1, PrimeIsNat
  <2>3. k[x] \in [1 .. m + 1 -> Field] /\ 1 \in 1 .. m + 1 /\ Value(coefs, x) = k[x][1]
    BY <1>1, <1>2, <2>2 DEF Horner
  <2> QED BY <2>1, <2>2, <2>3
<1>5. Points(T) /\ Cardinality(T) >= m
  <2>1. T \subseteq {[index |-> x, y |-> Value(coefs, x)] : x \in 1 .. n}
    BY <1>3
  <2>2. IsFiniteSet({[index |-> x, y |-> Value(coefs, x)] : x \in 1 .. n})
    <3> DEFINE S == {[index |-> x, y |-> Value(coefs, x)] : x \in 1 .. n}
               h == [x \in 1 .. n |-> [index |-> x, y |-> Value(coefs, x)]]
    <3>1. h \in Surjection(1 .. n, S)
      BY DEF Surjection
    <3>2. IsFiniteSet(1 .. n)
      BY FS_Interval
    <3> HIDE DEF h, S
    <3>3. IsFiniteSet(S)
      BY <3>1, <3>2, FS_Surjection
    <3> QED BY <3>3 DEF S
  <2>3. IsFiniteSet(T)
    BY <2>1, <2>2, FS_Subset
  <2>4. \A p, q \in T : p.index = q.index => p = q
    BY <1>4
  <2>5. Cardinality(T) \in Nat
    BY <2>3, FS_CardinalityType
  <2>6. Cardinality(T) >= m
    BY <2>5 DEF m
  <2> QED BY <1>4, <2>3, <2>4, <2>6 DEF Points
<1>6. From(k, T, 1) = [p \in T |-> p.y]
  BY <1>4 DEF From
<1>7. Same(Interpolate(T), rik)
  <2>1. Same(Estimate(From(k, T, 1), T), coefs[1])
    BY <1>1, <1>2, <1>5, EnoughPoints
  <2> QED BY <1>1, <1>5, <1>6, <2>1, InterpolateEstimates
<1>8. Interpolate(T) \in Field
  <2> DEFINE f == [p \in T |-> p.y]
  <2>1. \A p \in T : f[p] \in Int
    BY <1>5, PointTypes
  <2> HIDE DEF f
  <2>2. Estimate(f, T) \in Field
    BY <1>5, <2>1, WeightedTypes
  <2> QED BY <1>5, <2>2, InterpolateEstimates DEF f
<1> QED BY <1>7, <1>8, SameInField

=============================================================================
