----------------------------- MODULE FiniteFacts -----------------------------
(***************************************************************************)
(* Facts about numbers, sequences, finite sets and sums over them that the *)
(* proofs of several components rest on.  The inductions are about the members of a  *)
(* set, where a predicate might be expected.                               *)
(***************************************************************************)
EXTENDS Integers, Sequences, FiniteSets, Functions, FiniteSetTheorems,
        WellFoundedInduction, TLAPS

-----------------------------------------------------------------------------
(* Numbers *)

\* Division by a positive number leaves a smaller rest.
LEMMA Division ==
  ASSUME NEW a \in Nat, NEW b \in Nat \ {0}, NEW q, q = a \div b
  PROVE  /\ q \in Nat
         /\ q * b \in Nat /\ q * b <= a /\ a < q * b + b
  OBVIOUS

\* Products of natural numbers, which the provers do not expand.
LEMMA Product ==
  ASSUME NEW a \in Nat, NEW b \in Nat
  PROVE  a * b \in Nat /\ a * b = b * a /\ (a # 0 => b <= a * b) /\ (a + 1) * b = a * b + b
  OBVIOUS

\* A product grows with either factor.
LEMMA ProductMonotone ==
  ASSUME NEW a \in Int, NEW b \in Int, NEW c \in Nat \ {0}
  PROVE  /\ a * c \in Int
         /\ a <= b <=> a * c <= b * c
OBVIOUS

\* Factors change places.
LEMMA ProductSwap ==
  ASSUME NEW a \in Int, NEW b \in Int, NEW c \in Int
  PROVE  a * b \in Int /\ (a * b) * c = (a * c) * b /\ a * b = b * a
OBVIOUS

\* What a sequence is made of.
LEMMA ElementType ==
  ASSUME NEW S, NEW s \in Seq(S), NEW k \in 1..Len(s)
  PROVE  s[k] \in S
OBVIOUS

\* What is left of a sequence without its first element.
LEMMA TailType ==
  ASSUME NEW S, NEW s \in Seq(S), Len(s) # 0
  PROVE  /\ Tail(s) \in Seq(S) /\ Len(Tail(s)) = Len(s) - 1
         /\ Head(s) = s[1]
         /\ \A k \in 1..Len(s) - 1 : Tail(s)[k] = s[k + 1]
OBVIOUS

\* A sequence with one more element.
LEMMA AppendType ==
  ASSUME NEW S, NEW s \in Seq(S), NEW e \in S
  PROVE  /\ Append(s, e) \in Seq(S) /\ Len(Append(s, e)) = Len(s) + 1
         /\ Append(s, e)[Len(s) + 1] = e
         /\ \A k \in 1..Len(s) : Append(s, e)[k] = s[k]
OBVIOUS

-----------------------------------------------------------------------------
(* Induction *)

\* What holds of a subset when it holds of all smaller ones holds of the set.
LEMMA SubsetInduction ==
  ASSUME NEW S, IsFiniteSet(S), NEW P,
         \A T \in SUBSET S : (\A U \in SUBSET T : U # T => U \in P) => T \in P
  PROVE  \A T \in SUBSET S : T \in P
<1> SUFFICES ASSUME NEW V \in SUBSET S, V \notin P PROVE FALSE
  OBVIOUS
<1> DEFINE R == StrictSubsetOrdering(S)
           X == {T \in SUBSET S : T \notin P}
<1>1. IsWellFoundedOn(R, FiniteSubsetsOf(S))
  BY FS_StrictSubsetOrderingWellFounded
<1>2. X \subseteq FiniteSubsetsOf(S) /\ X # {}
  <2>1. \A T \in SUBSET S : IsFiniteSet(T)
    BY FS_Subset
  <2> QED
    BY <2>1 DEF FiniteSubsetsOf
<1>3. \A T, U \in SUBSET S : <<U, T>> \in R <=> U \subseteq T /\ U # T
  BY DEF StrictSubsetOrdering
<1> HIDE DEF R
<1>4. PICK T \in X : \A U \in X : ~ (<<U, T>> \in R)
  <2> HIDE DEF X
  <2> QED
    BY <1>1, <1>2, WFMin
<1>5. \A U \in SUBSET T : U # T => U \in P
  BY <1>3, <1>4, ZenonT(30)
<1> QED
  BY <1>4, <1>5

\* A set of natural numbers has a least one.
LEMMA LeastNat ==
  ASSUME NEW T \in SUBSET Nat, T # {}
  PROVE  \E m \in T : \A k \in T : m <= k
<1> DEFINE R == OpToRel(<, Nat)
<1>1. IsWellFoundedOn(R, Nat)
  BY NatLessThanWellFounded
<1>2. \A x, y \in Nat : <<y, x>> \in R <=> y < x
  BY DEF OpToRel
<1> HIDE DEF R
<1>3. PICK m \in T : \A k \in T : ~ (<<k, m>> \in R)
  BY <1>1, WFMin
<1>4. \A k \in T : k \in Nat /\ m \in Nat /\ ~(k < m)
  BY <1>2, <1>3, Zenon
<1> QED
  BY <1>4

\* From each natural number to the next.
LEMMA Induction ==
  ASSUME NEW N, 0 \in N, \A n \in Nat : n \in N => n + 1 \in N
  PROVE  \A n \in Nat : n \in N
<1> SUFFICES ASSUME Nat \ N # {} PROVE FALSE
  OBVIOUS
<1>1. PICK m \in Nat \ N : \A k \in Nat \ N : m <= k
  BY LeastNat
<1>2. m # 0 /\ m - 1 \in Nat /\ m - 1 \notin Nat \ N
  BY <1>1
<1>3. (m - 1) + 1 \in N
  BY <1>2
<1> QED
  BY <1>1, <1>3

\* g has a first value, and each other by a step from the one before.
Iterates(g, S, first, step) ==
  g \in [Nat -> S] /\ g[0] = first /\ \A n \in Nat : g[n + 1] = step[g[n]]

\* A function on the numbers can be defined so.
LEMMA IterationExists ==
  ASSUME NEW S, NEW first \in S, NEW step \in [S -> S]
  PROVE  \E g : Iterates(g, S, first, step)
<1> DEFINE UpTo(n, g) == g[0] = first /\ \A m \in Nat : m < n => g[m + 1] = step[g[m]]
           N == {n \in Nat : \E g \in [Nat -> S] : UpTo(n, g)}
<1>1. \A n \in Nat : n \in N
  <2>1. 0 \in N
    <3>1. [n \in Nat |-> first] \in [Nat -> S] /\ UpTo(0, [n \in Nat |-> first])
      OBVIOUS
    <3> QED
      BY <3>1
  <2>2. ASSUME NEW n \in Nat, n \in N PROVE n + 1 \in N
    <3>1. PICK g \in [Nat -> S] : UpTo(n, g)
      BY <2>2
    <3> DEFINE h == [g EXCEPT ![n + 1] = step[g[n]]]
    <3>2. h \in [Nat -> S] /\ h[n + 1] = step[g[n]] /\ \A m \in Nat : m # n + 1 => h[m] = g[m]
      OBVIOUS
    <3> HIDE DEF h
    <3>3. h[0] = first
      BY <3>1, <3>2
    <3>4. ASSUME NEW m \in Nat, m < n + 1 PROVE h[m + 1] = step[h[m]]
      <4>1. h[m] = g[m]
        BY <3>2, <3>4
      <4>2. CASE m = n
        BY <3>2, <4>1, <4>2
      <4>3. CASE m < n
        BY <3>1, <3>2, <4>1, <4>3
      <4> QED
        BY <3>4, <4>2, <4>3
    <3> QED
      BY <3>2, <3>3, <3>4
  <2> HIDE DEF N
  <2> QED
    BY <2>1, <2>2, Induction
<1>2. ASSUME NEW n \in Nat, NEW g \in [Nat -> S], NEW h \in [Nat -> S], UpTo(n, g), UpTo(n, h)
      PROVE  \A m \in Nat : m <= n => g[m] = h[m]
  <2> DEFINE M == {m \in Nat : m <= n => g[m] = h[m]}
  <2>1. 0 \in M
    BY <1>2
  <2>2. ASSUME NEW m \in Nat, m \in M PROVE m + 1 \in M
    BY <1>2, <2>2
  <2>3. \A m \in Nat : m \in M
    <3> HIDE DEF M
    <3> QED
      BY <2>1, <2>2, Induction
  <2> QED
    BY <2>3
<1> DEFINE Some(n) == CHOOSE g \in [Nat -> S] : UpTo(n, g)
           G == [n \in Nat |-> Some(n)[n]]
<1>3. \A n \in Nat : Some(n) \in [Nat -> S] /\ UpTo(n, Some(n))
  BY <1>1
<1> HIDE DEF Some, N
<1>4. G \in [Nat -> S]
  BY <1>3
<1>5. G[0] = first
  BY <1>3
<1>6. ASSUME NEW n \in Nat PROVE G[n + 1] = step[G[n]]
  <2>1. UpTo(n, Some(n + 1)) /\ UpTo(n, Some(n)) /\ Some(n + 1) \in [Nat -> S] /\ Some(n) \in [Nat -> S]
    BY <1>3
  <2>2. Some(n + 1)[n] = Some(n)[n]
    <3> HIDE DEF UpTo
    <3> QED
      BY <1>2, <2>1
  <2>3. Some(n + 1)[n + 1] = step[Some(n + 1)[n]]
    BY <1>3
  <2> QED
    BY <2>2, <2>3
<1>7. Iterates(G, S, first, step)
  BY <1>4, <1>5, <1>6 DEF Iterates
<1> QED
  BY <1>7, Zenon

\* Of finitely many things that any two compare, one is above all the others.
LEMMA TopExists ==
  ASSUME NEW S, IsFiniteSet(S), S # {}, NEW R,
         \A x, y \in S : <<x, y>> \in R \/ <<y, x>> \in R,
         \A x, y, z \in S : <<x, y>> \in R /\ <<y, z>> \in R => <<x, z>> \in R
  PROVE  \E x \in S : \A y \in S : <<x, y>> \in R
<1> DEFINE Top(T, x) == \A y \in T : <<x, y>> \in R
           P == {T \in SUBSET S : T # {} => \E x \in T : Top(T, x)}
<1>1. ASSUME NEW T \in SUBSET S, \A U \in SUBSET T : U # T => U \in P, T # {}
      PROVE  \E x \in T : Top(T, x)
  <2>1. PICK x \in T : TRUE
    BY <1>1
  <2> DEFINE U == T \ {x}
  <2>2. U \in P
    BY <1>1, <2>1, ZenonT(30)
  <2>3. CASE U = {}
    BY <2>1, <2>3
  <2>4. CASE U # {}
    <3>1. PICK y \in U : Top(U, y)
      BY <2>2, <2>4
    <3>2. CASE <<x, y>> \in R
      <4>1. Top(T, x)
        BY <2>1, <3>1, <3>2
      <4> QED
        BY <2>1, <4>1
    <3>3. CASE <<y, x>> \in R
      <4>1. Top(T, y)
        BY <2>1, <3>1, <3>3
      <4> QED
        BY <3>1, <4>1
    <3> QED
      BY <2>1, <3>1, <3>2, <3>3
  <2> QED
    BY <2>3, <2>4
<1>2. S \in P
  <2>1. \A T \in SUBSET S : (\A U \in SUBSET T : U # T => U \in P) => T \in P
    BY <1>1
  <2> HIDE DEF P
  <2> QED
    BY <2>1, SubsetInduction
<1> QED
  BY <1>2

-----------------------------------------------------------------------------
(* Sums *)

\* iter is the sum over each subset of S, taken as SumFunctionOnSet takes it.
Sums(f, S, iter) ==
  iter = [s \in SUBSET S |->
            IF s = {} THEN 0
            ELSE f[CHOOSE x \in s : TRUE] + iter[s \ {CHOOSE x \in s : TRUE}]]

\* A subset of a finite set, less an element.
LEMMA LessElement ==
  ASSUME NEW S, IsFiniteSet(S), NEW s \in SUBSET S, NEW x \in s
  PROVE  /\ s \ {x} \in SUBSET S
         /\ Cardinality(s) \in Nat /\ Cardinality(s \ {x}) = Cardinality(s) - 1
<1>1. IsFiniteSet(s)
  BY FS_Subset
<1> QED
  BY <1>1, FS_RemoveElement, FS_CardinalityType

\* There is such a function: a sum is made of the sums it looks like.
LEMMA SumsExist ==
  ASSUME NEW S, IsFiniteSet(S), NEW f, \A x \in S : f[x] \in Int
  PROVE  \E iter \in [SUBSET S -> Int] : Sums(f, S, iter)
<1> DEFINE Element(s) == CHOOSE x \in s : TRUE
           Next(g, s) == IF s = {} THEN 0 ELSE f[Element(s)] + g[s \ {Element(s)}]
           N == {n \in Nat : \E g \in [SUBSET S -> Int] :
                   \A s \in SUBSET S : Cardinality(s) <= n => g[s] = Next(g, s)}
<1>0. \A s \in SUBSET S : s # {} => Element(s) \in s
  OBVIOUS
<1> HIDE DEF Element
<1>1. \A s \in SUBSET S : Cardinality(s) \in Nat /\ (Cardinality(s) = 0 => s = {})
  BY FS_Subset, FS_EmptySet, FS_CardinalityType
<1>2. 0 \in N
  <2> DEFINE g == [s \in SUBSET S |-> 0]
  <2>1. g \in [SUBSET S -> Int]
    OBVIOUS
  <2>2. \A s \in SUBSET S : Cardinality(s) <= 0 => g[s] = Next(g, s)
    BY <1>1
  <2> QED
    BY <2>1, <2>2
<1>3. ASSUME NEW n \in Nat, n \in N PROVE n + 1 \in N
  <2>1. PICK g \in [SUBSET S -> Int] :
          \A s \in SUBSET S : Cardinality(s) <= n => g[s] = Next(g, s)
    BY <1>3
  <2> DEFINE h == [s \in SUBSET S |-> Next(g, s)]
  <2>2. h \in [SUBSET S -> Int]
    <3>1. \A s \in SUBSET S : Next(g, s) \in Int
      BY <1>0
    <3> QED
      BY <3>1
  <2>3. ASSUME NEW s \in SUBSET S, Cardinality(s) <= n + 1
        PROVE  h[s] = Next(h, s)
    <3>1. CASE s = {}
      BY <3>1
    <3>2. CASE s # {}
      <4> DEFINE t == s \ {Element(s)}
      <4>1. t \in SUBSET S /\ Cardinality(t) <= n
        BY <1>0, <2>3, <3>2, LessElement
      <4>2. h[t] = g[t]
        BY <2>1, <4>1
      <4> QED
        BY <3>2, <4>2
    <3> QED
      BY <3>1, <3>2
  <2> HIDE DEF h
  <2>4. \E k \in [SUBSET S -> Int] :
          \A s \in SUBSET S : Cardinality(s) <= n + 1 => k[s] = Next(k, s)
    BY <2>2, <2>3, Zenon
  <2> QED
    BY <2>4, SMTT(30)
<1>4. Cardinality(S) \in N
  <2> HIDE DEF N
  <2>1. \A n \in Nat : n \in N
    BY <1>2, <1>3, Induction
  <2> QED
    BY <1>1, <2>1
<1>5. PICK g \in [SUBSET S -> Int] : \A s \in SUBSET S : Cardinality(s) <= Cardinality(S) => g[s] = Next(g, s)
  BY <1>4
<1>6. \A s \in SUBSET S : g[s] = Next(g, s)
  <2>1. \A s \in SUBSET S : Cardinality(s) <= Cardinality(S)
    BY FS_Subset
  <2> QED
    BY <1>5, <2>1
<1>7. Sums(f, S, g)
  BY <1>6 DEF Sums, Element
<1> QED
  BY <1>7


\* Two such functions agree where what they sum up agrees.
LEMMA SumsAgree ==
  ASSUME NEW S, IsFiniteSet(S), NEW T \in SUBSET S,
         NEW f, NEW g, \A x \in T : f[x] = g[x] /\ f[x] \in Int,
         NEW a, Sums(f, S, a), NEW b, Sums(g, T, b)
  PROVE  \A s \in SUBSET T : a[s] = b[s] /\ a[s] \in Int
<1> DEFINE Element(s) == CHOOSE x \in s : TRUE
           P == {s \in SUBSET T : a[s] = b[s] /\ a[s] \in Int}
<1>0. \A s \in SUBSET T : s # {} => Element(s) \in s
  OBVIOUS
<1>1. \A s \in SUBSET T :
        /\ a[s] = IF s = {} THEN 0 ELSE f[Element(s)] + a[s \ {Element(s)}]
        /\ b[s] = IF s = {} THEN 0 ELSE g[Element(s)] + b[s \ {Element(s)}]
  BY Zenon DEF Sums
<1> HIDE DEF Element
<1>2. ASSUME NEW s \in SUBSET T, \A u \in SUBSET s : u # s => u \in P
      PROVE  s \in P
  <2>1. CASE s = {}
    BY <1>1, <2>1
  <2>2. CASE s # {}
    <3> DEFINE u == s \ {Element(s)}
    <3>1. Element(s) \in T /\ u \in SUBSET s /\ u # s
      BY <1>0, <2>2
    <3>2. u \in P
      BY <1>2, <3>1
    <3>3. a[s] = f[Element(s)] + a[u] /\ b[s] = g[Element(s)] + b[u]
      BY <1>1, <2>2
    <3> HIDE DEF u
    <3> QED
      BY <3>1, <3>2, <3>3
  <2> QED
    BY <2>1, <2>2
<1>3. IsFiniteSet(T)
  BY FS_Subset
<1>4. \A s \in SUBSET T : s \in P
  <2> HIDE DEF P
  <2> QED
    BY <1>2, <1>3, SubsetInduction
<1> QED
  BY <1>4

\* The element that is taken first makes no difference.
LEMMA SumsElement ==
  ASSUME NEW S, IsFiniteSet(S), NEW f, \A x \in S : f[x] \in Int, NEW a, Sums(f, S, a)
  PROVE  \A s \in SUBSET S : \A x \in s : a[s] = f[x] + a[s \ {x}]
<1> DEFINE Element(s) == CHOOSE x \in s : TRUE
           P == {s \in SUBSET S : \A x \in s : a[s] = f[x] + a[s \ {x}]}
<1>0. \A s \in SUBSET S : s # {} => Element(s) \in s
  OBVIOUS
<1>1. \A s \in SUBSET S : a[s] = IF s = {} THEN 0 ELSE f[Element(s)] + a[s \ {Element(s)}]
  BY Zenon DEF Sums
<1> HIDE DEF Element
<1>2. \A s \in SUBSET S : a[s] \in Int
  BY SumsAgree
<1>3. ASSUME NEW s \in SUBSET S, \A u \in SUBSET s : u # s => u \in P
      PROVE  s \in P
  <2> SUFFICES ASSUME NEW x \in s PROVE a[s] = f[x] + a[s \ {x}]
    OBVIOUS
  <2> DEFINE e == Element(s)
  <2>1. e \in s /\ a[s] = f[e] + a[s \ {e}]
    BY <1>0, <1>1
  <2> HIDE DEF e
  <2>2. CASE e # x
    <3>1. a[s \ {e}] = f[x] + a[(s \ {e}) \ {x}]
      BY <1>3, <2>1, <2>2
    <3>2. a[s \ {x}] = f[e] + a[(s \ {x}) \ {e}]
      BY <1>3, <2>1, <2>2
    <3>3. (s \ {e}) \ {x} = (s \ {x}) \ {e}
      OBVIOUS
    <3>4. f[e] \in Int /\ f[x] \in Int /\ a[(s \ {x}) \ {e}] \in Int
      BY <1>2, <2>1
    <3> DEFINE rest == a[(s \ {x}) \ {e}]
    <3>5. a[s] = f[e] + (f[x] + rest) /\ a[s \ {x}] = f[e] + rest
      BY <2>1, <3>1, <3>2, <3>3
    <3> HIDE DEF rest, P
    <3> QED
      BY <3>4, <3>5 DEF rest
  <2> QED
    BY <2>1, <2>2
<1>4. \A s \in SUBSET S : s \in P
  <2> HIDE DEF P
  <2> QED
    BY <1>3, SubsetInduction
<1> QED
  BY <1>4

\* SumFunctionOnSet, as the community modules define it, is such a function's value.
LEMMA SumDef ==
  ASSUME NEW f, NEW S
  PROVE  SumFunctionOnSet(f, S) = (CHOOSE iter : Sums(f, S, iter))[S]
BY Zenon DEF SumFunctionOnSet, FoldFunctionOnSet, MapThenFoldSet, Sums


LEMMA SumIter ==
  ASSUME NEW S, IsFiniteSet(S), NEW f, \A x \in S : f[x] \in Int
  PROVE  \E iter : Sums(f, S, iter) /\ SumFunctionOnSet(f, S) = iter[S]
<1>1. PICK iter : Sums(f, S, iter)
  BY SumsExist
<1>2. Sums(f, S, CHOOSE g : Sums(f, S, g))
  BY <1>1, Zenon
<1> QED
  BY <1>2, SumDef, Zenon

-----------------------------------------------------------------------------
(* SumFunctionOnSet *)

\* A sum of integers is an integer.
LEMMA SumType ==
  ASSUME NEW S, IsFiniteSet(S), NEW f, \A x \in S : f[x] \in Int
  PROVE  SumFunctionOnSet(f, S) \in Int
<1>1. PICK a : Sums(f, S, a) /\ SumFunctionOnSet(f, S) = a[S]
  BY SumIter
<1>2. \A s \in SUBSET S : a[s] \in Int
  BY <1>1, SumsAgree
<1> QED
  BY <1>1, <1>2

\* Nothing sums up to 0.
LEMMA SumEmpty ==
  ASSUME NEW f
  PROVE  SumFunctionOnSet(f, {}) = 0
<1>1. PICK iter : Sums(f, {}, iter) /\ SumFunctionOnSet(f, {}) = iter[{}]
  BY SumIter, FS_EmptySet
<1> QED
  BY <1>1 DEF Sums

\* Equal terms have equal sums.
LEMMA SumEqual ==
  ASSUME NEW S, IsFiniteSet(S), NEW f, NEW g, \A x \in S : f[x] = g[x] /\ f[x] \in Int
  PROVE  SumFunctionOnSet(f, S) = SumFunctionOnSet(g, S)
<1>1. PICK a : Sums(f, S, a) /\ SumFunctionOnSet(f, S) = a[S]
  BY SumIter
<1>2. PICK b : Sums(g, S, b) /\ SumFunctionOnSet(g, S) = b[S]
  BY SumIter
<1> QED
  BY <1>1, <1>2, SumsAgree

\* A sum is any of its terms and the sum of the others.
LEMMA SumElement ==
  ASSUME NEW S, IsFiniteSet(S), NEW f, \A x \in S : f[x] \in Int, NEW x \in S
  PROVE  SumFunctionOnSet(f, S) = f[x] + SumFunctionOnSet(f, S \ {x})
<1> DEFINE T == S \ {x}
<1>1. PICK a : Sums(f, S, a) /\ SumFunctionOnSet(f, S) = a[S]
  BY SumIter
<1>2. IsFiniteSet(T)
  BY FS_Subset
<1>3. PICK b : Sums(f, T, b) /\ SumFunctionOnSet(f, T) = b[T]
  BY <1>2, SumIter
<1>4. a[T] = b[T]
  <2> HIDE DEF T
  <2>1. T \in SUBSET S
    BY DEF T
  <2> QED
    BY <1>1, <1>3, <2>1, SumsAgree
<1>5. a[S] = f[x] + a[T]
  BY <1>1, SumsElement
<1> QED
  BY <1>1, <1>3, <1>4, <1>5

\* The sum of a sequence, by its last term.
LEMMA SumNext ==
  ASSUME NEW n \in Nat, NEW f, \A i \in 1..n + 1 : f[i] \in Int
  PROVE  SumFunctionOnSet(f, 1..n + 1) = SumFunctionOnSet(f, 1..n) + f[n + 1]
<1>1. IsFiniteSet(1..n + 1) /\ IsFiniteSet(1..n)
  BY FS_Interval
<1>2. (1..n + 1) \ {n + 1} = 1..n /\ n + 1 \in 1..n + 1
  OBVIOUS
<1>3. SumFunctionOnSet(f, 1..n) \in Int
  <2>1. \A i \in 1..n : f[i] \in Int
    OBVIOUS
  <2> QED
    BY <1>1, <2>1, SumType
<1>4. SumFunctionOnSet(f, 1..n + 1) = f[n + 1] + SumFunctionOnSet(f, (1..n + 1) \ {n + 1})
  BY <1>1, <1>2, SumElement
<1>5. f[n + 1] \in Int
  BY <1>2
<1> DEFINE F == SumFunctionOnSet(f, 1..n)
<1>6. SumFunctionOnSet(f, 1..n + 1) = f[n + 1] + F
  BY <1>2, <1>4
<1>7. f[n + 1] + F = F + f[n + 1]
  <2> HIDE DEF F
  <2> QED
    BY <1>3, <1>5 DEF F
<1> QED
  BY <1>6, <1>7

\* The sum of a sequence, by its first term.
LEMMA SumShift ==
  ASSUME NEW N \in Nat, NEW f, \A i \in 1..N + 1 : f[i] \in Int,
         NEW g, \A i \in 1..N : g[i] = f[i + 1]
  PROVE  SumFunctionOnSet(f, 1..N + 1) = f[1] + SumFunctionOnSet(g, 1..N)
<1> DEFINE F(n) == SumFunctionOnSet(f, 1..n)
           G(n) == SumFunctionOnSet(g, 1..n)
           P == {n \in Nat : n <= N => F(n + 1) = f[1] + G(n)}
<1>1. 0 \in P
  <2>1. F(0 + 1) = F(0) + f[0 + 1]
    <3>1. \A i \in 1..0 + 1 : f[i] \in Int
      OBVIOUS
    <3> QED
      BY <3>1, SumNext
  <2>2. 1..0 = {}
    OBVIOUS
  <2>3. F(0) = 0 /\ G(0) = 0
    BY <2>2, SumEmpty
  <2> QED
    BY <2>1, <2>3
<1>2. ASSUME NEW n \in Nat, n \in P PROVE n + 1 \in P
  <2> SUFFICES ASSUME n + 1 <= N PROVE F((n + 1) + 1) = f[1] + G(n + 1)
    OBVIOUS
  <2>0. IsFiniteSet(1..n)
    BY FS_Interval
  <2>1. \A i \in 1..n + 1 : g[i] = f[i + 1] /\ g[i] \in Int
    OBVIOUS
  <2>2. G(n) \in Int
    BY <2>0, <2>1, SumType
  <2>3. F((n + 1) + 1) = F(n + 1) + f[(n + 1) + 1]
    BY SumNext
  <2>4. G(n + 1) = G(n) + g[n + 1]
    BY <2>1, SumNext
  <2>5. F(n + 1) = f[1] + G(n)
    BY <1>2
  <2>6. g[n + 1] = f[(n + 1) + 1] /\ f[1] \in Int /\ g[n + 1] \in Int
    BY <2>1
  <2> HIDE DEF F, G, P
  <2> QED
    BY <2>2, <2>3, <2>4, <2>5, <2>6
<1>3. \A n \in Nat : n \in P
  <2> HIDE DEF P
  <2> QED
    BY <1>1, <1>2, Induction
<1> QED
  BY <1>3

\* g is the last row of the table f.
LastRow(n, T, f, g) ==
  /\ n \in Nat /\ IsFiniteSet(T)
  /\ \A c \in (1..n + 1) \X T : f[c] \in Int
  /\ \A y \in T : g[y] = f[<<n + 1, y>>]

\* The sum of a table, by its last row.
LEMMA SumNextRow ==
  ASSUME NEW n, NEW T, NEW f, NEW g, LastRow(n, T, f, g)
  PROVE  SumFunctionOnSet(f, (1..n + 1) \X T)
           = SumFunctionOnSet(f, (1..n) \X T) + SumFunctionOnSet(g, T)
<1> SUFFICES ASSUME n \in Nat, IsFiniteSet(T), \A c \in (1..n + 1) \X T : f[c] \in Int,
                    \A y \in T : g[y] = f[<<n + 1, y>>]
             PROVE  SumFunctionOnSet(f, (1..n + 1) \X T)
                      = SumFunctionOnSet(f, (1..n) \X T) + SumFunctionOnSet(g, T)
  BY DEF LastRow
<1> DEFINE A == (1..n) \X T
           C(U) == A \cup ({n + 1} \X U)
           F(U) == SumFunctionOnSet(f, C(U))
           G(U) == SumFunctionOnSet(g, U)
           P == {U \in SUBSET T : F(U) = F({}) + G(U)}
<1>1. IsFiniteSet((1..n + 1) \X T) /\ (1..n + 1) \X T = C(T)
  <2>1. IsFiniteSet(1..n + 1) /\ 1..n + 1 = (1..n) \cup {n + 1}
    BY FS_Interval
  <2>2. IsFiniteSet((1..n + 1) \X T)
    BY <2>1, FS_Product
  <2>3. (1..n + 1) \X T = C(T)
    BY <2>1
  <2> QED
    BY <2>2, <2>3
<1>2. \A U \in SUBSET T : /\ C(U) \subseteq (1..n + 1) \X T /\ IsFiniteSet(C(U))
                          /\ \A c \in C(U) : f[c] \in Int
  <2>1. \A U \in SUBSET T : C(U) \subseteq (1..n + 1) \X T
    OBVIOUS
  <2> HIDE DEF C
  <2> QED
    BY <1>1, <2>1, FS_Subset
<1>3. \A U \in SUBSET T : IsFiniteSet(U) /\ \A y \in U : g[y] \in Int
  <2>1. \A y \in T : <<n + 1, y>> \in (1..n + 1) \X T
    OBVIOUS
  <2>2. \A y \in T : g[y] \in Int
    BY <2>1
  <2> QED
    BY <2>2, FS_Subset
<1>4. \A U \in SUBSET T : F(U) \in Int /\ G(U) \in Int
  <2> HIDE DEF C
  <2> QED
    BY <1>2, <1>3, SumType
<1>5. ASSUME NEW U \in SUBSET T, \A V \in SUBSET U : V # U => V \in P
      PROVE  U \in P
  <2>1. CASE U = {}
    <3>1. F({}) \in Int
      BY <1>4
    <3>2. G({}) = 0
      BY SumEmpty
    <3> HIDE DEF F, G
    <3> QED
      BY <2>1, <3>1, <3>2
  <2>2. CASE U # {}
    <3>1. PICK y \in U : TRUE
      BY <2>2
    <3> DEFINE V == U \ {y}
    <3>2. V \in SUBSET T /\ V \in P
      BY <1>5, <3>1
    <3>3. C(U) \ {<<n + 1, y>>} = C(V) /\ <<n + 1, y>> \in C(U)
      BY <3>1
    <3>4. F(U) = f[<<n + 1, y>>] + F(V)
      <4> HIDE DEF C, V
      <4>1. SumFunctionOnSet(f, C(U))
              = f[<<n + 1, y>>] + SumFunctionOnSet(f, C(U) \ {<<n + 1, y>>})
        BY <1>2, <3>3, SumElement
      <4> QED
        BY <3>3, <4>1
    <3>5. G(U) = g[y] + G(V)
      BY <1>3, <3>1, SumElement
    <3>6. g[y] = f[<<n + 1, y>>] /\ g[y] \in Int
      BY <1>3, <3>1
    <3>7. F(V) = F({}) + G(V)
      BY <3>2
    <3>8. F({}) \in Int /\ F(V) \in Int /\ G(V) \in Int
      BY <1>4, <3>2
    <3> HIDE DEF F, G, V
    <3> QED
      BY <3>4, <3>5, <3>6, <3>7, <3>8
  <2> QED
    BY <2>1, <2>2
<1>6. T \in P
  <2> HIDE DEF P
  <2> QED
    BY <1>5, SubsetInduction
<1>7. C({}) = A
  OBVIOUS
<1> QED
  BY <1>1, <1>6, <1>7

=============================================================================
