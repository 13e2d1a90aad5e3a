---------------------------- MODULE SetInduction ----------------------------
(***************************************************************************)
(* Induction over the natural numbers stated for a set of numbers instead  *)
(* of a predicate, so that it can be cited with a set comprehension where  *)
(* an operator parameter could not be instantiated; values computed step   *)
(* by step; remainders; and sums over the domain of a function.            *)
(***************************************************************************)
EXTENDS Integers, FiniteSets, Functions, FiniteSetTheorems, WellFoundedInduction, TLAPS

\* A non-empty set of naturals has a least element.
LEMMA LeastElement ==
    ASSUME NEW S \in SUBSET Nat, S # {}
    PROVE  \E m \in S : \A k \in S : m <= k
  <1> DEFINE T == { 1 .. i : i \in S }
  <1>1. T \subseteq FiniteSubsetsOf(Nat)
    <2> SUFFICES ASSUME NEW i \in S PROVE 1 .. i \in FiniteSubsetsOf(Nat)
      OBVIOUS
    <2>1. IsFiniteSet(1 .. i)
      BY FS_Interval
    <2> QED
      BY <2>1 DEF FiniteSubsetsOf
  <1>2. IsWellFoundedOn(StrictSubsetOrdering(Nat), FiniteSubsetsOf(Nat))
    BY FS_StrictSubsetOrderingWellFounded
  <1>3. T # {}
    OBVIOUS
  <1>4. PICK X \in T : \A Y \in T : ~ (<< Y, X >> \in StrictSubsetOrdering(Nat))
    <2> HIDE DEF T
    <2> QED
      BY <1>1, <1>2, <1>3, WFMin
  <1>5. PICK m \in S : X = 1 .. m
    BY <1>4
  <1>6. ASSUME NEW k \in S PROVE m <= k
    <2>1. SUFFICES ASSUME k < m PROVE FALSE
      OBVIOUS
    <2>2. 1 .. k \subseteq 1 .. m /\ m \in 1 .. m /\ m \notin 1 .. k
      BY <2>1
    <2>3. << 1 .. k, 1 .. m >> \in StrictSubsetOrdering(Nat)
      BY <2>2 DEF StrictSubsetOrdering
    <2> QED
      BY <1>4, <1>5, <2>3
  <1> QED
    BY <1>6

\* A set that holds 0 and, with each of its naturals, the next one, holds all.
LEMMA NaturalsInSet ==
    ASSUME NEW S, 0 \in S, \A n \in Nat : n \in S => n + 1 \in S
    PROVE  Nat \subseteq S
  <1> SUFFICES ASSUME Nat \ S # {} PROVE FALSE
    OBVIOUS
  <1>1. PICK m \in Nat \ S : \A k \in Nat \ S : m <= k
    BY LeastElement
  <1>2. m - 1 \in Nat
    BY <1>1
  <1>3. m - 1 \in S
    BY <1>1, <1>2
  <1> QED
    BY <1>1, <1>2, <1>3

\* A step on the members of S can be iterated from any of them: the values
\* after 0, 1, ... N steps exist.
LEMMA Iteration ==
    ASSUME NEW S, NEW base \in S, NEW N \in Nat, NEW step \in [1 .. N -> [S -> S]]
    PROVE  \E f \in [0 .. N -> S] :
              f[0] = base /\ \A n \in 1 .. N : f[n] = step[n][f[n - 1]]
  <1> DEFINE Runs(f, m) == f \in [0 .. m -> S] /\ f[0] = base
                             /\ \A n \in 1 .. m : f[n] = step[n][f[n - 1]]
             Good == { m \in Nat : m \in 0 .. N => \E f : Runs(f, m) }
  <1>1. 0 \in Good
    <2>1. Runs([n \in 0 .. 0 |-> base], 0)
      OBVIOUS
    <2> QED
      BY <2>1
  <1>2. ASSUME NEW m \in Nat, m \in Good PROVE m + 1 \in Good
    <2> SUFFICES ASSUME m + 1 \in 0 .. N PROVE \E f : Runs(f, m + 1)
      OBVIOUS
    <2>1. PICK f : Runs(f, m)
      BY <1>2
    <2> DEFINE next == step[m + 1][f[m]]
               g == [n \in 0 .. m + 1 |-> IF n = m + 1 THEN next ELSE f[n]]
    <2>2. next \in S
      <3>1. f[m] \in S /\ m + 1 \in 1 .. N
        BY <2>1
      <3> QED
        BY <3>1
    <2>3. \A n \in 0 .. m : g[n] = f[n] /\ f[n] \in S
      BY <2>1
    <2>4. g[m + 1] = next
      OBVIOUS
    <2>5. g \in [0 .. m + 1 -> S] /\ g[0] = base
      BY <2>1, <2>2, <2>3, <2>4
    <2>6. ASSUME NEW n \in 1 .. m + 1 PROVE g[n] = step[n][g[n - 1]]
      <3>1. n - 1 \in 0 .. m /\ g[n - 1] = f[n - 1]
        BY <2>3
      <3>2. CASE n = m + 1
        BY <2>4, <3>1, <3>2
      <3>3. CASE n # m + 1
        <4>1. n \in 1 .. m
          BY <3>3
        <4> QED
          BY <2>1, <2>3, <3>1, <4>1
      <3> QED
        BY <3>2, <3>3
    <2>7. Runs(g, m + 1)
      BY <2>5, <2>6
    <2> QED
      BY <2>7
  <1>3. Nat \subseteq Good
    <2> HIDE DEF Good
    <2> QED
      BY <1>1, <1>2, NaturalsInSet
  <1>4. PICK f : Runs(f, N)
    <2>1. N \in Good
      <3> HIDE DEF Good
      <3> QED
        BY <1>3
    <2> QED
      BY <2>1
  <1> QED
    BY <1>4

Iterates(f, S, base, N, step) ==
    f \in [0 .. N -> S] /\ f[0] = base /\ \A n \in 1 .. N : f[n] = step[n][f[n - 1]]

LEMMA IterationExists ==
    ASSUME NEW S, NEW base \in S, NEW N \in Nat, NEW step \in [1 .. N -> [S -> S]]
    PROVE  \E f : Iterates(f, S, base, N, step)
  BY Iteration DEF Iterates

------------------------------------------------------------------------------
\* Remainders

LEMMA ProductsGrow ==
    ASSUME NEW M \in Nat \ {0}, NEW a \in Int, NEW b \in Int, a <= b
    PROVE  M * a <= M * b
  OBVIOUS

LEMMA ProductOfNext ==
    ASSUME NEW M \in Nat \ {0}, NEW a \in Int
    PROVE  M * (a + 1) = M * a + M
  OBVIOUS

LEMMA QuotientAndRest ==
    ASSUME NEW M \in Nat \ {0}, NEW x \in Nat
    PROVE  x = M * (x \div M) + (x % M) /\ x % M \in 0 .. M - 1 /\ x \div M \in Int
  OBVIOUS

\* One modulus more leaves the same rest.
LEMMA OneMoreModulus ==
    ASSUME NEW M \in Nat \ {0}, NEW x \in Nat
    PROVE  (x + M) % M = x % M
  <1> DEFINE q == x \div M 
             r == x % M
             p == (x + M) \div M
             t == (x + M) % M
  <1>1. x = M * q + r /\ r \in 0 .. M - 1 /\ q \in Int
    BY QuotientAndRest
  <1>2. x + M = M * p + t /\ t \in 0 .. M - 1 /\ p \in Int
    <2>1. x + M \in Nat
      OBVIOUS
    <2> QED
      BY <2>1, QuotientAndRest
  <1> HIDE DEF q, r, p, t
  <1>3. ~ (p <= q)
    <2> SUFFICES ASSUME p <= q PROVE FALSE
      OBVIOUS
    <2>1. M * p <= M * q /\ M * p \in Int /\ M * q \in Int
      BY <1>1, <1>2, ProductsGrow
    <2> QED
      BY <1>1, <1>2, <2>1
  <1>4. ~ (q + 2 <= p)
    <2> SUFFICES ASSUME q + 2 <= p PROVE FALSE
      OBVIOUS
    <2>1. M * (q + 2) <= M * p /\ M * p \in Int /\ M * q \in Int
      BY <1>1, <1>2, ProductsGrow
    <2>2. M * (q + 2) = M * q + M + M
      BY <1>1, ProductOfNext
    <2> QED
      BY <1>1, <1>2, <2>1, <2>2
  <1>5. p = q + 1
    BY <1>1, <1>2, <1>3, <1>4
  <1>6. M * p = M * q + M /\ M * q \in Int
    BY <1>1, <1>5, ProductOfNext
  <1>7. t = r
    BY <1>1, <1>2, <1>6
  <1> QED
    BY <1>7 DEF t, r

------------------------------------------------------------------------------
\* Sums over a function's domain

Summable(f) == IsFiniteSet(DOMAIN f) /\ \A x \in DOMAIN f : f[x] \in Nat

\* One step of the recursion SumFunction is defined by: the sum over a set from
\* the sums over smaller ones.
Summed(f, g) ==
    [s \in SUBSET DOMAIN f |->
       IF s = {} THEN 0
       ELSE f[CHOOSE x \in s : TRUE] + g[s \ {CHOOSE x \in s : TRUE}]]

\* g gives the sum of f over every set of indices, whichever is taken out first.
SumsOf(f, g) ==
    /\ g \in [SUBSET DOMAIN f -> Nat] /\ g[{}] = 0
    /\ \A s \in SUBSET DOMAIN f : \A a \in s : g[s] = f[a] + g[s \ {a}]

\* Sets of one size fewer.
LEMMA OneLess ==
    ASSUME NEW s, IsFiniteSet(s), NEW a \in s, NEW m \in Nat, Cardinality(s) <= m + 1
    PROVE  IsFiniteSet(s \ {a}) /\ Cardinality(s \ {a}) <= m /\ Cardinality(s) \in Nat
  <1>1. Cardinality(s) \in Nat /\ Cardinality(s \ {a}) = Cardinality(s) - 1 /\ IsFiniteSet(s \ {a})
    BY FS_RemoveElement, FS_CardinalityType
  <1> QED
    BY <1>1

\* The recursion has a solution.
LEMMA SumExists ==
    ASSUME NEW f, Summable(f)
    PROVE  \E g \in [SUBSET DOMAIN f -> Nat] : g = Summed(f, g)
  <1> DEFINE D == DOMAIN f
             S == [SUBSET D -> Nat]
             N == Cardinality(D)
             M == N + 1
             base == [s \in SUBSET D |-> 0]
             step == [n \in 1 .. M |-> [g \in S |-> Summed(f, g)]]
  <1>1. N \in Nat /\ M \in Nat /\ IsFiniteSet(D) /\ base \in S
    BY FS_CardinalityType DEF Summable
  <1>2. ASSUME NEW g \in S PROVE Summed(f, g) \in S
    <2>1. ASSUME NEW s \in SUBSET D, s # {}, NEW x, x = CHOOSE y \in s : TRUE
          PROVE  f[x] + g[s \ {x}] \in Nat
      <3>1. x \in D /\ s \ {x} \in SUBSET D
        BY <2>1
      <3>2. f[x] \in Nat /\ g[s \ {x}] \in Nat
        BY <1>2, <3>1 DEF Summable
      <3> QED
        BY <3>2
    <2> QED
      BY <2>1 DEF Summed
  <1>3. step \in [1 .. M -> [S -> S]]
    BY <1>2
  <1>4. PICK h \in [0 .. M -> S] : h[0] = base /\ \A n \in 1 .. M : h[n] = step[n][h[n - 1]]
    <2>1. M \in Nat /\ base \in S /\ step \in [1 .. M -> [S -> S]]
      BY <1>1, <1>3
    <2> HIDE DEF step, S, M, base
    <2>2. \E h \in [0 .. M -> S] : h[0] = base /\ \A n \in 1 .. M : h[n] = step[n][h[n - 1]]
      BY <2>1, Iteration
    <2> QED
      BY <2>2
  <1>5. \A n \in 1 .. M : h[n] = Summed(f, h[n - 1]) /\ h[n - 1] \in S
    <2> SUFFICES ASSUME NEW n \in 1 .. M PROVE h[n] = Summed(f, h[n - 1]) /\ h[n - 1] \in S
      OBVIOUS
    <2>1. n - 1 \in 0 .. M
      BY <1>1
    <2>2. step[n] = [g \in S |-> Summed(f, g)]
      OBVIOUS
    <2> HIDE DEF step, S, M
    <2>3. h[n] = step[n][h[n - 1]] /\ h[n - 1] \in S
      BY <1>4, <2>1
    <2> QED
      BY <2>2, <2>3
  <1> DEFINE Stable(m) == \A s \in SUBSET D : Cardinality(s) <= m => h[m + 1][s] = h[m][s]
             Good == { m \in Nat : m <= N => Stable(m) }
  <1> HIDE DEF step, S, M, base
  <1>6. 0 \in Good
    <2> SUFFICES ASSUME NEW s \in SUBSET D, Cardinality(s) <= 0 PROVE h[0 + 1][s] = h[0][s]
      OBVIOUS
    <2>1. s = {}
      BY <1>1, FS_Subset, FS_CardinalityType, FS_EmptySet
    <2>2. 1 \in 1 .. M /\ 1 - 1 = 0 /\ 0 + 1 = 1
      BY <1>1 DEF M
    <2>3. h[1] = Summed(f, h[1 - 1])
      BY <1>5, <2>2
    <2>4. h[1][s] = 0
      BY <2>1, <2>3 DEF Summed
    <2>5. h[0][s] = 0
      BY <1>4 DEF base
    <2> QED
      BY <2>2, <2>4, <2>5
  <1>7. ASSUME NEW m \in Nat, m \in Good PROVE m + 1 \in Good
    <2> SUFFICES ASSUME m + 1 <= N, NEW s \in SUBSET D, Cardinality(s) <= m + 1
                 PROVE  h[(m + 1) + 1][s] = h[m + 1][s]
      OBVIOUS
    <2>1. /\ m + 1 \in 1 .. M /\ (m + 1) - 1 = m /\ (m + 1) + 1 \in 1 .. M
          /\ ((m + 1) + 1) - 1 = m + 1
      BY <1>1 DEF M
    <2>2. h[m + 1] = Summed(f, h[m]) /\ h[(m + 1) + 1] = Summed(f, h[m + 1])
      BY <1>5, <2>1
    <2>3. CASE s = {}
      BY <2>2, <2>3 DEF Summed
    <2>4. CASE s # {}
      <3> DEFINE x == CHOOSE y \in s : TRUE
      <3>1. x \in s
        BY <2>4
      <3>2. h[m + 1][s] = f[x] + h[m][s \ {x}] /\ h[(m + 1) + 1][s] = f[x] + h[m + 1][s \ {x}]
        BY <2>2, <2>4 DEF Summed
      <3> HIDE DEF x
      <3>3. Cardinality(s \ {x}) <= m
        BY <1>1, <3>1, OneLess, FS_Subset
      <3>4. Stable(m)
        BY <1>1, <1>7
      <3>5. h[m + 1][s \ {x}] = h[m][s \ {x}]
        BY <3>3, <3>4
      <3> QED
        BY <3>2, <3>5
    <2> QED
      BY <2>3, <2>4
  <1>8. N \in Good
    <2>1. Nat \subseteq Good
      <3> HIDE DEF Good
      <3> QED
        BY <1>6, <1>7, NaturalsInSet
    <2> HIDE DEF Good
    <2> QED
      BY <1>1, <2>1
  <1>9. \A s \in SUBSET D : h[N + 1][s] = h[N][s]
    <2>1. ASSUME NEW s \in SUBSET D PROVE Cardinality(s) <= N
      BY <1>1, FS_Subset
    <2> QED
      BY <1>1, <1>8, <2>1
  <1>10. N + 1 \in 1 .. M /\ (N + 1) - 1 = N /\ N \in 0 .. M /\ N + 1 \in 0 .. M
    BY <1>1 DEF M
  <1>11. h[N] \in S /\ h[N + 1] \in S /\ h[N + 1] = Summed(f, h[N])
    BY <1>4, <1>5, <1>10
  <1>12. h[N + 1] = h[N]
    BY <1>9, <1>11 DEF S
  <1> QED
    BY <1>11, <1>12 DEF S

\* SumFunction solves its recursion, and the order does not matter.
LEMMA SumIsSum ==
    ASSUME NEW f, Summable(f)
    PROVE  \E g : SumsOf(f, g) /\ SumFunction(f) = g[DOMAIN f]
  <1> DEFINE D == DOMAIN f
             IsSum(g) == g = Summed(f, g)
             g == CHOOSE k : IsSum(k)
  <1>1. SumFunction(f) = g[DOMAIN f]
    BY DEF SumFunction, SumFunctionOnSet, FoldFunctionOnSet, MapThenFoldSet, Summed
  <1>2. IsSum(g)
    <2>1. \E k : IsSum(k)
      BY SumExists
    <2> HIDE DEF IsSum
    <2> QED
      BY <2>1
  <1> HIDE DEF g
  <1>3. DOMAIN g = SUBSET D /\ g = [s \in SUBSET D |-> g[s]] /\ g[{}] = 0
    <2>1. g = Summed(f, g)
      BY <1>2
    <2>2. DOMAIN g = SUBSET D /\ g = [s \in SUBSET D |-> g[s]]
      BY <2>1 DEF Summed
    <2>3. g[{}] = 0
      BY <2>1 DEF Summed
    <2> QED
      BY <2>2, <2>3
  <1>4. \A s \in SUBSET D : s # {} => \E x \in s : g[s] = f[x] + g[s \ {x}]
    <2> SUFFICES ASSUME NEW s \in SUBSET D, s # {} PROVE \E x \in s : g[s] = f[x] + g[s \ {x}]
      OBVIOUS
    <2> DEFINE x == CHOOSE y \in s : TRUE
    <2>1. x \in s
      OBVIOUS
    <2>2. g[s] = f[x] + g[s \ {x}]
      <3>1. g = Summed(f, g)
        BY <1>2
      <3> QED
        BY <3>1 DEF Summed
    <2> QED
      BY <2>1, <2>2
  <1> DEFINE Fine(m) == \A s \in SUBSET D : Cardinality(s) <= m =>
                          g[s] \in Nat /\ \A a \in s : g[s] = f[a] + g[s \ {a}]
             Good == { m \in Nat : Fine(m) }
  <1>5. IsFiniteSet(D) /\ \A s \in SUBSET D : IsFiniteSet(s) /\ Cardinality(s) \in Nat
    BY FS_Subset, FS_CardinalityType DEF Summable
  <1>6. 0 \in Good
    <2> SUFFICES ASSUME NEW s \in SUBSET D, Cardinality(s) <= 0
                 PROVE  g[s] \in Nat /\ \A a \in s : g[s] = f[a] + g[s \ {a}]
      OBVIOUS
    <2>1. s = {}
      BY <1>5, FS_EmptySet
    <2> QED
      BY <1>3, <2>1
  <1>7. ASSUME NEW m \in Nat, Fine(m) PROVE Fine(m + 1)
    <2> SUFFICES ASSUME NEW s \in SUBSET D, Cardinality(s) <= m + 1
                 PROVE  g[s] \in Nat /\ \A a \in s : g[s] = f[a] + g[s \ {a}]
      OBVIOUS
    <2>1. CASE s = {}
      BY <1>3, <2>1
    <2>2. CASE s # {}
      <3>1. PICK x \in s : g[s] = f[x] + g[s \ {x}]
        BY <1>4, <2>2
      <3>2. ASSUME NEW a \in s
            PROVE  /\ s \ {a} \in SUBSET D /\ f[a] \in Nat /\ g[s \ {a}] \in Nat
                   /\ \A b \in s \ {a} : g[s \ {a}] = f[b] + g[(s \ {a}) \ {b}]
        <4>1. Cardinality(s \ {a}) <= m
          BY <1>5, OneLess
        <4> QED
          BY <1>7, <4>1 DEF Summable
      <3>3. g[s] \in Nat
        BY <3>1, <3>2
      <3>4. ASSUME NEW a \in s PROVE g[s] = f[a] + g[s \ {a}]
        <4>1. CASE a = x
          BY <3>1, <4>1
        <4>2. CASE a # x
          <5> DEFINE r == s \ {a, x}
          <5>1. (s \ {a}) \ {x} = r /\ (s \ {x}) \ {a} = r /\ x \in s \ {a} /\ a \in s \ {x}
            BY <4>2
          <5> HIDE DEF r
          <5>2. g[s \ {a}] = f[x] + g[r] /\ g[s \ {x}] = f[a] + g[r]
            BY <3>2, <5>1
          <5>3. g[r] \in Nat /\ f[a] \in Nat /\ f[x] \in Nat
            <6>1. r \in SUBSET D /\ Cardinality(r) <= m
              <7>1. Cardinality(s \ {a}) <= m /\ r \subseteq s \ {a}
                BY <1>5, <5>1, OneLess
              <7>2. Cardinality(r) <= Cardinality(s \ {a}) /\ IsFiniteSet(s \ {a})
                BY <1>5, <7>1, FS_Subset
              <7>3. Cardinality(r) \in Nat /\ Cardinality(s \ {a}) \in Nat
                BY <1>5, <7>1
              <7> QED
                BY <7>1, <7>2, <7>3
            <6>2. g[r] \in Nat
              BY <1>7, <6>1
            <6> QED
              BY <3>2, <6>2
          <5> QED
            BY <3>1, <5>2, <5>3
        <4> QED
          BY <4>1, <4>2
      <3> QED
        BY <3>3, <3>4
    <2> QED
      BY <2>1, <2>2
  <1>8. \A m \in Nat : m \in Good => m + 1 \in Good
    <2> HIDE DEF Fine
    <2> QED
      BY <1>7
  <1>9. \A m \in Nat : Fine(m)
    <2>1. Nat \subseteq Good
      <3> HIDE DEF Good
      <3> QED
        BY <1>6, <1>8, NaturalsInSet
    <2> QED
      BY <2>1
  <1>10. \A s \in SUBSET D : g[s] \in Nat /\ \A a \in s : g[s] = f[a] + g[s \ {a}]
    <2> SUFFICES ASSUME NEW s \in SUBSET D
                 PROVE  g[s] \in Nat /\ \A a \in s : g[s] = f[a] + g[s \ {a}]
      OBVIOUS
    <2>1. Cardinality(s) \in Nat /\ Cardinality(s) <= Cardinality(s)
      BY <1>5
    <2> QED
      BY <1>9, <2>1
  <1>11. g \in [SUBSET D -> Nat]
    BY <1>3, <1>10
  <1>12. SumsOf(f, g)
    BY <1>3, <1>10, <1>11 DEF SumsOf
  <1> QED
    BY <1>1, <1>12

\* Sums over the same indices of functions that agree there.
LEMMA SumsAgree ==
    ASSUME NEW f, Summable(f), NEW g, SumsOf(f, g), NEW e, NEW h, SumsOf(e, h),
           NEW S, S \subseteq DOMAIN f, S \subseteq DOMAIN e, \A x \in S : f[x] = e[x]
    PROVE  g[S] = h[S]
  <1> DEFINE Same(m) == \A s \in SUBSET S : Cardinality(s) <= m => g[s] = h[s]
             Good == { m \in Nat : Same(m) }
  <1>1. IsFiniteSet(S) /\ \A s \in SUBSET S : IsFiniteSet(s) /\ Cardinality(s) \in Nat
    <2>1. IsFiniteSet(S)
      BY FS_Subset DEF Summable
    <2> QED
      BY <2>1, FS_Subset, FS_CardinalityType
  <1>2. 0 \in Good
    <2> SUFFICES ASSUME NEW s \in SUBSET S, Cardinality(s) <= 0 PROVE g[s] = h[s]
      OBVIOUS
    <2>1. s = {}
      BY <1>1, FS_EmptySet
    <2> QED
      BY <2>1 DEF SumsOf
  <1>3. ASSUME NEW m \in Nat, Same(m) PROVE Same(m + 1)
    <2> SUFFICES ASSUME NEW s \in SUBSET S, Cardinality(s) <= m + 1 PROVE g[s] = h[s]
      OBVIOUS
    <2>1. CASE s = {}
      BY <2>1 DEF SumsOf
    <2>2. CASE s # {}
      <3>1. PICK a \in s : TRUE
        BY <2>2
      <3>2. g[s] = f[a] + g[s \ {a}] /\ h[s] = e[a] + h[s \ {a}]
        <4>1. s \in SUBSET DOMAIN f /\ s \in SUBSET DOMAIN e
          OBVIOUS
        <4> QED
          BY <3>1, <4>1 DEF SumsOf
      <3>3. Cardinality(s \ {a}) <= m /\ s \ {a} \in SUBSET S
        BY <1>1, <3>1, OneLess
      <3>4. g[s \ {a}] = h[s \ {a}] /\ f[a] = e[a]
        BY <1>3, <3>1, <3>3
      <3> QED
        BY <3>2, <3>4
    <2> QED
      BY <2>1, <2>2
  <1>4. \A m \in Nat : m \in Good => m + 1 \in Good
    <2> HIDE DEF Same
    <2> QED
      BY <1>3
  <1>5. Nat \subseteq Good
    <2> HIDE DEF Good
    <2> QED
      BY <1>2, <1>4, NaturalsInSet
  <1>6. Same(Cardinality(S))
    <2> HIDE DEF Same
    <2> QED
      BY <1>1, <1>5
  <1> QED
    BY <1>1, <1>6

\* A sum is a number, and one of its terms can be taken out.
LEMMA SumWithout ==
    ASSUME NEW f, Summable(f), NEW a \in DOMAIN f, NEW e, DOMAIN e = DOMAIN f \ {a},
           \A x \in DOMAIN e : e[x] = f[x]
    PROVE  /\ SumFunction(f) = f[a] + SumFunction(e)
           /\ SumFunction(f) \in Nat /\ SumFunction(e) \in Nat /\ f[a] \in Nat
  <1>1. Summable(e)
    BY FS_RemoveElement DEF Summable
  <1>2. PICK g : SumsOf(f, g) /\ SumFunction(f) = g[DOMAIN f]
    BY SumIsSum
  <1>3. PICK h : SumsOf(e, h) /\ SumFunction(e) = h[DOMAIN e]
    BY <1>1, SumIsSum
  <1>4. g[DOMAIN f] = f[a] + g[DOMAIN f \ {a}]
    BY <1>2 DEF SumsOf
  <1>5. g[DOMAIN e] = h[DOMAIN e]
    BY <1>2, <1>3, SumsAgree
  <1>6. g[DOMAIN f] \in Nat /\ h[DOMAIN e] \in Nat /\ f[a] \in Nat
    BY <1>2, <1>3 DEF SumsOf, Summable
  <1> QED
    BY <1>2, <1>3, <1>4, <1>5, <1>6

LEMMA SumType ==
    ASSUME NEW f, Summable(f)
    PROVE  SumFunction(f) \in Nat
  <1>1. PICK g : SumsOf(f, g) /\ SumFunction(f) = g[DOMAIN f]
    BY SumIsSum
  <1> QED
    BY <1>1 DEF SumsOf

\* One term of a sum is changed.
LEMMA SumChange ==
    ASSUME NEW f, Summable(f), NEW a \in DOMAIN f, NEW e, DOMAIN e = DOMAIN f, e[a] \in Nat,
           \A x \in DOMAIN f \ {a} : e[x] = f[x]
    PROVE  /\ SumFunction(e) + f[a] = SumFunction(f) + e[a]
           /\ SumFunction(e) \in Nat /\ SumFunction(f) \in Nat /\ f[a] \in Nat
           /\ f[a] <= SumFunction(f)
  <1> DEFINE r == [x \in DOMAIN f \ {a} |-> f[x]]
  <1>1. Summable(e)
    BY DEF Summable
  <1>2. DOMAIN r = DOMAIN f \ {a} /\ \A x \in DOMAIN r : r[x] = f[x] /\ r[x] = e[x]
    OBVIOUS
  <1> HIDE DEF r
  <1>3. SumFunction(f) = f[a] + SumFunction(r) /\ SumFunction(f) \in Nat /\ SumFunction(r) \in Nat /\ f[a] \in Nat
    BY <1>2, SumWithout
  <1>4. SumFunction(e) = e[a] + SumFunction(r) /\ SumFunction(e) \in Nat
    BY <1>1, <1>2, SumWithout
  <1> QED
    BY <1>3, <1>4

\* Nothing adds up to nothing.
LEMMA SumOfZeros ==
    ASSUME NEW f, IsFiniteSet(DOMAIN f), \A x \in DOMAIN f : f[x] = 0
    PROVE  SumFunction(f) = 0
  <1> DEFINE h == [s \in SUBSET DOMAIN f |-> 0]
  <1>1. Summable(f)
    BY DEF Summable
  <1>2. SumsOf(f, h)
    BY DEF SumsOf
  <1>3. PICK g : SumsOf(f, g) /\ SumFunction(f) = g[DOMAIN f]
    BY <1>1, SumIsSum
  <1>4. h[DOMAIN f] = 0
    OBVIOUS
  <1> HIDE DEF h
  <1>5. g[DOMAIN f] = h[DOMAIN f]
    BY <1>1, <1>2, <1>3, SumsAgree
  <1> QED
    BY <1>3, <1>4, <1>5
=============================================================================
