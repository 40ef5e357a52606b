----------------------------- MODULE NatLemmas ------------------------------
(***************************************************************************)
(* What the proofs need of numbers and finite sets: integer division, the  *)
(* size of unions and images, least elements, induction, the list of a     *)
(* finite set's elements in an order, and sums of sequences. The library's *)
(* induction theorems have an operator parameter, which the provers do not *)
(* instantiate; here the set of the numbers that have a property stands    *)
(* for the property.                                                       *)
(***************************************************************************)
EXTENDS Integers, FiniteSetsExt, FiniteSetTheorems, TLAPS

\* Division rounds down: one more period than fit is past the end.
LEMMA OneMorePeriod ==
  ASSUME NEW d \in Nat, NEW p \in Nat \ {0}
  PROVE  /\ d \div p \in Nat
         /\ p * ((d \div p) + 1) \in Nat
         /\ p * ((d \div p) + 1) > d
         /\ p * (d \div p) <= d
  <1>1. d \div p \in Nat
    BY SMT
  <1>2. p * (d \div p) <= d
    BY SMT
  <1>3. d < p * ((d \div p) + 1)
    BY SMT
  <1> QED
    BY <1>1, <1>2, <1>3

\* A multiple leaves no remainder.
LEMMA MultipleDivides ==
  ASSUME NEW p \in Nat \ {0}, NEW k \in Nat
  PROVE  p * k \in Nat /\ (p * k) % p = 0
  <1>1. p * k \in Nat
    BY SMT
  <1> DEFINE x == p * k
             q == x \div p
  <1>2. q \in Nat /\ p * q <= x /\ x < p * (q + 1) /\ x % p = x - p * q
    BY <1>1, SMT
  <1>3. q = k
    <2>1. ~(q < k)
      BY <1>2, SMT
    <2>2. ~(k < q)
      BY <1>2, SMT
    <2> QED
      BY <1>2, <2>1, <2>2
  <1>4. x % p = x - x
    <2> HIDE DEF x, q
    <2>1. x % p = x - p * k
      BY <1>2, <1>3
    <2> QED
      BY <2>1 DEF x
  <1> QED
    <2>1. x - x = 0
      BY <1>1, SMT
    <2> QED
      BY <1>1, <1>4, <2>1

\* A union and an image are no larger than what they are made of.
LEMMA UnionIsNoLarger ==
  ASSUME NEW S, NEW T, IsFiniteSet(S), IsFiniteSet(T)
  PROVE  /\ IsFiniteSet(S \cup T)
         /\ Cardinality(S \cup T) <= Cardinality(S) + Cardinality(T)
  <1>1. /\ IsFiniteSet(S \cup T)
        /\ Cardinality(S \cup T) = Cardinality(S) + Cardinality(T) - Cardinality(S \cap T)
    BY FS_Union
  <1>2. IsFiniteSet(S \cap T)
    BY FS_Intersection
  <1>3. Cardinality(S) \in Nat /\ Cardinality(T) \in Nat /\ Cardinality(S \cap T) \in Nat
    BY <1>2, FS_CardinalityType
  <1> QED
    BY <1>1, <1>3

LEMMA ImageIsNoLarger ==
  ASSUME NEW f, IsFiniteSet(DOMAIN f), f = [x \in DOMAIN f |-> f[x]]
  PROVE  /\ IsFiniteSet({f[x] : x \in DOMAIN f})
         /\ Cardinality({f[x] : x \in DOMAIN f}) <= Cardinality(DOMAIN f)
  <1> DEFINE T == {f[x] : x \in DOMAIN f}
  <1>1. f \in Surjection(DOMAIN f, T)
    BY DEF Surjection
  <1> QED
    BY <1>1, FS_Surjection

\* A set of natural numbers has a least element: the initial segments its
\* elements end are finite sets, and inclusion of finite sets is well founded.
LEMMA LeastElement ==
  ASSUME NEW S \in SUBSET Nat, S # {}
  PROVE  \E m \in S : \A n \in S : m <= n
  <1> DEFINE T == {0..n : n \in S}
             R == StrictSubsetOrdering(Nat)
  <1>1. T \subseteq FiniteSubsetsOf(Nat)
    <2> SUFFICES ASSUME NEW n \in S PROVE 0..n \in FiniteSubsetsOf(Nat)
      OBVIOUS
    <2>1. IsFiniteSet(0..n)
      BY FS_Interval
    <2> QED
      BY <2>1 DEF FiniteSubsetsOf
  <1>2. IsWellFoundedOn(R, FiniteSubsetsOf(Nat))
    BY FS_StrictSubsetOrderingWellFounded
  <1>3. \E x \in T : \A y \in T : ~ (<<y, x>> \in R)
    <2> HIDE DEF T, R
    <2>1. T # {}
      BY DEF T
    <2> QED
      BY <1>1, <1>2, <2>1, WFMin
  <1>4. PICK m \in S : \A n \in S : <<0..n, 0..m>> \notin R
    BY <1>3
  <1> SUFFICES ASSUME NEW n \in S, ~(m <= n) PROVE FALSE
    BY <1>4
  <1>5. 0..n \subseteq 0..m /\ 0..n # 0..m /\ 0..n \subseteq Nat /\ 0..m \subseteq Nat
    <2>1. m \in 0..m /\ m \notin 0..n
      OBVIOUS
    <2> QED
      BY <2>1
  <1> QED
    BY <1>4, <1>5 DEF StrictSubsetOrdering

\* A set that has zero, and with a number its successor, has all numbers.
LEMMA Induction ==
  ASSUME NEW S, 0 \in S, \A n \in Nat : n \in S => n + 1 \in S
  PROVE  Nat \subseteq S
  <1> SUFFICES ASSUME Nat \ S # {} PROVE FALSE
    OBVIOUS
  <1>1. PICK m \in Nat \ S : \A n \in Nat \ S : m <= n
    BY LeastElement
  <1>2. m # 0 /\ m - 1 \in Nat /\ m - 1 \in S
    BY <1>1
  <1> QED
    BY <1>1, <1>2

\* A set of numbers with a bound has a greatest element: its least bound.
LEMMA GreatestElement ==
  ASSUME NEW n \in Nat, NEW S \in SUBSET (0..n), S # {}
  PROVE  \E m \in S : \A x \in S : m >= x
  <1> DEFINE T == {b \in Nat : \A x \in S : b >= x}
  <1>1. n \in T
    OBVIOUS
  <1>2. PICK b \in T : \A c \in T : b <= c
    <2> HIDE DEF T
    <2>1. T \in SUBSET Nat /\ T # {}
      BY <1>1 DEF T
    <2> QED
      BY <2>1, LeastElement
  <1>3. ASSUME b \notin S PROVE FALSE
    <2>1. PICK x \in S : TRUE
      OBVIOUS
    <2>2. b - 1 \in Nat
      BY <1>2, <1>3, <2>1
    <2>3. b - 1 \in T
      BY <1>2, <1>3, <2>2
    <2> QED
      BY <1>2, <2>3
  <1> QED
    BY <1>2, <1>3

\* A finite set that R orders can be listed in that order: an element's place
\* in the list is one more than the number of elements before it.
Orders(R, S) ==
  /\ \A x \in S : <<x, x>> \notin R
  /\ \A x, y \in S : x = y \/ <<x, y>> \in R \/ <<y, x>> \in R
  /\ \A x, y, z \in S : <<x, y>> \in R /\ <<y, z>> \in R => <<x, z>> \in R

Lists(s, S, R) ==
  /\ s \in [1..Cardinality(S) -> S]
  /\ \A i, j \in 1..Cardinality(S) : i < j => <<s[i], s[j]>> \in R
  /\ \A i, j \in 1..Cardinality(S) : i # j => s[i] # s[j]
  /\ \A x \in S : \E i \in 1..Cardinality(S) : s[i] = x

LEMMA OrderedList ==
  ASSUME NEW S, IsFiniteSet(S), NEW R, Orders(R, S)
  PROVE  \E s : Lists(s, S, R)
  <1>0. /\ \A x \in S : <<x, x>> \notin R
        /\ \A x, y \in S : x = y \/ <<x, y>> \in R \/ <<y, x>> \in R
        /\ \A x, y, z \in S : <<x, y>> \in R /\ <<y, z>> \in R => <<x, z>> \in R
    BY DEF Orders
  <1> DEFINE Before(x) == {y \in S : <<y, x>> \in R}
             n == Cardinality(S)
             rank == [x \in S |-> Cardinality(Before(x)) + 1]
  <1>1. n \in Nat
    BY FS_CardinalityType
  <1>2. ASSUME NEW x \in S
        PROVE  /\ IsFiniteSet(Before(x)) /\ Cardinality(Before(x)) \in Nat
               /\ Cardinality(Before(x)) < n
    <2>1. Before(x) \in SUBSET S /\ Before(x) # S
      BY <1>0
    <2>2. IsFiniteSet(Before(x)) /\ Cardinality(Before(x)) <= n /\ Cardinality(Before(x)) # n
      <3> HIDE DEF Before
      <3> QED
        BY <2>1, FS_Subset
    <2>3. Cardinality(Before(x)) \in Nat
      BY <2>2, FS_CardinalityType
    <2> QED
      BY <1>1, <2>2, <2>3
  <1>3. ASSUME NEW x \in S, NEW y \in S, <<x, y>> \in R
        PROVE  rank[x] < rank[y]
    <2>1. Before(x) \in SUBSET Before(y) /\ x \in Before(y) /\ x \notin Before(x)
      BY <1>0, <1>3
    <2>2. Cardinality(Before(x)) <= Cardinality(Before(y))
          /\ Cardinality(Before(y)) # Cardinality(Before(x))
      <3>1. IsFiniteSet(Before(y)) /\ Before(x) # Before(y)
        BY <1>2, <2>1
      <3> HIDE DEF Before
      <3> QED
        BY <2>1, <3>1, FS_Subset
    <2>3. Cardinality(Before(x)) < Cardinality(Before(y))
      <3>1. Cardinality(Before(x)) \in Nat /\ Cardinality(Before(y)) \in Nat
        BY <1>2
      <3> HIDE DEF Before
      <3> QED
        BY <2>2, <3>1
    <2>4. /\ rank[x] = Cardinality(Before(x)) + 1 /\ rank[y] = Cardinality(Before(y)) + 1
          /\ Cardinality(Before(x)) \in Nat /\ Cardinality(Before(y)) \in Nat
      BY <1>2
    <2> HIDE DEF Before, rank
    <2> QED
      BY <2>3, <2>4
  <1>4. rank \in [S -> 1..n]
    <2>1. ASSUME NEW x \in S PROVE Cardinality(Before(x)) + 1 \in 1..n
      <3>1. Cardinality(Before(x)) \in Nat /\ Cardinality(Before(x)) < n
        BY <1>2
      <3> HIDE DEF Before
      <3> QED
        BY <1>1, <3>1
    <2> HIDE DEF Before, n
    <2> QED
      BY <2>1
  <1> HIDE DEF rank
  <1>5. rank \in Injection(S, 1..n)
    <2>1. ASSUME NEW x \in S, NEW y \in S, rank[x] = rank[y] PROVE x = y
      <3>1. rank[x] \in Int /\ rank[y] \in Int
        BY <1>4
      <3>2. ~(<<x, y>> \in R) /\ ~(<<y, x>> \in R)
        BY <1>3, <2>1, <3>1
      <3> QED
        BY <1>0, <3>2
    <2> QED
      BY <1>4, <2>1 DEF Injection, IsInjective
  <1>6. rank \in Surjection(S, 1..n)
    <2>1. IsFiniteSet(1..n) /\ Cardinality(1..n) = n
      BY <1>1, FS_Interval
    <2> QED
      BY <1>5, <2>1, FS_Injection
  <1>7. \A i \in 1..n : \E x \in S : rank[x] = i
    BY <1>6 DEF Surjection
  <1> DEFINE s == [i \in 1..n |-> CHOOSE x \in S : rank[x] = i]
  <1>8. \A i \in 1..n : s[i] \in S /\ rank[s[i]] = i
    BY <1>7
  <1>9. s \in [1..n -> S]
    BY <1>8
  <1> HIDE DEF s
  <1>10. ASSUME NEW i \in 1..n, NEW j \in 1..n, i < j PROVE <<s[i], s[j]>> \in R
    <2>1. s[i] \in S /\ s[j] \in S /\ rank[s[i]] = i /\ rank[s[j]] = j
      BY <1>8
    <2>2. s[i] # s[j]
      BY <1>10, <2>1
    <2>3. ~(<<s[j], s[i]>> \in R)
      BY <1>3, <1>10, <2>1
    <2> QED
      BY <1>0, <2>1, <2>2, <2>3
  <1>11. ASSUME NEW x \in S PROVE \E i \in 1..n : s[i] = x
    <2>1. rank[x] \in 1..n
      BY <1>4
    <2>2. s[rank[x]] \in S /\ rank[s[rank[x]]] = rank[x]
      BY <1>8, <2>1
    <2>3. s[rank[x]] = x
      BY <1>5, <2>2 DEF Injection, IsInjective
    <2> QED
      BY <2>1, <2>3
  <1>12. ASSUME NEW i \in 1..n, NEW j \in 1..n, i # j PROVE s[i] # s[j]
    BY <1>8, <1>12
  <1>13. Lists(s, S, R)
    BY <1>9, <1>10, <1>11, <1>12 DEF Lists
  <1> QED
    BY <1>13

LEMMA MaxIsGreatest ==
  ASSUME NEW n \in Nat, NEW s \in SUBSET (1..n), s # {}
  PROVE  Max(s) \in s /\ \A x \in s : Max(s) >= x
  <1>1. s \in SUBSET (0..n)
    OBVIOUS
  <1>2. \E m \in s : \A x \in s : m >= x
    BY <1>1, GreatestElement
  <1> QED
    BY <1>2 DEF Max

-----------------------------------------------------------------------------
(* FoldLeft adds up a sequence by way of a function on the subsets of its   *)
(* domain: h is that function for the numbers v[1], ..., v[n].              *)

IsSum(h, v, n) ==
  h = [s \in SUBSET (1..n) |-> IF s = {} THEN 0 ELSE h[s \ {Max(s)}] + v[Max(s)]]

LEMMA SumExists ==
  ASSUME NEW v
  PROVE  \A n \in Nat : \E h : IsSum(h, v, n)
  <1> DEFINE S == {n \in Nat : \E h : IsSum(h, v, n)}
  <1>1. 0 \in S
    <2>1. IsSum([s \in SUBSET (1..0) |-> 0], v, 0)
      BY DEF IsSum
    <2> QED
      BY <2>1
  <1>2. ASSUME NEW n \in Nat, n \in S PROVE n + 1 \in S
    <2>1. PICK h : IsSum(h, v, n)
      BY <1>2
    <2> DEFINE g == [s \in SUBSET (1..(n + 1)) |->
                       IF n + 1 \in s THEN h[s \ {n + 1}] + v[n + 1] ELSE h[s]]
    <2>2. ASSUME NEW s \in SUBSET (1..(n + 1))
          PROVE  g[s] = IF s = {} THEN 0 ELSE g[s \ {Max(s)}] + v[Max(s)]
      <3>1. CASE s = {}
        BY <2>1, <3>1 DEF IsSum
      <3>2. CASE n + 1 \in s
        <4>1. Max(s) = n + 1
          <5>1. Max(s) \in s /\ \A x \in s : Max(s) >= x
            <6>1. n + 1 \in Nat /\ s # {}
              BY <3>2
            <6> QED
              BY <6>1, MaxIsGreatest
          <5> HIDE DEF g
          <5>2. Max(s) \in 1..(n + 1) /\ Max(s) >= n + 1
            BY <3>2, <5>1
          <5> QED
            BY <5>2
        <4>2. s \ {n + 1} \in SUBSET (1..n) /\ n + 1 \notin s \ {n + 1}
          OBVIOUS
        <4> QED
          BY <3>2, <4>1, <4>2
      <3>3. CASE s # {} /\ n + 1 \notin s
        <4>1. s \in SUBSET (1..n)
          BY <3>3
        <4>2. Max(s) \in s
          BY <3>3, MaxIsGreatest
        <4>3. h[s] = h[s \ {Max(s)}] + v[Max(s)]
          BY <2>1, <3>3, <4>1 DEF IsSum
        <4> QED
          BY <3>3, <4>2, <4>3
      <3> QED
        BY <3>1, <3>2, <3>3
    <2>3. IsSum(g, v, n + 1)
      BY <2>2 DEF IsSum
    <2> QED
      BY <2>3
  <1> HIDE DEF S
  <1>3. Nat \subseteq S
    BY <1>1, <1>2, Induction
  <1> QED
    BY <1>3 DEF S

\* The sum of the first k numbers depends on these numbers alone.
LEMMA SumOfPrefix ==
  ASSUME NEW m \in Nat, NEW n \in Nat, m <= n,
         NEW v, NEW w, \A i \in 1..m : v[i] = w[i] /\ v[i] \in Nat,
         NEW h, IsSum(h, v, m), NEW g, IsSum(g, w, n)
  PROVE  h[1..m] = g[1..m] /\ h[1..m] \in Nat
  <1> DEFINE S == {k \in Nat : k <= m => h[1..k] = g[1..k] /\ h[1..k] \in Nat}
  <1>1. 0 \in S
    <2>1. 1..0 = {}
      OBVIOUS
    <2>2. h[{}] = 0 /\ g[{}] = 0
      BY DEF IsSum
    <2> QED
      BY <2>1, <2>2
  <1>2. ASSUME NEW k \in Nat, k \in S PROVE k + 1 \in S
    <2> SUFFICES ASSUME k + 1 <= m
                 PROVE  h[1..(k + 1)] = g[1..(k + 1)] /\ h[1..(k + 1)] \in Nat
      OBVIOUS
    <2> DEFINE s == 1..(k + 1)
    <2>1. s \in SUBSET (1..m) /\ s \in SUBSET (1..n) /\ s # {} /\ s \ {k + 1} = 1..k
      OBVIOUS
    <2>2. Max(s) = k + 1
      <3> HIDE DEF s
      <3>1. Max(s) \in s /\ \A x \in s : Max(s) >= x
        BY <2>1, MaxIsGreatest
      <3> QED
        BY <3>1 DEF s
    <2> HIDE DEF s
    <2>3. h[s] = h[1..k] + v[k + 1] /\ g[s] = g[1..k] + w[k + 1]
      BY <2>1, <2>2 DEF IsSum
    <2>4. h[1..k] = g[1..k] /\ h[1..k] \in Nat /\ v[k + 1] = w[k + 1] /\ v[k + 1] \in Nat
      BY <1>2
    <2> QED
      BY <2>3, <2>4 DEF s
  <1> HIDE DEF S
  <1>3. m \in S
    BY <1>1, <1>2, Induction
  <1> QED
    BY <1>3 DEF S

\* One number more.
LEMMA SumGrows ==
  ASSUME NEW n \in Nat, NEW v, NEW w, \A i \in 1..n : v[i] = w[i] /\ v[i] \in Nat,
         NEW h, IsSum(h, v, n), NEW g, IsSum(g, w, n + 1)
  PROVE  h[1..n] \in Nat /\ g[1..(n + 1)] = h[1..n] + w[n + 1]
  <1>1. n + 1 \in Nat /\ n <= n + 1
    OBVIOUS
  <1>2. h[1..n] = g[1..n] /\ h[1..n] \in Nat
    BY <1>1, SumOfPrefix
  <1> DEFINE s == 1..(n + 1)
  <1>3. s \in SUBSET (1..(n + 1)) /\ s # {} /\ s \ {n + 1} = 1..n
    OBVIOUS
  <1>4. Max(s) = n + 1
    <2>1. n + 1 \in s /\ \A x \in s : x <= n + 1 /\ x \in Nat
      OBVIOUS
    <2> HIDE DEF s
    <2>2. Max(s) \in s /\ \A x \in s : Max(s) >= x
      BY <1>1, <1>3, MaxIsGreatest
    <2> QED
      BY <2>1, <2>2
  <1> HIDE DEF s
  <1>5. g[s] = g[1..n] + w[n + 1]
    <2>1. \A t \in SUBSET (1..(n + 1)) : t # {} => g[t] = g[t \ {Max(t)}] + w[Max(t)]
      BY DEF IsSum
    <2> QED
      BY <1>3, <1>4, <2>1
  <1> QED
    BY <1>2, <1>5 DEF s

LEMMA SumIsNat ==
  ASSUME NEW n \in Nat, NEW v, \A i \in 1..n : v[i] \in Nat, NEW h, IsSum(h, v, n)
  PROVE  h[1..n] \in Nat
  <1>1. n <= n
    OBVIOUS
  <1> QED
    BY <1>1, SumOfPrefix
=============================================================================
