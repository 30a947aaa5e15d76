----------------------------- MODULE NumberLemmas -----------------------------
(***************************************************************************)
(* Facts about natural numbers, sums and recursive functions that the      *)
(* proofs about the grid, the masks and the exported numbers rest on.      *)
(* Induction over data is by sets: a set of numbers that holds zero, and   *)
(* with each number the next, holds all.                                   *)
(***************************************************************************)
EXTENDS Integers, FiniteSets, Functions, FiniteSetTheorems, WellFoundedInduction, TLAPS

\* The least interval that ends outside of the set would end at zero.
LEMMA SetInduction ==
  ASSUME NEW S, 0 \in S, \A n \in S : n + 1 \in S
  PROVE  Nat \subseteq S
<1> SUFFICES ASSUME NEW n \in Nat, n \notin S PROVE FALSE
  OBVIOUS
<1> DEFINE Missing == {0 .. k : k \in Nat \ S}
<1>1. \A k \in Nat : 0 .. k \subseteq Nat /\ IsFiniteSet(0 .. k)
  BY FS_Interval
<1>2. Missing \subseteq FiniteSubsetsOf(Nat) /\ Missing # {}
  BY <1>1 DEF FiniteSubsetsOf
<1>3. PICK X \in Missing : \A Y \in Missing : ~(<<Y, X>> \in StrictSubsetOrdering(Nat))
  BY <1>2, FS_StrictSubsetOrderingWellFounded, WFMin
<1>4. PICK m \in Nat \ S : X = 0 .. m
  BY <1>3
<1>5. m # 0 /\ m - 1 \in Nat
  BY <1>4
<1>6. m - 1 \notin S
  BY <1>4, <1>5
<1>7. 0 .. m - 1 \in Missing
  BY <1>5, <1>6
<1>8. <<0 .. m - 1, 0 .. m>> \in StrictSubsetOrdering(Nat)
  BY <1>5 DEF StrictSubsetOrdering
<1> QED
  BY <1>3, <1>4, <1>7, <1>8

LEMMA LeastElement ==
  ASSUME NEW S \in SUBSET Nat, S # {}
  PROVE  \E m \in S : \A k \in S : m <= k
<1> SUFFICES ASSUME \A m \in S : \E k \in S : k < m
             PROVE  FALSE
  OBVIOUS
<1> DEFINE Below == {n \in Nat : \A k \in S : n < k}
<1>1. 0 \in Below
  OBVIOUS
<1>2. ASSUME NEW n \in Below
      PROVE  n + 1 \in Below
  <2>1. ASSUME NEW k \in S
        PROVE  n + 1 < k
    <3>1. PICK j \in S : j < k
      OBVIOUS
    <3> QED
      BY <3>1
  <2> QED
    BY <2>1
<1>3. Nat \subseteq Below
  <2> HIDE DEF Below
  <2> QED
    BY <1>1, <1>2, SetInduction
<1>4. PICK k \in S : TRUE
  OBVIOUS
<1> QED
  BY <1>3, <1>4

\* By the number of elements: one is taken away, and is the greatest or is not.
LEMMA GreatestElement ==
  ASSUME NEW S \in SUBSET Nat, S # {}, IsFiniteSet(S)
  PROVE  \E m \in S : \A k \in S : m >= k
<1> DEFINE HasGreatest(T) == \E m \in T : \A k \in T : m >= k
           Known == {n \in Nat : \A T \in SUBSET Nat :
                       IsFiniteSet(T) /\ Cardinality(T) = n => T = {} \/ HasGreatest(T)}
<1>1. 0 \in Known
  BY FS_EmptySet
<1>2. ASSUME NEW n \in Known
      PROVE  n + 1 \in Known
  <2> SUFFICES ASSUME NEW T \in SUBSET Nat, IsFiniteSet(T), Cardinality(T) = n + 1, T # {}
               PROVE  HasGreatest(T)
    OBVIOUS
  <2>1. PICK x \in T : TRUE
    OBVIOUS
  <2>2. /\ IsFiniteSet(T \ {x}) /\ Cardinality(T \ {x}) = n
        /\ T \ {x} \in SUBSET Nat
    <3>1. IsFiniteSet(T \ {x}) /\ Cardinality(T \ {x}) = Cardinality(T) - 1
      BY <2>1, FS_RemoveElement
    <3> QED
      BY <3>1
  <2>3. T \ {x} = {} \/ HasGreatest(T \ {x})
    BY <2>2
  <2>4. CASE T \ {x} = {}
    BY <2>1, <2>4
  <2>5. CASE HasGreatest(T \ {x})
    <3>1. PICK m \in T \ {x} : \A k \in T \ {x} : m >= k
      BY <2>5
    <3>2. CASE m >= x
      BY <3>1, <3>2
    <3>3. CASE ~(m >= x)
      <4>1. \A k \in T : x >= k
        BY <2>1, <3>1, <3>3
      <4> QED
        BY <2>1, <4>1
    <3> QED
      BY <3>2, <3>3
  <2> QED
    BY <2>3, <2>4, <2>5
<1>3. Nat \subseteq Known
  <2> HIDE DEF Known
  <2> QED
    BY <1>1, <1>2, SetInduction
<1>4. Cardinality(S) \in Known
  BY <1>3, FS_CardinalityType
<1> QED
  BY <1>4

-----------------------------------------------------------------------------
(***************************************************************************)
(* Sums.  SumFunction adds the values in an order that CHOOSE picks.       *)
(***************************************************************************)
Pick(s) == CHOOSE x \in s : TRUE

\* A function that knows the sum over each subset.
Sums(sum, S, f) ==
  /\ sum \in [SUBSET S -> Nat]
  /\ \A s \in SUBSET S : sum[s] = IF s = {} THEN 0 ELSE f[Pick(s)] + sum[s \ {Pick(s)}]

LEMMA Smaller ==
  ASSUME NEW S, IsFiniteSet(S), NEW s \in SUBSET S
  PROVE  /\ IsFiniteSet(s) /\ Cardinality(s) \in Nat /\ Cardinality(s) <= Cardinality(S)
         /\ Cardinality(s) = 0 <=> s = {}
         /\ \A x \in s : s \ {x} \in SUBSET S /\ Cardinality(s \ {x}) = Cardinality(s) - 1
         /\ s # {} => Pick(s) \in s
<1>1. IsFiniteSet(s) /\ Cardinality(s) <= Cardinality(S)
  BY FS_Subset
<1>2. Cardinality(s) \in Nat
  BY <1>1, FS_CardinalityType
<1>3. Cardinality(s) = 0 <=> s = {}
  BY <1>1, FS_EmptySet
<1>4. \A x \in s : s \ {x} \in SUBSET S /\ Cardinality(s \ {x}) = Cardinality(s) - 1
  BY <1>1, FS_RemoveElement
<1>5. s # {} => Pick(s) \in s
  BY DEF Pick
<1> QED
  BY <1>1, <1>2, <1>3, <1>4, <1>5

LEMMA SumsExist ==
  ASSUME NEW S, IsFiniteSet(S), NEW f \in [S -> Nat]
  PROVE  \E sum : Sums(sum, S, f)
<1> DEFINE Body(sum, s) == IF s = {} THEN 0 ELSE f[Pick(s)] + sum[s \ {Pick(s)}]
           Upto(sum, n) == /\ sum \in [SUBSET S -> Nat]
                           /\ \A s \in SUBSET S : Cardinality(s) <= n => sum[s] = Body(sum, s)
           Known == {n \in Nat : \E sum : Upto(sum, n)}
<1>1. 0 \in Known
  <2> DEFINE none == [s \in SUBSET S |-> 0]
  <2>1. Upto(none, 0)
    BY Smaller
  <2> QED
    BY <2>1
<1>2. ASSUME NEW n \in Known
      PROVE  n + 1 \in Known
  <2>1. PICK sum : Upto(sum, n)
    OBVIOUS
  <2> DEFINE more == [s \in SUBSET S |-> Body(sum, s)]
  <2>2. more \in [SUBSET S -> Nat]
    BY <2>1, Smaller
  <2>3. ASSUME NEW s \in SUBSET S, Cardinality(s) <= n
        PROVE  more[s] = sum[s]
    BY <2>1, <2>3
  <2>4. ASSUME NEW s \in SUBSET S, Cardinality(s) <= n + 1
        PROVE  more[s] = Body(more, s)
    <3>1. CASE s = {}
      BY <3>1
    <3>2. CASE s # {}
      <4>1. s \ {Pick(s)} \in SUBSET S /\ Cardinality(s \ {Pick(s)}) <= n
        BY <2>4, <3>2, Smaller
      <4>2. more[s \ {Pick(s)}] = sum[s \ {Pick(s)}]
        BY <2>3, <4>1
      <4> QED
        BY <3>2, <4>2
    <3> QED
      BY <3>1, <3>2
  <2>5. Upto(more, n + 1)
    BY <2>2, <2>4
  <2> HIDE DEF Upto, more
  <2> QED
    BY <2>5
<1>3. Nat \subseteq Known
  <2> HIDE DEF Known
  <2> QED
    BY <1>1, <1>2, SetInduction
<1>4. Cardinality(S) \in Known
  BY <1>3, FS_CardinalityType
<1>5. PICK sum : Upto(sum, Cardinality(S))
  BY <1>4
<1>6. \A s \in SUBSET S : Cardinality(s) <= Cardinality(S)
  BY Smaller
<1>7. Sums(sum, S, f)
  BY <1>5, <1>6, Zenon DEF Sums
<1> QED
  BY <1>7

\* Any element may be taken away first.
InAnyOrder(sum, S, f) ==
  \A s \in SUBSET S : \A x \in s : sum[s] = f[x] + sum[s \ {x}]

LEMMA SumsRemove ==
  ASSUME NEW S, IsFiniteSet(S), NEW f \in [S -> Nat], NEW sum, Sums(sum, S, f)
  PROVE  InAnyOrder(sum, S, f)
<1> DEFINE Known == {n \in Nat : \A s \in SUBSET S : Cardinality(s) = n =>
                       \A x \in s : sum[s] = f[x] + sum[s \ {x}]}
<1>1. 0 \in Known
  BY Smaller
<1>2. ASSUME NEW n \in Known
      PROVE  n + 1 \in Known
  <2> SUFFICES ASSUME NEW s \in SUBSET S, Cardinality(s) = n + 1, NEW x \in s
               PROVE  sum[s] = f[x] + sum[s \ {x}]
    OBVIOUS
  <2> DEFINE p == Pick(s)
  <2>1. p \in s /\ sum[s] = f[p] + sum[s \ {p}]
    BY Smaller DEF Sums
  <2> HIDE DEF p
  <2>2. CASE x = p
    BY <2>1, <2>2
  <2>3. CASE x # p
    <3>1. /\ s \ {p} \in SUBSET S /\ Cardinality(s \ {p}) = n /\ x \in s \ {p}
          /\ s \ {x} \in SUBSET S /\ Cardinality(s \ {x}) = n /\ p \in s \ {x}
      <4>1. \A y \in s : s \ {y} \in SUBSET S /\ Cardinality(s \ {y}) = n
        BY Smaller
      <4> QED
        BY <2>1, <2>3, <4>1
    <3>2. sum[s \ {p}] = f[x] + sum[(s \ {p}) \ {x}]
      BY <3>1
    <3>3. sum[s \ {x}] = f[p] + sum[(s \ {x}) \ {p}]
      BY <3>1
    <3>4. (s \ {p}) \ {x} = (s \ {x}) \ {p} /\ (s \ {x}) \ {p} \in SUBSET S
      OBVIOUS
    <3>5. f[x] \in Nat /\ f[p] \in Nat /\ sum[(s \ {x}) \ {p}] \in Nat
      BY <2>1, <3>4 DEF Sums
    <3> DEFINE rest == sum[(s \ {x}) \ {p}]
    <3>6. sum[s \ {p}] = f[x] + rest /\ sum[s \ {x}] = f[p] + rest /\ rest \in Nat
      BY <3>2, <3>3, <3>4, <3>5
    <3> HIDE DEF rest
    <3> QED
      BY <2>1, <3>5, <3>6
  <2> QED
    BY <2>2, <2>3
<1>3. Nat \subseteq Known
  <2> HIDE DEF Known
  <2> QED
    BY <1>1, <1>2, SetInduction
<1> SUFFICES ASSUME NEW s \in SUBSET S, NEW x \in s
             PROVE  sum[s] = f[x] + sum[s \ {x}]
  BY DEF InAnyOrder
<1>4. Cardinality(s) \in Known
  BY <1>3, Smaller
<1> QED
  BY <1>4

\* What SumFunctionOnSet picks is such a function.
LEMMA SumFunctionSums ==
  ASSUME NEW S, IsFiniteSet(S), NEW f \in [S -> Nat]
  PROVE  \E sum : Sums(sum, S, f) /\ SumFunctionOnSet(f, S) = sum[S]
<1> DEFINE Body(sum) == [s \in SUBSET S |-> IF s = {} THEN 0
                           ELSE f[CHOOSE x \in s : TRUE] + sum[s \ {CHOOSE x \in s : TRUE}]]
           sum == CHOOSE sum : sum = Body(sum)
<1>1. PICK known : Sums(known, S, f)
  BY SumsExist
<1>2. known = Body(known)
  BY <1>1 DEF Sums, Pick
<1>3. sum = Body(sum)
  BY <1>2
<1>4. SumFunctionOnSet(f, S) = sum[S]
  BY DEF SumFunctionOnSet, FoldFunctionOnSet, MapThenFoldSet
<1> HIDE DEF sum
<1>5. \A s \in SUBSET S : sum[s] = IF s = {} THEN 0 ELSE f[Pick(s)] + sum[s \ {Pick(s)}]
  BY <1>3 DEF Pick
<1> DEFINE Known == {n \in Nat : \A s \in SUBSET S : Cardinality(s) = n => sum[s] \in Nat}
<1>6. 0 \in Known
  <2> SUFFICES ASSUME NEW s \in SUBSET S, Cardinality(s) = 0
               PROVE  sum[s] \in Nat
    OBVIOUS
  <2>1. s = {}
    BY Smaller
  <2> QED
    BY <1>5, <2>1
<1>7. ASSUME NEW n \in Known
      PROVE  n + 1 \in Known
  <2> SUFFICES ASSUME NEW s \in SUBSET S, Cardinality(s) = n + 1
               PROVE  sum[s] \in Nat
    OBVIOUS
  <2>1. /\ Pick(s) \in s /\ s # {}
        /\ s \ {Pick(s)} \in SUBSET S /\ Cardinality(s \ {Pick(s)}) = n
    BY Smaller
  <2>2. sum[s \ {Pick(s)}] \in Nat /\ f[Pick(s)] \in Nat
    BY <2>1
  <2> QED
    BY <1>5, <2>1, <2>2
<1>8. Nat \subseteq Known
  <2> HIDE DEF Known
  <2> QED
    BY <1>6, <1>7, SetInduction
<1>9. \A s \in SUBSET S : sum[s] \in Nat
  BY <1>8, Smaller
<1>10. Sums(sum, S, f)
  <2>1. sum \in [SUBSET S -> Nat]
    BY <1>3, <1>9
  <2> QED
    BY <1>5, <2>1 DEF Sums
<1> QED
  BY <1>4, <1>10

LEMMA SumType ==
  ASSUME NEW f, IsFiniteSet(DOMAIN f), f \in [DOMAIN f -> Nat]
  PROVE  SumFunction(f) \in Nat
<1>1. PICK sum : Sums(sum, DOMAIN f, f) /\ SumFunctionOnSet(f, DOMAIN f) = sum[DOMAIN f]
  BY SumFunctionSums
<1> QED
  BY <1>1 DEF SumFunction, Sums

-----------------------------------------------------------------------------
(***************************************************************************)
(* Quotients.                                                              *)
(***************************************************************************)
LEMMA Quotient ==
  ASSUME NEW a \in Nat, NEW d \in Nat \ {0}
  PROVE  a \div d \in Nat /\ a % d \in 0 .. d - 1 /\ a = d * (a \div d) + (a % d)
  OBVIOUS

\* A quotient and a rest determine each other.
LEMMA QuotientUnique ==
  ASSUME NEW d \in Nat \ {0}, NEW q \in Nat, NEW r \in 0 .. d - 1
  PROVE  (d * q + r) \div d = q /\ (d * q + r) % d = r
<1> DEFINE a == d * q + r
           p == a \div d
           s == a % d
<1>0. a \in Nat
  OBVIOUS
<1>1. p \in Nat /\ s \in 0 .. d - 1 /\ a = d * p + s
  BY <1>0, Quotient
<1>2. d * (p - q) = r - s
  <2>1. d * p + s = d * q + r
    BY <1>1
  <2>2. d * (p - q) = d * p - d * q
    BY <1>1
  <2> HIDE DEF p, s
  <2> QED
    BY <1>1, <2>1, <2>2
<1>3. r - s < d /\ -d < r - s
  BY <1>1
<1> HIDE DEF p, s, a
<1>4. ASSUME p - q >= 1 
      PROVE  FALSE
  BY <1>1, <1>2, <1>3, <1>4
<1>5. ASSUME p - q <= -1 
      PROVE  FALSE
  BY <1>1, <1>2, <1>3, <1>5
<1>6. p = q
  BY <1>1, <1>4, <1>5
<1>7. s = r
  BY <1>1, <1>2, <1>6
<1> QED
  BY <1>6, <1>7 DEF p, s, a

\* Two ways to round a quotient up.
LEMMA RoundedUp ==
  ASSUME NEW n \in Nat, NEW d \in Nat \ {0}
  PROVE (n \div d) + (IF n % d = 0 THEN 0 ELSE 1) = (n + d - 1) \div d
<1> DEFINE p == n \div d
           s == n % d
<1>0. p \in Nat /\ s \in 0 .. d - 1 /\ n = d * p + s
  BY Quotient
<1> HIDE DEF p, s
<1>1. CASE s = 0
  <2>1. n + d - 1 = d * p + (d - 1) /\ d - 1 \in 0 .. d - 1
    BY <1>0, <1>1
  <2>2. (d * p + (d - 1)) \div d = p
    BY <1>0, <2>1, QuotientUnique
  <2> QED
    BY <1>0, <1>1, <2>1, <2>2 DEF p, s
<1>2. CASE s # 0
  <2>1. n + d - 1 = d * (p + 1) + (s - 1) /\ s - 1 \in 0 .. d - 1 /\ p + 1 \in Nat
    BY <1>0, <1>2
  <2>2. (d * (p + 1) + (s - 1)) \div d = p + 1
    BY <2>1, QuotientUnique
  <2> QED
    BY <1>0, <1>2, <2>1, <2>2 DEF p, s
<1> QED
  BY <1>1, <1>2

\* Dividing twice is dividing by the product.
LEMMA QuotientTwice ==
  ASSUME NEW a \in Nat, NEW d \in Nat \ {0}, NEW e \in Nat \ {0}
  PROVE  (a \div d) \div e = a \div (d * e)
<1> DEFINE q == a \div d
           r == a % d
           p == q \div e
           s == q % e
           rest == d * s + r
<1>1. q \in Nat /\ r \in 0 .. d - 1 /\ a = d * q + r
  BY Quotient
<1>2. p \in Nat /\ s \in 0 .. e - 1 /\ q = e * p + s
  BY <1>1, Quotient
<1> HIDE DEF q, r, p, s
<1>3. rest \in 0 .. d * e - 1 /\ d * e \in Nat \ {0}
  <2>1. d * s <= d * (e - 1)
    BY <1>2
  <2>2. d * (e - 1) = d * e - d
    OBVIOUS
  <2>3. d * s \in Nat /\ d * e \in Nat /\ d * e # 0
    BY <1>2
  <2> QED
    BY <1>1, <2>1, <2>2, <2>3
<1>4. a = (d * e) * p + rest
  <2>1. d * (e * p + s) = (d * e) * p + d * s
    BY <1>2
  <2> QED
    BY <1>1, <1>2, <2>1
<1> HIDE DEF rest
<1>5. ((d * e) * p + rest) \div (d * e) = p
  BY <1>2, <1>3, QuotientUnique
<1> QED
  BY <1>4, <1>5 DEF p, q

\* The rest by a product: a digit more.
LEMMA RestOfProduct ==
  ASSUME NEW a \in Nat, NEW d \in Nat \ {0}, NEW e \in Nat \ {0}
  PROVE  a % (d * e) = d * ((a \div d) % e) + (a % d)
<1> DEFINE q == a \div d
           r == a % d
           p == q \div e
           s == q % e
           rest == d * s + r
<1>1. q \in Nat /\ r \in 0 .. d - 1 /\ a = d * q + r
  BY Quotient
<1>2. p \in Nat /\ s \in 0 .. e - 1 /\ q = e * p + s
  BY <1>1, Quotient
<1> HIDE DEF q, r, p, s
<1>3. rest \in 0 .. d * e - 1 /\ d * e \in Nat \ {0}
  <2>1. d * s <= d * (e - 1)
    BY <1>2
  <2>2. d * (e - 1) = d * e - d
    OBVIOUS
  <2>3. d * s \in Nat /\ d * e \in Nat /\ d * e # 0
    BY <1>2
  <2> QED
    BY <1>1, <2>1, <2>2, <2>3
<1>4. a = (d * e) * p + rest
  <2>1. d * (e * p + s) = (d * e) * p + d * s
    BY <1>2
  <2> QED
    BY <1>1, <1>2, <2>1
<1> HIDE DEF rest
<1>5. ((d * e) * p + rest) % (d * e) = rest
  BY <1>2, <1>3, QuotientUnique
<1> QED
  BY <1>4, <1>5 DEF rest, r, s, q

-----------------------------------------------------------------------------
(***************************************************************************)
(* Powers of two, by counting subsets: one element more, twice as many.    *)
(***************************************************************************)
LEMMA PowerOfZero == 2 ^ 0 = 1
<1>1. Cardinality(SUBSET {}) = 2 ^ Cardinality({})
  BY FS_EmptySet, FS_SUBSET
<1>2. SUBSET {} = {{}}
  OBVIOUS
<1>3. Cardinality({{}}) = 1
  BY FS_Singleton
<1> QED
  BY <1>1, <1>2, <1>3, FS_EmptySet

LEMMA PowerOfNext ==
  ASSUME NEW n \in Nat
  PROVE  2 ^ n \in Nat /\ 2 ^ (n + 1) = 2 ^ n + 2 ^ n
<1> DEFINE S == 1 .. n
           x == n + 1
           T == S \union {x}
           With == {s \union {x} : s \in SUBSET S}
           f == [s \in SUBSET S |-> s \union {x}]
<1>1. IsFiniteSet(S) /\ Cardinality(S) = n
  BY FS_Interval
<1>2. x \notin S
  OBVIOUS
<1> HIDE DEF S, x
<1>3. IsFiniteSet(T) /\ Cardinality(T) = n + 1
  BY <1>1, <1>2, FS_AddElement
<1>4. IsFiniteSet(SUBSET S) /\ Cardinality(SUBSET S) = 2 ^ n
  BY <1>1, FS_SUBSET
<1>5. Cardinality(SUBSET T) = 2 ^ (n + 1)
  BY <1>3, FS_SUBSET
<1>6. IsFiniteSet(With) /\ Cardinality(With) = Cardinality(SUBSET S)
  <2>1. f \in Bijection(SUBSET S, With)
    <3>1. f \in [SUBSET S -> With]
      OBVIOUS
    <3>2. \A s, t \in SUBSET S : f[s] = f[t] => s = t
      <4> SUFFICES ASSUME NEW s \in SUBSET S, NEW t \in SUBSET S, f[s] = f[t]
                   PROVE  s = t
        OBVIOUS
      <4>1. s \union {x} = t \union {x}
        OBVIOUS
      <4>2. x \notin s /\ x \notin t
        BY <1>2
      <4> QED
        BY <4>1, <4>2
    <3>3. \A t \in With : \E s \in SUBSET S : f[s] = t
      OBVIOUS
    <3> QED
      BY <3>1, <3>2, <3>3 DEF Bijection, Injection, Surjection, IsInjective
  <2>2. ExistsBijection(SUBSET S, With)
    BY <2>1 DEF ExistsBijection
  <2> QED
    BY <1>4, <2>2, FS_Bijection
<1>7. SUBSET T = (SUBSET S) \union With
  <2>1. ASSUME NEW t \in SUBSET T
        PROVE  t \in (SUBSET S) \union With
    <3>1. CASE x \in t
      <4>1. t \ {x} \in SUBSET S /\ t = (t \ {x}) \union {x}
        BY <3>1
      <4> QED
        BY <4>1
    <3>2. CASE x \notin t
      BY <3>2
    <3> QED
      BY <3>1, <3>2
  <2>2. (SUBSET S) \union With \subseteq SUBSET T
    OBVIOUS
  <2> QED
    BY <2>1, <2>2
<1>8. (SUBSET S) \intersect With = {}
  BY <1>2
<1> HIDE DEF With, T
<1>9. Cardinality((SUBSET S) \union With)
        = Cardinality(SUBSET S) + Cardinality(With) - Cardinality((SUBSET S) \intersect With)
  BY <1>4, <1>6, FS_Union
<1>10. Cardinality((SUBSET S) \intersect With) = 0 /\ Cardinality(SUBSET S) \in Nat
  BY <1>4, <1>8, FS_EmptySet, FS_CardinalityType
<1>11. \A c : c \in Nat => c + c - 0 = c + c
  OBVIOUS
<1>12. Cardinality((SUBSET S) \union With) = Cardinality(SUBSET S) + Cardinality(SUBSET S)
  BY <1>6, <1>9, <1>10, <1>11, Zenon
<1> QED
  BY <1>4, <1>5, <1>7, <1>10, <1>12, Zenon

LEMMA PowerPositive ==
  ASSUME NEW n \in Nat
  PROVE  2 ^ n \in Nat \ {0}
<1> DEFINE Positive == {k \in Nat : 2 ^ k \in Nat \ {0}}
<1>1. 0 \in Positive
  BY PowerOfZero
<1>2. \A k \in Positive : k + 1 \in Positive
  BY PowerOfNext
<1>3. Nat \subseteq Positive
  <2> HIDE DEF Positive
  <2> QED
    BY <1>1, <1>2, SetInduction
<1> QED
  BY <1>3

LEMMA PowerOfSum ==
  ASSUME NEW m \in Nat, NEW n \in Nat
  PROVE  2 ^ (m + n) = 2 ^ m * 2 ^ n
<1> DEFINE Holding == {k \in Nat : 2 ^ (m + k) = 2 ^ m * 2 ^ k}
<1>1. 0 \in Holding
  BY PowerOfZero, PowerPositive
<1>2. ASSUME NEW k \in Holding
      PROVE  k + 1 \in Holding
  <2> DEFINE a == 2 ^ m
             b == 2 ^ k
  <2>1. 2 ^ (m + (k + 1)) = 2 ^ (m + k) + 2 ^ (m + k)
    <3>1. m + k \in Nat /\ m + (k + 1) = (m + k) + 1
      OBVIOUS
    <3> QED
      BY <3>1, PowerOfNext, Zenon
  <2>2. 2 ^ (k + 1) = b + b
    BY PowerOfNext
  <2>3. a \in Nat /\ b \in Nat /\ 2 ^ (m + k) = a * b
    BY PowerPositive
  <2> HIDE DEF a, b
  <2>4. a * (b + b) = a * b + a * b
    BY <2>3
  <2>5. 2 ^ (m + (k + 1)) = a * 2 ^ (k + 1)
    BY <2>1, <2>2, <2>3, <2>4
  <2> QED
    BY <2>5 DEF a
<1>3. Nat \subseteq Holding
  <2> HIDE DEF Holding
  <2> QED
    BY <1>1, <1>2, SetInduction
<1> QED
  BY <1>3

-----------------------------------------------------------------------------
(***************************************************************************)
(* Recursive functions whose value at a number comes from the value at a   *)
(* smaller one: there is one, and every other has the same values.         *)
(***************************************************************************)
Body(f, n, base, first, smaller, step) ==
  IF n \in base THEN first[n] ELSE step[n][f[smaller[n]]]

IsRecursion(D, V, base, first, smaller, step) ==
  /\ D \in SUBSET Nat /\ first \in [D -> V] /\ step \in [D -> [V -> V]]
  /\ smaller \in [D -> Nat]
  /\ \A n \in D : n \notin base => smaller[n] \in D /\ smaller[n] < n

Solves(f, k, D, V, base, first, smaller, step) ==
  /\ f \in [D -> V]
  /\ \A n \in D : n < k => f[n] = Body(f, n, base, first, smaller, step)

LEMMA SolutionsAgree ==
  ASSUME NEW D, NEW V, NEW base, NEW first, NEW smaller, NEW step,
         IsRecursion(D, V, base, first, smaller, step), NEW k \in Nat, NEW f, NEW g,
         \A n \in D : n < k => f[n] = Body(f, n, base, first, smaller, step),
         \A n \in D : n < k => g[n] = Body(g, n, base, first, smaller, step)
  PROVE  \A n \in D : n < k => f[n] = g[n]
<1> DEFINE Same == {m \in Nat : \A n \in D : n < m /\ n < k => f[n] = g[n]}
<1>1. 0 \in Same
  BY DEF IsRecursion
<1>2. ASSUME NEW m \in Same
      PROVE  m + 1 \in Same
  <2> SUFFICES ASSUME NEW n \in D, n < m + 1, n < k
               PROVE  f[n] = g[n]
    OBVIOUS
  <2>1. n \in Nat
    BY DEF IsRecursion
  <2>2. n \notin base => f[smaller[n]] = g[smaller[n]]
    <3> SUFFICES ASSUME n \notin base
                 PROVE  f[smaller[n]] = g[smaller[n]]
      OBVIOUS
    <3>1. smaller[n] \in D /\ smaller[n] \in Nat /\ smaller[n] < n
      BY DEF IsRecursion
    <3>2. smaller[n] < m /\ smaller[n] < k
      BY <2>1, <3>1
    <3> QED
      BY <3>1, <3>2
  <2> QED
    BY <2>2 DEF Body
<1>3. Nat \subseteq Same
  <2> HIDE DEF Same
  <2> QED
    BY <1>1, <1>2, SetInduction
<1>4. k \in Same
  BY <1>3
<1> QED
  BY <1>4

LEMMA SolutionUpto ==
  ASSUME NEW D, NEW V, NEW base, NEW first, NEW smaller, NEW step,
         IsRecursion(D, V, base, first, smaller, step), NEW k \in Nat
  PROVE  \E f : Solves(f, k, D, V, base, first, smaller, step)
<1> DEFINE Solved == {m \in Nat : \E f : Solves(f, m, D, V, base, first, smaller, step)}
<1>1. 0 \in Solved
  <2>1. Solves(first, 0, D, V, base, first, smaller, step)
    BY DEF Solves, IsRecursion
  <2> QED
    BY <2>1
<1>2. ASSUME NEW m \in Solved
      PROVE  m + 1 \in Solved
  <2>1. PICK f : Solves(f, m, D, V, base, first, smaller, step)
    OBVIOUS
  <2> DEFINE more == [n \in D |-> IF n < m + 1 THEN Body(f, n, base, first, smaller, step)
                                               ELSE first[n]]
  <2>2. more \in [D -> V]
    <3> SUFFICES ASSUME NEW n \in D
                 PROVE  /\ Body(f, n, base, first, smaller, step) \in V
                        /\ first[n] \in V
      OBVIOUS
    <3> QED
      BY <2>1 DEF Body, Solves, IsRecursion
  <2>3. \A n \in D : n < m + 1 => more[n] = Body(f, n, base, first, smaller, step)
    OBVIOUS
  <2>4. \A n \in D : n < m => more[n] = f[n]
    BY <2>1, <2>3 DEF Solves, IsRecursion
  <2> HIDE DEF more
  <2>5. ASSUME NEW n \in D, n < m + 1
        PROVE  more[n] = Body(more, n, base, first, smaller, step)
    <3>1. CASE n \in base
      BY <2>3, <2>5, <3>1 DEF Body
    <3>2. CASE n \notin base
      <4>1. smaller[n] \in D /\ smaller[n] \in Nat /\ n \in Nat /\ smaller[n] < n
        BY <3>2 DEF IsRecursion
      <4>2. smaller[n] < m
        BY <2>5, <4>1
      <4>3. more[smaller[n]] = f[smaller[n]]
        BY <2>4, <4>1, <4>2
      <4> QED
        BY <2>3, <2>5, <3>2, <4>3 DEF Body
    <3> QED
      BY <3>1, <3>2
  <2>6. Solves(more, m + 1, D, V, base, first, smaller, step)
    BY <2>2, <2>5 DEF Solves
  <2> QED
    BY <2>6
<1>3. Nat \subseteq Solved
  <2> HIDE DEF Solved
  <2> QED
    BY <1>1, <1>2, SetInduction
<1> QED
  BY <1>3

LEMMA RecursionExists ==
  ASSUME NEW D, NEW V, NEW base, NEW first, NEW smaller, NEW step,
         IsRecursion(D, V, base, first, smaller, step)
  PROVE  \E f \in [D -> V] : \A n \in D : f[n] = Body(f, n, base, first, smaller, step)
<1> DEFINE upto(k) == CHOOSE f : Solves(f, k, D, V, base, first, smaller, step)
           all == [n \in D |-> upto(n + 1)[n]]
<1>1. \A k \in Nat : Solves(upto(k), k, D, V, base, first, smaller, step)
  BY SolutionUpto
<1> HIDE DEF upto
<1>2. all \in [D -> V]
  <2> SUFFICES ASSUME NEW n \in D
               PROVE  upto(n + 1)[n] \in V
    OBVIOUS
  <2>1. n + 1 \in Nat
    BY DEF IsRecursion
  <2> QED
    BY <1>1, <2>1 DEF Solves
<1>3. ASSUME NEW n \in D
      PROVE  all[n] = Body(all, n, base, first, smaller, step)
  <2>1. n \in Nat /\ n < n + 1
    BY DEF IsRecursion
  <2>2. all[n] = upto(n + 1)[n]
    OBVIOUS
  <2>3. Solves(upto(n + 1), n + 1, D, V, base, first, smaller, step)
    BY <1>1, <2>1
  <2>4. all[n] = Body(upto(n + 1), n, base, first, smaller, step)
    BY <2>1, <2>2, <2>3 DEF Solves
  <2>5. CASE n \in base
    BY <2>4, <2>5 DEF Body
  <2>6. CASE n \notin base
    <3> DEFINE m == smaller[n]
    <3>1. m \in D /\ m \in Nat /\ m < n
      BY <2>6 DEF IsRecursion
    <3>2. all[m] = upto(m + 1)[m]
      BY <3>1
    <3> HIDE DEF m
    <3>3. Solves(upto(m + 1), m + 1, D, V, base, first, smaller, step)
      BY <1>1, <3>1
    <3>4. \A j \in D : j < m + 1 =>
            upto(m + 1)[j] = Body(upto(m + 1), j, base, first, smaller, step)
      BY <3>3 DEF Solves
    <3>5. \A j \in D : j < m + 1 => j < n + 1
      BY <2>1, <3>1 DEF IsRecursion
    <3>6. \A j \in D : j < m + 1 =>
            upto(n + 1)[j] = Body(upto(n + 1), j, base, first, smaller, step)
      BY <2>3, <3>5 DEF Solves
    <3> DEFINE f == upto(m + 1)
               g == upto(n + 1)
    <3>7. m + 1 \in Nat /\ m < m + 1
      BY <3>1
    <3>8. f[m] = g[m]
      <4>1. \A j \in D : j < m + 1 => f[j] = Body(f, j, base, first, smaller, step)
        BY <3>4
      <4>2. \A j \in D : j < m + 1 => g[j] = Body(g, j, base, first, smaller, step)
        BY <3>6
      <4> HIDE DEF f, g
      <4>3. \A j \in D : j < m + 1 => f[j] = g[j]
        BY <3>7, <4>1, <4>2, SolutionsAgree
      <4> QED
        BY <3>1, <3>7, <4>3
    <3>9. all[m] = upto(n + 1)[m]
      BY <3>2, <3>8
    <3> HIDE DEF all, f, g
    <3> QED
      BY <2>4, <2>6, <3>9 DEF Body, m
  <2> QED
    BY <2>5, <2>6
<1> QED
  BY <1>2, <1>3

\* What solves the equation has the values, whatever it was chosen from.
LEMMA RecursionType ==
  ASSUME NEW D, NEW V, NEW base, NEW first, NEW smaller, NEW step,
         IsRecursion(D, V, base, first, smaller, step), NEW g,
         \A n \in D : g[n] = Body(g, n, base, first, smaller, step)
  PROVE  \A n \in D : g[n] \in V
<1>1. PICK f \in [D -> V] : \A n \in D : f[n] = Body(f, n, base, first, smaller, step)
  BY RecursionExists
<1>2. ASSUME NEW k \in Nat
      PROVE  \A n \in D : n < k => f[n] = g[n]
  <2>1. \A n \in D : n < k => f[n] = Body(f, n, base, first, smaller, step)
    BY <1>1
  <2>2. \A n \in D : n < k => g[n] = Body(g, n, base, first, smaller, step)
    OBVIOUS
  <2> QED
    BY <2>1, <2>2, SolutionsAgree
<1> SUFFICES ASSUME NEW n \in D
             PROVE  f[n] = g[n]
  BY <1>1
<1>3. n + 1 \in Nat /\ n < n + 1
  BY DEF IsRecursion
<1> QED
  BY <1>2, <1>3
=============================================================================
