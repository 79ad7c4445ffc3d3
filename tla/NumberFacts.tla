---------------------------- MODULE NumberFacts ----------------------------
(***************************************************************************)
(* Facts about numbers that the other proofs use: the least member of a    *)
(* set of natural numbers, and what a prime number of slots does for a     *)
(* probe sequence with a fixed step; induction over the parts of a finite  *)
(* set, and from it the sums of the community module Functions.            *)
(***************************************************************************)
EXTENDS Integers, FiniteSetTheorems, FunctionTheorems, TLAPS

IsPrime(p) == p \in Nat /\ p > 1 /\ \A d \in 2 .. p - 1 : p % d # 0

Divides(d, n) == \E q \in Int : n = d * q

-----------------------------------------------------------------------------
\* A set of natural numbers that is not empty has a least member.
LEMMA LeastNumber ==
  ASSUME NEW S \in SUBSET Nat, S # {}
  PROVE  \E n \in S : \A m \in S : n <= m
<1>. DEFINE T == {0 .. n - 1 : n \in S}
<1>1. ASSUME NEW n \in Nat
      PROVE  0 .. n - 1 \in FiniteSubsetsOf(Nat)
  BY FS_Interval DEF FiniteSubsetsOf
<1>2. T \subseteq FiniteSubsetsOf(Nat) /\ T # {}
  BY <1>1
<1>3. PICK t \in T : \A u \in T : <<u, t>> \notin StrictSubsetOrdering(Nat)
  <2>. HIDE DEF T
  <2>. QED
    BY <1>2, FS_StrictSubsetOrderingWellFounded, WFMin
<1>4. PICK n \in S : t = 0 .. n - 1
  OBVIOUS
<1>5. ASSUME NEW m \in S, m < n
      PROVE  FALSE
  <2>1. 0 .. m - 1 \in T /\ 0 .. m - 1 # t /\ 0 .. m - 1 \subseteq t
    BY <1>4, <1>5
  <2>2. <<0 .. m - 1, t>> \notin StrictSubsetOrdering(Nat)
    <3>. HIDE DEF T
    <3>. QED
      BY <1>3, <2>1
  <2>3. 0 .. m - 1 \in SUBSET Nat /\ t \in SUBSET Nat
    BY <1>4
  <2>. QED
    BY <2>1, <2>2, <2>3 DEF StrictSubsetOrdering
<1>. QED
  BY <1>5

\* Quotient and remainder.
LEMMA DivisionWithRemainder ==
  ASSUME NEW a \in Nat, NEW b \in Nat \ {0}
  PROVE  /\ a \div b \in Nat /\ a % b \in 0 .. b - 1
         /\ a = (b * (a \div b)) + (a % b)
  OBVIOUS

\* So too for a negative number, and the remainder does not change with a multiple.
LEMMA RemainderType ==
  ASSUME NEW a \in Int, NEW b \in Nat \ {0}
  PROVE  /\ a \div b \in Int /\ a % b \in 0 .. b - 1
         /\ a = (b * (a \div b)) + (a % b)
  OBVIOUS

LEMMA RemainderShift ==
  ASSUME NEW a \in Int, NEW b \in Nat \ {0}, NEW k \in Int
  PROVE  (a + (b * k)) % b = a % b
<1>. DEFINE c == a + (b * k)
            p == a \div b
            q == c \div b
            r == a % b
            s == c % b
<1>1. c \in Int
  OBVIOUS
<1>2. p \in Int /\ r \in 0 .. b - 1 /\ a = (b * p) + r
  BY RemainderType
<1>3. q \in Int /\ s \in 0 .. b - 1 /\ c = (b * q) + s
  <2>. HIDE DEF c
  <2>. QED
    BY <1>1, RemainderType
<1>4. c = a + (b * k)
  OBVIOUS
<1>. HIDE DEF c, p, q, r, s
<1>5. b * ((q - p) - k) = r - s
  <2>1. b * ((q - p) - k) = ((b * q) - (b * p)) - (b * k)
    BY <1>2, <1>3
  <2>. QED
    BY <1>1, <1>2, <1>3, <1>4, <2>1
<1>. DEFINE m == (q - p) - k
<1>6. m \in Int
  BY <1>2, <1>3
<1>. HIDE DEF m
<1>7. m <= 0
  <2>1. ASSUME m >= 1 PROVE FALSE
    <3>1. b * m >= b
      BY <1>6, <2>1
    <3>. QED
      BY <1>2, <1>3, <1>5, <3>1 DEF m
  <2>. QED
    BY <1>6, <2>1
<1>8. m >= 0
  <2>1. ASSUME m <= -1 PROVE FALSE
    <3>1. b * m <= -b
      BY <1>6, <2>1
    <3>. QED
      BY <1>2, <1>3, <1>5, <3>1 DEF m
  <2>. QED
    BY <1>6, <2>1
<1>9. r = s
  <2>1. m = 0 /\ b * m = 0
    BY <1>6, <1>7, <1>8
  <2>. QED
    BY <1>2, <1>3, <1>5, <2>1 DEF m
<1>. QED
  BY <1>9 DEF c, r, s

\* What was put together from a quotient and a remainder can be taken apart.
LEMMA QuotientShift ==
  ASSUME NEW b \in Nat \ {0}, NEW r \in 0 .. b - 1, NEW k \in Int
  PROVE  (r + (b * k)) % b = r /\ (r + (b * k)) \div b = k
<1>. DEFINE c == r + (b * k)
            p == c \div b
<1>1. c \in Int /\ r % b = r
  OBVIOUS
<1>2. c % b = r
  BY <1>1, RemainderShift
<1>3. p \in Int /\ c = (b * p) + (c % b)
  <2>. HIDE DEF c
  <2>. QED
    BY <1>1, RemainderType
<1>4. c = r + (b * k)
  OBVIOUS
<1>. HIDE DEF c, p
<1>5. b * (p - k) = 0
  <2>1. b * (p - k) = (b * p) - (b * k)
    BY <1>3
  <2>. QED
    BY <1>2, <1>3, <1>4, <2>1
<1>. DEFINE m == p - k
<1>6. m \in Int /\ b * m = 0
  BY <1>3, <1>5
<1>. HIDE DEF m
<1>7. m = 0
  <2>1. ASSUME m >= 1 PROVE FALSE
    <3>1. b * m >= b
      BY <1>6, <2>1
    <3>. QED
      BY <1>6, <3>1
  <2>2. ASSUME m <= -1 PROVE FALSE
    <3>1. b * m <= -b
      BY <1>6, <2>2
    <3>. QED
      BY <1>6, <3>1
  <2>. QED
    BY <1>6, <2>1, <2>2
<1>8. p = k
  BY <1>3, <1>7 DEF m
<1>. QED
  BY <1>2, <1>8 DEF c, p

\* A sum may be taken of remainders.
LEMMA RemainderSum ==
  ASSUME NEW a \in Int, NEW c \in Int, NEW b \in Nat \ {0}
  PROVE  ((a % b) + c) % b = (a + c) % b
<1>. DEFINE q == a \div b
            r == a % b
<1>1. q \in Int /\ r \in 0 .. b - 1 /\ a = (b * q) + r
  BY RemainderType
<1>. HIDE DEF q, r
<1>. DEFINE e == r + c
<1>2. a + c = e + (b * q) /\ e \in Int
  BY <1>1
<1>. HIDE DEF e
<1>3. (e + (b * q)) % b = e % b
  BY <1>1, <1>2, RemainderShift
<1>4. (a + c) % b = e % b
  BY <1>2, <1>3
<1>. QED
  BY <1>4 DEF e, r

\* Two numbers with the same remainder differ by a multiple.
LEMMA SameRemainder ==
  ASSUME NEW a \in Nat, NEW b \in Nat, NEW p \in Nat \ {0}, a % p = b % p
  PROVE  Divides(p, b - a)
<1>. DEFINE q == a \div p
            r == b \div p
            m == a % p
<1>1. q \in Nat /\ r \in Nat /\ m \in Nat /\ a = (p * q) + m /\ b = (p * r) + m
  <2>1. q \in Nat /\ m \in 0 .. p - 1 /\ a = (p * q) + m
    BY DivisionWithRemainder
  <2>2. r \in Nat /\ b = (p * r) + (b % p)
    BY DivisionWithRemainder
  <2>. QED
    BY <2>1, <2>2
<1>. HIDE DEF q, r, m
<1>2. b - a = p * (r - q) /\ r - q \in Int
  BY <1>1
<1>. QED
  BY <1>2 DEF Divides

\* A prime number divides no product of two smaller numbers.
LEMMA PrimeDividesNoProduct ==
  ASSUME NEW p, IsPrime(p), NEW a0 \in 1 .. p - 1, NEW b0 \in 1 .. p - 1
  PROVE  ~Divides(p, a0 * b0)
<1>. DEFINE S == {x \in 1 .. p - 1 : \E b \in 1 .. p - 1 : Divides(p, x * b)}
<1>1. p \in Nat /\ p > 1
  BY DEF IsPrime
<1>2. SUFFICES ASSUME S # {}
               PROVE  FALSE
  OBVIOUS
<1>3. PICK a \in S : \A m \in S : a <= m
  <2>1. S \in SUBSET Nat
    BY <1>1
  <2>. HIDE DEF S
  <2>. QED
    BY <1>2, <2>1, LeastNumber
<1>4. PICK b \in 1 .. p - 1 : Divides(p, a * b)
  OBVIOUS
<1>5. PICK k \in Int : a * b = p * k
  BY <1>4 DEF Divides
<1>. DEFINE q == p \div a
            r == p % a
<1>6. a \in 1 .. p - 1 /\ a \in Nat \ {0}
  BY <1>1
<1>7. q \in Nat /\ r \in 0 .. a - 1 /\ p = (a * q) + r
  BY <1>1, <1>6, DivisionWithRemainder
<1>8. a # 1
  <2>1. ASSUME a = 1 PROVE FALSE
    <3>1. b = p * k
      BY <1>5, <2>1
    <3>2. CASE k <= 0
      <4>1. p * k <= 0
        BY <1>1, <3>2
      <4>. QED
        BY <3>1, <4>1
    <3>3. CASE k >= 1
      <4>1. p * k >= p
        BY <1>1, <3>3
      <4>. QED
        BY <1>1, <3>1, <4>1
    <3>. QED
      BY <3>2, <3>3
  <2>. QED
    BY <2>1
<1>9. r # 0
  <2>1. a \in 2 .. p - 1
    BY <1>1, <1>6, <1>8
  <2>2. \A d \in 2 .. p - 1 : p % d # 0
    BY DEF IsPrime
  <2>. QED
    BY <2>1, <2>2
<1>. HIDE DEF q, r, S
<1>10. r * b = p * (b - (q * k))
  <2>1. r = p - (a * q)
    BY <1>1, <1>6, <1>7
  <2>2. r * b = (p * b) - ((a * q) * b)
    BY <1>1, <1>6, <1>7, <2>1
  <2>3. (a * q) * b = (a * b) * q
    BY <1>6, <1>7
  <2>4. (a * b) * q = p * (q * k)
    BY <1>1, <1>5, <1>7
  <2>5. p * (b - (q * k)) = (p * b) - (p * (q * k))
    BY <1>1, <1>7
  <2>. QED
    BY <2>2, <2>3, <2>4, <2>5
<1>11. Divides(p, r * b)
  <2>1. b - (q * k) \in Int
    BY <1>7
  <2>. QED
    BY <1>10, <2>1 DEF Divides
<1>12. r \in 1 .. p - 1 /\ r < a
  BY <1>1, <1>6, <1>7, <1>9
<1>13. r \in S
  BY <1>11, <1>12 DEF S
<1>. QED
  BY <1>1, <1>3, <1>6, <1>12, <1>13

\* With a prime number of slots, probing with a step from 1 to p - 1 comes to a
\* different slot each of the p times.
LEMMA ProbesAreDistinct ==
  ASSUME NEW p, IsPrime(p), NEW r \in Nat, NEW s \in 1 .. p - 1,
         NEW i \in 0 .. p - 1, NEW j \in 0 .. p - 1,
         (r + (i * s)) % p = (r + (j * s)) % p
  PROVE  i = j
<1>1. p \in Nat \ {0} /\ p > 1
  BY DEF IsPrime
<1>2. ASSUME NEW m \in 0 .. p - 1, NEW n \in 0 .. p - 1, m < n,
             (r + (m * s)) % p = (r + (n * s)) % p
      PROVE  FALSE
  <2>1. r + (m * s) \in Nat /\ r + (n * s) \in Nat
    BY <1>1
  <2>2. Divides(p, (r + (n * s)) - (r + (m * s)))
    BY <1>1, <1>2, <2>1, SameRemainder
  <2>3. (r + (n * s)) - (r + (m * s)) = (n - m) * s
    BY <1>1
  <2>4. n - m \in 1 .. p - 1
    BY <1>1, <1>2
  <2>. QED
    BY <2>2, <2>3, <2>4, PrimeDividesNoProduct
<1>. QED
  BY <1>1, <1>2

-----------------------------------------------------------------------------
(* Induction, for the sums of the community modules.                       *)

\* A set that has 0, and with a number the next one, has every natural number.
LEMMA UpFromZero ==
  ASSUME NEW S, 0 \in S, \A n \in Nat : n \in S => n + 1 \in S
  PROVE  Nat \subseteq S
<1>1. SUFFICES ASSUME Nat \ S # {}
               PROVE  FALSE
  OBVIOUS
<1>2. PICK n \in Nat \ S : \A m \in Nat \ S : n <= m
  <2>1. Nat \ S \in SUBSET Nat
    OBVIOUS
  <2>. QED
    BY <1>1, <2>1, LeastNumber
<1>3. n - 1 \in Nat /\ (n - 1) + 1 = n
  BY <1>2
<1>4. n - 1 \in S
  BY <1>2, <1>3
<1>. QED
  BY <1>2, <1>3, <1>4

\* So has a set of sets every part of a finite set, if it has a part whenever it has
\* that part without any one of its members.
LEMMA SubsetInduction ==
  ASSUME NEW D, IsFiniteSet(D), NEW P,
         \A s \in SUBSET D : (\A x \in s : s \ {x} \in P) => s \in P
  PROVE  SUBSET D \subseteq P
<1>. DEFINE Sizes == {Cardinality(s) : s \in (SUBSET D) \ P}
<1>1. ASSUME NEW s \in SUBSET D
      PROVE  IsFiniteSet(s) /\ Cardinality(s) \in Nat
  BY FS_Subset, FS_CardinalityType
<1>2. SUFFICES ASSUME (SUBSET D) \ P # {}
               PROVE  FALSE
  OBVIOUS
<1>3. PICK n \in Sizes : \A m \in Sizes : n <= m
  <2>1. Sizes \in SUBSET Nat /\ Sizes # {}
    BY <1>1, <1>2
  <2>. HIDE DEF Sizes
  <2>. QED
    BY <2>1, LeastNumber
<1>4. PICK s \in (SUBSET D) \ P : n = Cardinality(s)
  OBVIOUS
<1>5. ASSUME NEW x \in s
      PROVE  s \ {x} \in P
  <2>1. Cardinality(s \ {x}) = Cardinality(s) - 1
    BY <1>1, FS_RemoveElement
  <2>2. s \ {x} \in SUBSET D /\ ~(n <= n - 1)
    BY <1>1, <1>4
  <2>. QED
    BY <1>3, <1>4, <2>1, <2>2
<1>. QED
  BY <1>4, <1>5

\* A function takes finitely many values on a finite set.
LEMMA FiniteRange ==
  ASSUME NEW f, IsFiniteSet(DOMAIN f)
  PROVE  IsFiniteSet(Range(f))
<1>. DEFINE g == [x \in DOMAIN f |-> f[x]]
<1>1. g \in Surjection(DOMAIN f, Range(f))
  BY DEF Surjection, Range
<1>. QED
  BY <1>1, FS_Surjection

-----------------------------------------------------------------------------
(* Sums: what SumFunctionOnSet of the community module Functions does.     *)

\* u is the function that SumFunctionOnSet recurs by.
IsSum(u, f, S) ==
  u = [s \in SUBSET S |->
         IF s = {} THEN 0
         ELSE f[CHOOSE x \in s : TRUE] + u[s \ {CHOOSE x \in s : TRUE}]]

LEMMA SumExists ==
  ASSUME NEW f, NEW S, IsFiniteSet(S)
  PROVE  \E u : IsSum(u, f, S)
<1>. DEFINE c(s) == CHOOSE x \in s : TRUE
            Upto(n) == {s \in SUBSET S : Cardinality(s) <= n}
            Solves(u, n) ==
              u = [s \in Upto(n) |-> IF s = {} THEN 0 ELSE f[c(s)] + u[s \ {c(s)}]]
            P == {n \in Nat : \E u : Solves(u, n)}
<1>1. ASSUME NEW s \in SUBSET S
      PROVE  /\ IsFiniteSet(s) /\ Cardinality(s) \in Nat /\ (Cardinality(s) = 0) = (s = {})
             /\ s # {} => /\ c(s) \in s /\ s \ {c(s)} \in SUBSET S
                          /\ Cardinality(s \ {c(s)}) = Cardinality(s) - 1
  <2>1. IsFiniteSet(s) /\ Cardinality(s) \in Nat /\ (Cardinality(s) = 0) = (s = {})
    BY FS_Subset, FS_CardinalityType, FS_EmptySet
  <2>2. ASSUME s # {}
        PROVE  /\ c(s) \in s /\ s \ {c(s)} \in SUBSET S
               /\ Cardinality(s \ {c(s)}) = Cardinality(s) - 1
    <3>1. c(s) \in s
      BY <2>2
    <3>. HIDE DEF c
    <3>. QED
      BY <2>1, <3>1, FS_RemoveElement
  <2>. QED
    BY <2>1, <2>2
<1>. HIDE DEF c
<1>2. 0 \in P
  <2>. DEFINE u == [s \in Upto(0) |-> 0]
  <2>1. ASSUME NEW s \in Upto(0)
        PROVE  s = {}
    <3>1. s \in SUBSET S /\ Cardinality(s) <= 0
      OBVIOUS
    <3>2. IsFiniteSet(s)
      BY <3>1, FS_Subset
    <3>. QED
      BY <3>1, <3>2, FS_CardinalityType, FS_EmptySet
  <2>2. Solves(u, 0)
    BY <2>1
  <2>. QED
    BY <2>2
<1>3. ASSUME NEW n \in Nat, n \in P
      PROVE  n + 1 \in P
  <2>1. PICK u : Solves(u, n)
    BY <1>3
  <2>. DEFINE v == [s \in Upto(n + 1) |-> IF s = {} THEN 0 ELSE f[c(s)] + u[s \ {c(s)}]]
  <2>2. ASSUME NEW s \in Upto(n)
        PROVE  v[s] = u[s]
    <3>1. s \in Upto(n + 1)
      <4>1. s \in SUBSET S /\ Cardinality(s) <= n
        OBVIOUS
      <4>2. IsFiniteSet(s)
        BY <4>1, FS_Subset
      <4>3. Cardinality(s) <= n + 1
        BY <4>1, <4>2, FS_CardinalityType
      <4>. QED
        BY <4>1, <4>3
    <3>2. u[s] = IF s = {} THEN 0 ELSE f[c(s)] + u[s \ {c(s)}]
      BY <2>1
    <3>. QED
      BY <3>1, <3>2
  <2>3. ASSUME NEW s \in Upto(n + 1), s # {}
        PROVE  s \ {c(s)} \in Upto(n)
    <3>1. s \in SUBSET S /\ Cardinality(s) <= n + 1
      BY <2>3
    <3>2. s \ {c(s)} \in SUBSET S /\ Cardinality(s \ {c(s)}) <= n
      BY <1>1, <2>3, <3>1
    <3>. QED
      BY <3>2
  <2>4. Solves(v, n + 1)
    <3>1. ASSUME NEW s \in Upto(n + 1)
          PROVE  v[s] = IF s = {} THEN 0 ELSE f[c(s)] + v[s \ {c(s)}]
      <4>1. CASE s = {}
        BY <4>1
      <4>2. CASE s # {}
        <5>1. v[s] = f[c(s)] + u[s \ {c(s)}]
          BY <4>2
        <5>2. v[s \ {c(s)}] = u[s \ {c(s)}]
          BY <2>2, <2>3, <4>2
        <5>. HIDE DEF v
        <5>. QED
          BY <4>2, <5>1, <5>2
      <4>. QED
        BY <4>1, <4>2
    <3>2. v = [s \in Upto(n + 1) |-> v[s]]
      OBVIOUS
    <3>. HIDE DEF v
    <3>. QED
      BY <3>1, <3>2
  <2>. HIDE DEF v, Solves
  <2>. QED
    BY <2>4
<1>4. Nat \subseteq P
  <2>. HIDE DEF P
  <2>. QED
    BY <1>2, <1>3, UpFromZero
<1>5. PICK u : Solves(u, Cardinality(S))
  BY <1>1, <1>4
<1>6. Upto(Cardinality(S)) = SUBSET S
  BY FS_Subset, <1>1
<1>. QED
  BY <1>5, <1>6 DEF IsSum, c

LEMMA SumIs ==
  ASSUME NEW f, NEW S, IsFiniteSet(S)
  PROVE  \E u : IsSum(u, f, S) /\ SumFunctionOnSet(f, S) = u[S]
<1>1. PICK it : IsSum(it, f, S)
  BY SumExists
<1>. QED
  BY <1>1 DEF IsSum, SumFunctionOnSet, FoldFunctionOnSet, MapThenFoldSet

LEMMA SumSolved ==
  ASSUME NEW f, NEW S, NEW u, IsSum(u, f, S), NEW s \in SUBSET S
  PROVE  /\ s = {} => u[s] = 0
         /\ s # {} => \E x \in s : u[s] = f[x] + u[s \ {x}]
<1>1. u[s] = IF s = {} THEN 0
             ELSE f[CHOOSE x \in s : TRUE] + u[s \ {CHOOSE x \in s : TRUE}]
  BY DEF IsSum
<1>. QED
  BY <1>1

LEMMA SumSolution ==
  ASSUME NEW f, NEW S, IsFiniteSet(S), \A x \in S : f[x] \in Int,
         NEW u, IsSum(u, f, S)
  PROVE  \A s \in SUBSET S : /\ u[s] \in Int
                             /\ \A x \in s : u[s] = f[x] + u[s \ {x}]
<1>. DEFINE Ints == {s \in SUBSET S : u[s] \in Int}
            P == {s \in SUBSET S : \A x \in s : u[s] = f[x] + u[s \ {x}]}
<1>1. ASSUME NEW s \in SUBSET S, \A x \in s : s \ {x} \in Ints
      PROVE  s \in Ints
  <2>1. CASE s = {}
    BY <2>1, SumSolved
  <2>2. CASE s # {}
    <3>1. PICK x \in s : u[s] = f[x] + u[s \ {x}]
      BY <2>2, SumSolved
    <3>2. f[x] \in Int /\ u[s \ {x}] \in Int
      BY <1>1
    <3>. QED
      BY <3>1, <3>2
  <2>. QED
    BY <2>1, <2>2
<1>2. SUBSET S \subseteq Ints
  <2>. HIDE DEF Ints
  <2>. QED
    BY <1>1, SubsetInduction
<1>3. ASSUME NEW s \in SUBSET S, \A x \in s : s \ {x} \in P
      PROVE  s \in P
  <2>1. ASSUME NEW x \in s
        PROVE  u[s] = f[x] + u[s \ {x}]
    <3>1. PICK y \in s : u[s] = f[y] + u[s \ {y}]
      BY SumSolved
    <3>2. CASE x = y
      BY <3>1, <3>2
    <3>3. CASE x # y
      <4>1. u[s \ {y}] = f[x] + u[(s \ {y}) \ {x}]
        BY <1>3, <3>3
      <4>2. u[s \ {x}] = f[y] + u[(s \ {x}) \ {y}]
        BY <1>3, <3>3
      <4>3. (s \ {y}) \ {x} = (s \ {x}) \ {y}
        OBVIOUS
      <4>4. (s \ {x}) \ {y} \in SUBSET S
        OBVIOUS
      <4>5. u[(s \ {x}) \ {y}] \in Int /\ f[x] \in Int /\ f[y] \in Int
        BY <1>2, <4>4
      <4>. DEFINE r == u[(s \ {x}) \ {y}]
      <4>6. u[s \ {y}] = f[x] + r /\ u[s \ {x}] = f[y] + r
        BY <4>1, <4>2, <4>3
      <4>. HIDE DEF r
      <4>. QED
        BY <3>1, <4>5, <4>6 DEF r
    <3>. QED
      BY <3>2, <3>3
  <2>. QED
    BY <2>1
<1>4. SUBSET S \subseteq P
  <2>. HIDE DEF P
  <2>. QED
    BY <1>3, SubsetInduction
<1>. QED
  BY <1>2, <1>4

LEMMA SumUnique ==
  ASSUME NEW f, NEW g, NEW S, NEW T, IsFiniteSet(T), S \subseteq T,
         \A x \in S : f[x] \in Int /\ f[x] = g[x],
         \A x \in T : g[x] \in Int,
         NEW u, IsSum(u, f, S), NEW v, IsSum(v, g, T)
  PROVE  \A s \in SUBSET S : u[s] = v[s]
<1>. DEFINE P == {s \in SUBSET S : u[s] = v[s]}
<1>1. IsFiniteSet(S)
  BY FS_Subset
<1>2. ASSUME NEW s \in SUBSET S, \A x \in s : s \ {x} \in P
      PROVE  s \in P
  <2>1. CASE s = {}
    BY <2>1, SumSolved
  <2>2. CASE s # {}
    <3>1. PICK x \in s : u[s] = f[x] + u[s \ {x}]
      BY <2>2, SumSolved
    <3>2. s \in SUBSET T
      OBVIOUS
    <3>3. v[s] = g[x] + v[s \ {x}]
      BY <3>2, SumSolution
    <3>. QED
      BY <1>2, <3>1, <3>3
  <2>. QED
    BY <2>1, <2>2
<1>3. SUBSET S \subseteq P
  <2>. HIDE DEF P
  <2>. QED
    BY <1>1, <1>2, SubsetInduction
<1>. QED
  BY <1>3

\* The sum of integers is an integer, and that of nothing is 0.
LEMMA SumType ==
  ASSUME NEW f, NEW S, IsFiniteSet(S), \A x \in S : f[x] \in Int
  PROVE  SumFunctionOnSet(f, S) \in Int /\ (S = {} => SumFunctionOnSet(f, S) = 0)
<1>1. PICK u : IsSum(u, f, S) /\ SumFunctionOnSet(f, S) = u[S]
  BY SumIs
<1>2. u[S] \in Int
  BY <1>1, SumSolution
<1>3. S = {} => u[S] = 0
  BY <1>1, SumSolved
<1>. QED
  BY <1>1, <1>2, <1>3

\* The sum depends on the members' values only.
LEMMA SumSame ==
  ASSUME NEW f, NEW g, NEW S, IsFiniteSet(S), \A x \in S : f[x] \in Int /\ f[x] = g[x]
  PROVE  SumFunctionOnSet(f, S) = SumFunctionOnSet(g, S)
<1>1. PICK u : IsSum(u, f, S) /\ SumFunctionOnSet(f, S) = u[S]
  BY SumIs
<1>2. PICK v : IsSum(v, g, S) /\ SumFunctionOnSet(g, S) = v[S]
  BY SumIs
<1>3. u[S] = v[S]
  BY <1>1, <1>2, SumUnique
<1>. QED
  BY <1>1, <1>2, <1>3

\* One member more adds its value.
LEMMA SumAdd ==
  ASSUME NEW f, NEW S, IsFiniteSet(S), NEW y, y \notin S, \A x \in S \cup {y} : f[x] \in Int
  PROVE  SumFunctionOnSet(f, S \cup {y}) = SumFunctionOnSet(f, S) + f[y]
<1>. DEFINE T == S \cup {y}
<1>1. IsFiniteSet(T)
  BY FS_AddElement
<1>2. PICK u : IsSum(u, f, S) /\ SumFunctionOnSet(f, S) = u[S]
  BY SumIs
<1>3. PICK v : IsSum(v, f, T) /\ SumFunctionOnSet(f, T) = v[T]
  BY <1>1, SumIs
<1>4. S \subseteq T /\ y \in T /\ T \ {y} = S /\ \A x \in T : f[x] \in Int
  OBVIOUS
<1>. HIDE DEF T
<1>5. u[S] = v[S]
  <2>1. S \in SUBSET S /\ \A x \in S : f[x] \in Int
    BY <1>4
  <2>. QED
    BY <1>1, <1>2, <1>3, <1>4, <2>1, SumUnique
<1>6. v[T] = f[y] + v[S] /\ v[S] \in Int
  BY <1>1, <1>3, <1>4, SumSolution
<1>7. f[y] \in Int
  BY <1>4
<1>8. SumFunctionOnSet(f, T) = SumFunctionOnSet(f, S) + f[y]
  BY <1>2, <1>3, <1>5, <1>6, <1>7
<1>. QED
  BY <1>8 DEF T

\* Where one member's value changes, the sum changes by as much.
LEMMA SumChange ==
  ASSUME NEW f, NEW g, NEW S, IsFiniteSet(S), NEW y \in S,
         \A x \in S : f[x] \in Int /\ g[x] \in Int /\ (x # y => g[x] = f[x])
  PROVE  SumFunctionOnSet(g, S) = SumFunctionOnSet(f, S) + (g[y] - f[y])
<1>. DEFINE T == S \ {y}
<1>1. IsFiniteSet(T) /\ y \notin T /\ S = T \cup {y}
  BY FS_RemoveElement
<1>2. \A x \in T : f[x] \in Int /\ f[x] = g[x]
  OBVIOUS
<1>3. f[y] \in Int /\ g[y] \in Int
  OBVIOUS
<1>. HIDE DEF T
<1>4. SumFunctionOnSet(g, S) = SumFunctionOnSet(g, T) + g[y]
  BY <1>1, <1>2, <1>3, SumAdd
<1>5. SumFunctionOnSet(f, S) = SumFunctionOnSet(f, T) + f[y]
  BY <1>1, <1>2, <1>3, SumAdd
<1>6. SumFunctionOnSet(f, T) = SumFunctionOnSet(g, T) /\ SumFunctionOnSet(f, T) \in Int
  BY <1>1, <1>2, SumSame, SumType
<1>. QED
  BY <1>3, <1>4, <1>5, <1>6

\* Nothing adds up to nothing.
LEMMA SumZero ==
  ASSUME NEW f, NEW S, IsFiniteSet(S), \A x \in S : f[x] = 0
  PROVE  SumFunctionOnSet(f, S) = 0
<1>1. PICK u : IsSum(u, f, S) /\ SumFunctionOnSet(f, S) = u[S]
  BY SumIs
<1>. DEFINE P == {s \in SUBSET S : u[s] = 0}
<1>2. ASSUME NEW s \in SUBSET S, \A x \in s : s \ {x} \in P
      PROVE  s \in P
  <2>1. CASE s = {}
    BY <1>1, <2>1, SumSolved
  <2>2. CASE s # {}
    <3>1. PICK x \in s : u[s] = f[x] + u[s \ {x}]
      BY <1>1, <2>2, SumSolved
    <3>2. f[x] = 0 /\ u[s \ {x}] = 0
      BY <1>2
    <3>. QED
      BY <3>1, <3>2
  <2>. QED
    BY <2>1, <2>2
<1>3. SUBSET S \subseteq P
  <2>. HIDE DEF P
  <2>. QED
    BY <1>2, SubsetInduction
<1>. QED
  BY <1>1, <1>3

\* Whatever solves the equations of a sum is the sum.
LEMMA SumOnly ==
  ASSUME NEW f, NEW S, IsFiniteSet(S), \A x \in S : f[x] \in Int, NEW v, IsSum(v, f, S)
  PROVE  v[S] = SumFunctionOnSet(f, S)
<1>1. PICK u : IsSum(u, f, S) /\ SumFunctionOnSet(f, S) = u[S]
  BY SumIs
<1>2. u[S] = v[S]
  BY <1>1, SumUnique
<1>. QED
  BY <1>1, <1>2

=============================================================================
