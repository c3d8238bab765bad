--------------------------- MODULE RoundTripProofs ---------------------------
(***************************************************************************)
(* Proofs about RoundTrip for every set of wrappers, every warmup, block   *)
(* and length of time: the inductive invariant IInv, and from it that a    *)
(* printed line speaks of round trips the server has answered.             *)
(***************************************************************************)
EXTENDS RoundTrip, TLAPS, FiniteSetTheorems, WellFoundedInduction

-----------------------------------------------------------------------------
(* Counting and sorting                                                    *)

\* The samples that do not exceed x.
UpTo(xs, x) == {i \in DOMAIN xs : xs[i] <= x}

\* There are n indices.
LEMMA IndexRange ==
  ASSUME NEW n \in Nat
  PROVE  IsFiniteSet(1..n) /\ Cardinality(1..n) = n
<1>1. /\ IsFiniteSet(1..n)
      /\ Cardinality(1..n) = IF 1 > n THEN 0 ELSE n - 1 + 1
  BY FS_Interval
<1> QED BY <1>1

\* A set of indices is finite.
LEMMA IndexSet ==
  ASSUME NEW n \in Nat, NEW S \in SUBSET (1..n)
  PROVE  IsFiniteSet(S) /\ Cardinality(S) \in 0..n
<1>1. IsFiniteSet(1..n) /\ Cardinality(1..n) = n
  BY IndexRange
<1>2. IsFiniteSet(S) /\ Cardinality(S) <= Cardinality(1..n)
  BY <1>1, FS_Subset
<1>3. Cardinality(S) \in Nat
  BY <1>2, FS_CardinalityType
<1> QED
  BY <1>1, <1>2, <1>3

\* Fewer indices, a smaller count.
LEMMA Fewer ==
  ASSUME NEW n \in Nat, NEW S \in SUBSET (1..n), NEW T \in SUBSET S
  PROVE  /\ Cardinality(T) <= Cardinality(S)
         /\ T # S => Cardinality(T) < Cardinality(S)
<1>1. /\ IsFiniteSet(S) /\ Cardinality(S) \in Nat
      /\ T \in SUBSET (1..n)
  BY IndexSet
<1>2. Cardinality(T) \in Nat
  BY <1>1, IndexSet
<1>3. Cardinality(T) <= Cardinality(S) /\ (Cardinality(S) = Cardinality(T) => S = T)
  BY <1>1, FS_Subset
<1> QED
  BY <1>1, <1>2, <1>3

\* What a set of indices leaves out.
LEMMA Complement ==
  ASSUME NEW n \in Nat, NEW S \in SUBSET (1..n)
  PROVE  Cardinality((1..n) \ S) = n - Cardinality(S)
<1> DEFINE N == 1..n
<1>1. IsFiniteSet(N) /\ Cardinality(N) = n /\ N \cap S = S
  BY IndexRange
<1> HIDE DEF N
<1>2. Cardinality(N \ S) = Cardinality(N) - Cardinality(N \cap S)
  BY <1>1, FS_Difference
<1> QED
  BY <1>1, <1>2 DEF N

\* Every sample has a place of its own: the places of two samples are the counts
\* of two nested sets.
LEMMA PlaceBijection ==
  ASSUME NEW xs \in Seq(Int)
  PROVE  Place(xs) \in Bijection(1..Len(xs), 1..Len(xs))
<1> DEFINE n == Len(xs)
           Before(i) == {j \in 1..n : xs[j] < xs[i] \/ (xs[j] = xs[i] /\ j <= i)}
<1>1. /\ n \in Nat /\ DOMAIN xs = 1..n
      /\ \A i \in 1..n : xs[i] \in Int
  OBVIOUS
<1>2. \A i \in 1..n : Place(xs)[i] = Cardinality(Before(i))
  BY <1>1 DEF Place
<1>3. \A i \in 1..n : Cardinality(Before(i)) \in 1..n
  <2> TAKE i \in 1..n
  <2>1. Before(i) \in SUBSET (1..n) /\ {} \in SUBSET Before(i) /\ Before(i) # {}
    BY <1>1
  <2>2. Cardinality(Before(i)) \in 0..n
    BY <2>1, <1>1, IndexSet
  <2>3. Cardinality({}) < Cardinality(Before(i))
    BY <2>1, <1>1, Fewer
  <2> QED
    BY <2>2, <2>3, FS_EmptySet
<1>4. Place(xs) \in [1..n -> 1..n]
  BY <1>1, <1>2, <1>3 DEF Place
<1>5. \A i, j \in 1..n : i # j => Cardinality(Before(i)) # Cardinality(Before(j))
  <2>1. ASSUME NEW i \in 1..n, NEW j \in 1..n,
               xs[i] < xs[j] \/ (xs[i] = xs[j] /\ i < j)
        PROVE  Cardinality(Before(i)) < Cardinality(Before(j))
    <3>1. Before(j) \in SUBSET (1..n) /\ Before(i) \in SUBSET Before(j)
      BY <1>1, <2>1
    <3>2. j \in Before(j) /\ j \notin Before(i)
      BY <1>1, <2>1
    <3> HIDE DEF Before
    <3> QED
      BY <1>1, <3>1, <3>2, Fewer
  <2>2. \A i, j \in 1..n : i # j =>
          \/ xs[i] < xs[j] \/ (xs[i] = xs[j] /\ i < j)
          \/ xs[j] < xs[i] \/ (xs[j] = xs[i] /\ j < i)
    BY <1>1
  <2>3. \A i \in 1..n : Cardinality(Before(i)) \in Nat
    BY <1>3
  <2> HIDE DEF Before, n
  <2> QED
    BY <2>1, <2>2, <2>3
<1>6. Place(xs) \in Injection(1..n, 1..n)
  <2> HIDE DEF Before
  <2> QED BY <1>2, <1>4, <1>5 DEF Injection, IsInjective
<1>7. Place(xs) \in Surjection(1..n, 1..n)
  BY <1>1, <1>6, FS_Interval, FS_Injection
<1> QED
  BY <1>6, <1>7 DEF Bijection

\* What is sorted is a series as long, of the same samples.
LEMMA SortedType ==
  ASSUME NEW xs \in Seq(Int)
  PROVE  /\ Sorted(xs) \in [1..Len(xs) -> Int]
         /\ Sorted(xs) \in Seq(Int) /\ Len(Sorted(xs)) = Len(xs)
         /\ \A k \in 1..Len(xs) : \E i \in 1..Len(xs) :
              Place(xs)[i] = k /\ Sorted(xs)[k] = xs[i]
<1> DEFINE n == Len(xs)
           at(k) == CHOOSE i \in DOMAIN xs : Place(xs)[i] = k
<1>1. /\ n \in Nat /\ DOMAIN xs = 1..n
      /\ \A i \in 1..n : xs[i] \in Int
  OBVIOUS
<1>2. \A k \in 1..n : \E i \in 1..n : Place(xs)[i] = k
  BY PlaceBijection DEF Bijection, Surjection
<1>3. \A k \in 1..n : at(k) \in 1..n /\ Place(xs)[at(k)] = k
  BY <1>1, <1>2
<1>4. Sorted(xs) = [k \in 1..n |-> xs[at(k)]]
  BY <1>1 DEF Sorted
<1> HIDE DEF at
<1>5. Sorted(xs) \in [1..n -> Int]
  BY <1>1, <1>3, <1>4
<1>6. Sorted(xs) \in Seq(Int) /\ Len(Sorted(xs)) = n
  BY <1>1, <1>5
<1> QED
  BY <1>3, <1>4, <1>5, <1>6

\* All that is used of the sort: its k-th entry does not exceed x just if k
\* samples do not.
LEMMA OrderStatistic ==
  ASSUME NEW xs \in Seq(Int), NEW k \in 1..Len(xs), NEW x \in Int
  PROVE  Sorted(xs)[k] <= x <=> k <= Cardinality(UpTo(xs, x))
<1> DEFINE n == Len(xs)
           Before(i) == {j \in 1..n : xs[j] < xs[i] \/ (xs[j] = xs[i] /\ j <= i)}
<1>1. /\ n \in Nat /\ DOMAIN xs = 1..n
      /\ \A i \in 1..n : xs[i] \in Int
  OBVIOUS
<1>2. PICK i \in 1..n : Place(xs)[i] = k /\ Sorted(xs)[k] = xs[i]
  BY SortedType
<1>3. k = Cardinality(Before(i)) /\ Before(i) \in SUBSET (1..n)
  BY <1>1, <1>2 DEF Place
<1>4. UpTo(xs, x) \in SUBSET (1..n)
  BY <1>1 DEF UpTo
<1>5. Cardinality(UpTo(xs, x)) \in Nat /\ Cardinality(Before(i)) \in Nat
  BY <1>1, <1>3, <1>4, IndexSet
<1>6. CASE xs[i] <= x
  <2>1. Before(i) \in SUBSET UpTo(xs, x)
    BY <1>1, <1>6 DEF UpTo
  <2> HIDE DEF Before, n
  <2>2. Cardinality(Before(i)) <= Cardinality(UpTo(xs, x))
    BY <1>1, <1>4, <2>1, Fewer
  <2> QED
    BY <1>2, <1>3, <1>6, <2>2
<1>7. CASE ~(xs[i] <= x)
  <2>1. /\ UpTo(xs, x) \in SUBSET Before(i)
        /\ i \in Before(i) /\ i \notin UpTo(xs, x)
    BY <1>1, <1>7 DEF UpTo
  <2> HIDE DEF Before, n
  <2>2. Cardinality(UpTo(xs, x)) < Cardinality(Before(i))
    BY <1>1, <1>3, <2>1, Fewer
  <2> QED
    BY <1>2, <1>3, <1>5, <1>7, <2>2
<1> QED
  BY <1>6, <1>7

\* The entries are numbers.
LEMMA SortedInt ==
  ASSUME NEW xs \in Seq(Int), NEW k \in 1..Len(xs)
  PROVE  Sorted(xs)[k] \in Int
BY SortedType

\* The entries ascend.
LEMMA SortedAscends ==
  ASSUME NEW xs \in Seq(Int), NEW j \in 1..Len(xs), NEW k \in j..Len(xs)
  PROVE  Sorted(xs)[j] <= Sorted(xs)[k]
<1>1. k \in 1..Len(xs) /\ Sorted(xs)[k] \in Int /\ Sorted(xs)[j] \in Int
  BY SortedInt
<1>2. k <= Cardinality(UpTo(xs, Sorted(xs)[k]))
  BY <1>1, OrderStatistic
<1>3. Cardinality(UpTo(xs, Sorted(xs)[k])) \in Nat
  <2>1. UpTo(xs, Sorted(xs)[k]) \in SUBSET (1..Len(xs)) /\ Len(xs) \in Nat
    BY DEF UpTo
  <2> QED BY <2>1, IndexSet
<1>4. j <= Cardinality(UpTo(xs, Sorted(xs)[k]))
  BY <1>2, <1>3
<1> QED
  BY <1>1, <1>4, OrderStatistic

\* At least k samples do not exceed the k-th entry and fewer are below it; at
\* least n - k + 1 reach it and fewer are above it.
LEMMA SortedSplits ==
  ASSUME NEW xs \in Seq(Int), NEW k \in 1..Len(xs)
  PROVE  LET n == Len(xs)
             x == Sorted(xs)[k]
         IN  /\ Cardinality({i \in 1..n : xs[i] <= x}) >= k
             /\ Cardinality({i \in 1..n : xs[i] < x}) <= k - 1
             /\ Cardinality({i \in 1..n : xs[i] >= x}) >= n - k + 1
             /\ Cardinality({i \in 1..n : xs[i] > x}) <= n - k
<1> DEFINE n == Len(xs)
           x == Sorted(xs)[k]
           upto  == {i \in 1..n : xs[i] <= x}
           below == {i \in 1..n : xs[i] < x}
           from  == {i \in 1..n : xs[i] >= x}
           above == {i \in 1..n : xs[i] > x}
<1>1. /\ n \in Nat /\ DOMAIN xs = 1..n /\ k \in 1..n
      /\ \A i \in 1..n : xs[i] \in Int
  OBVIOUS
<1>2. x \in Int
  BY SortedInt
<1> HIDE DEF x
<1>3. UpTo(xs, x) = upto /\ UpTo(xs, x - 1) = below
  BY <1>1, <1>2 DEF UpTo
<1>4. Cardinality(upto) >= k
  <2>1. k <= Cardinality(UpTo(xs, x))
    BY <1>1, <1>2, OrderStatistic DEF x
  <2>2. upto \in SUBSET (1..n)
    OBVIOUS
  <2>3. Cardinality(upto) \in Nat
    BY <1>1, <2>2, IndexSet
  <2> QED
    BY <1>3, <2>1, <2>3
<1>5. Cardinality(below) <= k - 1
  <2>1. ~(x <= x - 1) /\ x - 1 \in Int
    BY <1>2
  <2>2. ~(k <= Cardinality(UpTo(xs, x - 1)))
    BY <1>1, <2>1, OrderStatistic DEF x
  <2>3. Cardinality(below) \in 0..n
    <3>1. below \in SUBSET (1..n)
      OBVIOUS
    <3> HIDE DEF below, n
    <3> QED BY <1>1, <3>1, IndexSet
  <2> HIDE DEF below, n
  <2> QED
    BY <1>1, <1>3, <2>2, <2>3
<1>6. Cardinality(from) = n - Cardinality(below) /\ Cardinality(above) = n - Cardinality(upto)
  <2>1. /\ from = (1..n) \ below /\ above = (1..n) \ upto
        /\ below \in SUBSET (1..n) /\ upto \in SUBSET (1..n)
    BY <1>1, <1>2
  <2> HIDE DEF from, below, above, upto, n
  <2> QED
    BY <1>1, <2>1, Complement
<1>7. Cardinality(below) \in Int /\ Cardinality(upto) \in Int
  <2>1. below \in SUBSET (1..n) /\ upto \in SUBSET (1..n)
    OBVIOUS
  <2> HIDE DEF below, upto, n
  <2> QED
    BY <1>1, <2>1, IndexSet
<1> HIDE DEF n, upto, below, from, above
<1>8. Cardinality(from) >= n - k + 1 /\ Cardinality(above) <= n - k
  BY <1>1, <1>4, <1>5, <1>6, <1>7
<1> QED
  BY <1>4, <1>5, <1>8 DEF n, x, upto, below, from, above

\* Two series with as many samples below every bound sort into one.
LEMMA SameCounts ==
  ASSUME NEW xs \in Seq(Int), NEW ys \in Seq(Int), Len(xs) = Len(ys),
         \A x \in Int : Cardinality(UpTo(xs, x)) = Cardinality(UpTo(ys, x))
  PROVE  Sorted(xs) = Sorted(ys)
<1>1. ASSUME NEW k \in 1..Len(xs)
      PROVE  Sorted(xs)[k] = Sorted(ys)[k]
  <2>1. Sorted(xs)[k] \in Int /\ Sorted(ys)[k] \in Int
    BY SortedInt
  <2>2. \A x \in Int : Sorted(xs)[k] <= x <=> Sorted(ys)[k] <= x
    BY OrderStatistic
  <2> QED
    BY <2>1, <2>2
<1>2. Sorted(xs) \in [1..Len(xs) -> Int] /\ Sorted(ys) \in [1..Len(xs) -> Int]
  BY SortedType
<1> QED
  BY <1>1, <1>2

\* Scaling by a natural number keeps an order.
LEMMA Scaled ==
  ASSUME NEW a \in Int, NEW b \in Int, NEW c \in Nat, a <= b
  PROVE  c * a \in Int /\ c * b \in Int /\ c * a <= c * b
<1> DEFINE d == b - a
<1>1. d \in Nat /\ b = a + d
  OBVIOUS
<1> HIDE DEF d
<1>2. c * a \in Int /\ c * d \in Nat
  BY <1>1
<1>3. c * b = c * a + c * d
  BY <1>1
<1> QED
  BY <1>2, <1>3

\* Order statistics are monotone, and scale.
LEMMA SortedBelow ==
  ASSUME NEW xs \in Seq(Int), NEW ys \in Seq(Int), Len(xs) = Len(ys),
         NEW c \in Nat, \A i \in 1..Len(xs) : xs[i] <= c * ys[i],
         NEW k \in 1..Len(xs)
  PROVE  Sorted(xs)[k] <= c * Sorted(ys)[k]
<1> DEFINE y == Sorted(ys)[k]
<1>1. y \in Int /\ c * y \in Int
  BY SortedInt
<1>2. UpTo(xs, c * y) \in SUBSET (1..Len(xs)) /\ Len(xs) \in Nat
  BY DEF UpTo
<1>3. UpTo(ys, y) \in SUBSET UpTo(xs, c * y)
  <2> SUFFICES ASSUME NEW i \in 1..Len(xs), ys[i] <= y
               PROVE  xs[i] <= c * y
    BY DEF UpTo
  <2>1. xs[i] \in Int /\ ys[i] \in Int /\ xs[i] <= c * ys[i]
    OBVIOUS
  <2> DEFINE z == ys[i]
  <2>2. z \in Int /\ z <= y
    BY <2>1
  <2> HIDE DEF y, z
  <2>3. c * z \in Int /\ c * z <= c * y
    BY <1>1, <2>2, Scaled
  <2>4. xs[i] <= c * z /\ xs[i] \in Int
    BY <2>1 DEF z
  <2> DEFINE cz == c * z
             cy == c * y
             x  == xs[i]
  <2>5. cz \in Int /\ cy \in Int /\ cz <= cy /\ x \in Int /\ x <= cz
    BY <1>1, <2>3, <2>4
  <2> HIDE DEF cz, cy, x
  <2>6. x <= cy
    BY <2>5
  <2> QED
    BY <2>6 DEF x, cy
<1>4. k <= Cardinality(UpTo(ys, y))
  BY <1>1, OrderStatistic
<1>5. /\ Cardinality(UpTo(ys, y)) <= Cardinality(UpTo(xs, c * y))
      /\ Cardinality(UpTo(xs, c * y)) \in Nat
      /\ Cardinality(UpTo(ys, y)) \in Nat
  <2> DEFINE S == UpTo(xs, c * y)
             T == UpTo(ys, y)
  <2>1. S \in SUBSET (1..Len(xs)) /\ T \in SUBSET S /\ Len(xs) \in Nat
    BY <1>2, <1>3
  <2> HIDE DEF S, T
  <2>2. Cardinality(T) <= Cardinality(S)
    BY <2>1, Fewer
  <2>3. T \in SUBSET (1..Len(xs))
    BY <2>1
  <2>4. Cardinality(T) \in Nat
    BY <2>1, <2>3, IndexSet
  <2>5. Cardinality(S) \in Nat
    BY <2>1, IndexSet
  <2> QED
    BY <2>2, <2>4, <2>5 DEF S, T
<1>6. k <= Cardinality(UpTo(xs, c * y))
  BY <1>4, <1>5
<1> QED
  BY <1>1, <1>6, OrderStatistic

\* What f takes into T.
Preimage(A, f, T) == {a \in A : f[a] \in T}

\* Counting through a bijection.
LEMMA CountThrough ==
  ASSUME NEW A, IsFiniteSet(A), NEW B, NEW f \in Bijection(A, B), NEW T \in SUBSET B
  PROVE  Cardinality(Preimage(A, f, T)) = Cardinality(T)
<1> DEFINE S == {a \in A : f[a] \in T}
           g == [a \in S |-> f[a]]
<1>1. f \in [A -> B] /\ (\A a, b \in A : f[a] = f[b] => a = b)
      /\ \A b \in B : \E a \in A : f[a] = b
  BY DEF Bijection, Injection, IsInjective, Surjection
<1>2. g \in Bijection(S, T)
  <2>1. g \in [S -> T]
    BY <1>1
  <2>2. \A a, b \in S : g[a] = g[b] => a = b
    BY <1>1
  <2>3. \A b \in T : \E a \in S : g[a] = b
    BY <1>1
  <2> HIDE DEF g, S
  <2> QED
    BY <2>1, <2>2, <2>3 DEF Bijection, Injection, IsInjective, Surjection
<1>3. IsFiniteSet(S)
  BY FS_Subset
<1>4. ExistsBijection(S, T)
  BY <1>2 DEF ExistsBijection
<1> HIDE DEF g, S
<1>5. Cardinality(T) = Cardinality(S)
  BY <1>3, <1>4, FS_Bijection
<1> QED
  BY <1>5 DEF S, Preimage

-----------------------------------------------------------------------------
(* Sums                                                                    *)

\* Induction over the naturals for a set of them, from their being well-founded.
LEMMA NatSetInduction ==
  ASSUME NEW T \in SUBSET Nat, 0 \in T, \A n \in T : n + 1 \in T
  PROVE  \A n \in Nat : n \in T
<1> DEFINE Less == OpToRel(<, Nat)
<1>1. SUFFICES ASSUME Nat \ T # {} PROVE FALSE
  OBVIOUS
<1>2. IsWellFoundedOn(Less, Nat)
  BY NatLessThanWellFounded
<1>3. \E x \in Nat \ T : \A y \in Nat \ T : <<y, x>> \notin Less
  <2> HIDE DEF Less
  <2> QED BY <1>1, <1>2, WFMin, Zenon
<1>4. PICK x \in Nat \ T : \A y \in Nat \ T : ~(y < x)
  BY <1>3 DEF OpToRel
<1> QED
  BY <1>4

\* f sums up the first n entries of xs.
Partial(xs, n, f) == f = [i \in 0..n |-> IF i = 0 THEN 0 ELSE f[i - 1] + xs[i]]

\* There are partial sums.
LEMMA PartialExists ==
  ASSUME NEW xs \in Seq(Int)
  PROVE  \A n \in 0..Len(xs) : \E f \in [0..n -> Int] : Partial(xs, n, f)
<1> DEFINE T == {n \in Nat : n <= Len(xs) => \E f \in [0..n -> Int] : Partial(xs, n, f)}
<1>1. 0 \in T
  <2>1. [i \in 0..0 |-> 0] \in [0..0 -> Int] /\ Partial(xs, 0, [i \in 0..0 |-> 0])
    BY DEF Partial
  <2> QED
    BY <2>1
<1>2. ASSUME NEW n \in T PROVE n + 1 \in T
  <2>1. SUFFICES ASSUME n + 1 <= Len(xs) PROVE \E f \in [0..n+1 -> Int] : Partial(xs, n + 1, f)
    BY <1>2
  <2>2. PICK f \in [0..n -> Int] : Partial(xs, n, f)
    BY <1>2, <2>1
  <2> DEFINE g == [i \in 0..n+1 |-> IF i = n + 1 THEN f[n] + xs[n + 1] ELSE f[i]]
  <2>3. g \in [0..n+1 -> Int]
    BY <2>1
  <2>4. \A i \in 0..n : f[i] = IF i = 0 THEN 0 ELSE f[i - 1] + xs[i]
    BY <2>2 DEF Partial
  <2>5. ASSUME NEW i \in 0..n+1
        PROVE  g[i] = IF i = 0 THEN 0 ELSE g[i - 1] + xs[i]
    <3>1. n \in Nat /\ i \in Int
      BY <1>2
    <3>2. CASE i = n + 1
      BY <3>1, <3>2
    <3>3. CASE i \in 0..n
      <4>1. g[i] = f[i] /\ (i # 0 => g[i - 1] = f[i - 1])
        BY <3>1, <3>3
      <4> QED
        BY <2>4, <3>3, <4>1
    <3> QED
      BY <3>1, <3>2, <3>3
  <2>6. Partial(xs, n + 1, g)
    BY <2>3, <2>5 DEF Partial
  <2> QED
    BY <2>3, <2>6
<1>3. \A n \in Nat : n \in T
  <2> HIDE DEF T
  <2>1. T \in SUBSET Nat
    BY DEF T
  <2> QED BY <1>1, <1>2, <2>1, NatSetInduction
<1> QED
  BY <1>3

\* The sum of a sequence is the last of its partial sums.
LEMMA SumIs ==
  ASSUME NEW xs \in Seq(Int)
  PROVE  \E f : Partial(xs, Len(xs), f) /\ Sum(xs) = f[Len(xs)]
<1> DEFINE upto == CHOOSE f : Partial(xs, Len(xs), f)
<1>1. \E f : Partial(xs, Len(xs), f)
  BY PartialExists
<1>2. Partial(xs, Len(xs), upto)
  BY <1>1
<1>3. Sum(xs) = upto[Len(xs)]
  BY DEF Sum, Partial
<1> QED
  BY <1>2, <1>3

\* Partial sums are integers that depend on the entries summed up only.
LEMMA PartialUnique ==
  ASSUME NEW xs \in Seq(Int), NEW ys \in Seq(Int), NEW m \in 0..Len(xs), NEW n \in 0..Len(ys),
         m <= n, \A i \in 1..m : xs[i] = ys[i],
         NEW f, Partial(xs, m, f), NEW g, Partial(ys, n, g)
  PROVE  \A i \in 0..m : f[i] = g[i] /\ f[i] \in Int
<1> DEFINE T == {i \in Nat : i <= m => f[i] = g[i] /\ f[i] \in Int}
<1>1. /\ m \in Nat /\ n \in Nat /\ m <= n
      /\ \A i \in 0..m : f[i] = IF i = 0 THEN 0 ELSE f[i - 1] + xs[i]
      /\ \A i \in 0..n : g[i] = IF i = 0 THEN 0 ELSE g[i - 1] + ys[i]
  <2>1. Len(xs) \in Nat /\ Len(ys) \in Nat
    OBVIOUS
  <2>2. m \in Nat /\ n \in Nat /\ m <= n
    BY <2>1
  <2> QED
    BY <2>2 DEF Partial
<1>2. 0 \in T
  BY <1>1
<1>3. ASSUME NEW i \in T PROVE i + 1 \in T
  <2>1. SUFFICES ASSUME i + 1 <= m PROVE f[i + 1] = g[i + 1] /\ f[i + 1] \in Int
    BY <1>3
  <2>2. /\ i \in Nat /\ i + 1 \in 0..m /\ i + 1 \in 0..n /\ i + 1 # 0 /\ (i + 1) - 1 = i
        /\ f[i] = g[i] /\ f[i] \in Int
    BY <1>1, <1>3, <2>1
  <2>3. f[i + 1] = f[i] + xs[i + 1] /\ g[i + 1] = g[i] + ys[i + 1]
    BY <1>1, <2>2
  <2>4. xs[i + 1] = ys[i + 1] /\ xs[i + 1] \in Int
    BY <2>2
  <2> DEFINE a == f[i]
             x == xs[i + 1]
  <2>5. a \in Int /\ x \in Int
    BY <2>2, <2>4
  <2>6. f[i + 1] = a + x /\ g[i + 1] = a + x
    BY <2>2, <2>3, <2>4
  <2> HIDE DEF T, a, x
  <2>7. a + x \in Int
    BY <2>5
  <2> QED
    BY <2>6, <2>7
<1>4. \A i \in Nat : i \in T
  <2> HIDE DEF T
  <2>1. T \in SUBSET Nat
    BY DEF T
  <2> QED
    BY <1>2, <1>3, <2>1, NatSetInduction
<1> QED
  BY <1>1, <1>4

\* Nothing sums up to nothing.
LEMMA SumEmpty == Sum(<<>>) = 0
<1>1. <<>> \in Seq(Int) /\ Len(<<>>) = 0
  OBVIOUS
<1>2. PICK f : Partial(<<>>, Len(<<>>), f) /\ Sum(<<>>) = f[Len(<<>>)]
  BY <1>1, SumIs
<1> QED
  BY <1>1, <1>2 DEF Partial

\* The last step of a partial sum.
LEMMA PartialStep ==
  ASSUME NEW xs \in Seq(Int), NEW n \in Nat, NEW f, Partial(xs, n, f),
         NEW i \in 1..n
  PROVE  f[i] = f[i - 1] + xs[i]
BY DEF Partial

\* A sum grows by what is appended.
LEMMA SumAppend ==
  ASSUME NEW xs \in Seq(Int), NEW x \in Int
  PROVE  Sum(xs) \in Int /\ Sum(Append(xs, x)) = Sum(xs) + x
<1> DEFINE ys == Append(xs, x)
           n == Len(xs)
<1>1. /\ ys \in Seq(Int) /\ Len(ys) = n + 1 /\ n \in Nat
      /\ \A i \in 1..n : xs[i] = ys[i]
      /\ ys[n + 1] = x
  OBVIOUS
<1>2. PICK f : Partial(xs, n, f) /\ Sum(xs) = f[n]
  BY SumIs
<1>3. PICK g : Partial(ys, n + 1, g) /\ Sum(ys) = g[n + 1]
  BY <1>1, SumIs
<1>4. f[n] = g[n] /\ f[n] \in Int
  <2> HIDE DEF ys
  <2>1. n \in 0..Len(xs) /\ n + 1 \in 0..Len(ys) /\ n <= n + 1 /\ n \in 0..n
    BY <1>1
  <2>2. \A i \in 0..n : f[i] = g[i] /\ f[i] \in Int
    BY <1>1, <1>2, <1>3, <2>1, PartialUnique
  <2> QED
    BY <2>1, <2>2
<1>5. g[n + 1] = g[n] + x
  <2> HIDE DEF ys
  <2>1. n + 1 \in Nat /\ n + 1 \in 1..n + 1 /\ (n + 1) - 1 = n
    BY <1>1
  <2>2. \A i \in 1..n + 1 : g[i] = g[i - 1] + ys[i]
    <3> HIDE DEF n
    <3> QED BY <1>1, <1>3, <2>1, PartialStep
  <2> QED
    BY <1>1, <2>1, <2>2
<1> QED
  BY <1>2, <1>3, <1>4, <1>5

-----------------------------------------------------------------------------
(* The line                                                                *)

\* The thousandfold share of the samples that are to lie on either side.
Under(p, n) == p * (n - 1)
Over(p, n)  == (1000 - p) * n

\* A quantile's index is one of the samples', within one of its share of them.
LEMMA RankShare ==
  ASSUME NEW rank, NEW n \in Nat \ {0}, NEW p \in {500, 900, 990, 999}
  PROVE  /\ Rank(rank, n, p) \in 0..n-1
         /\ 1000 * (Rank(rank, n, p) + 1) > Under(p, n)
         /\ 1000 * (n - Rank(rank, n, p)) >= Over(p, n)
<1>1. CASE p = 500
  BY <1>1 DEF Rank, Under, Over
<1>2. CASE p = 900
  BY <1>2 DEF Rank, Under, Over
<1>3. CASE p = 990
  BY <1>3 DEF Rank, Under, Over
<1>4. CASE p = 999
  BY <1>4 DEF Rank, Under, Over
<1> QED
  BY <1>1, <1>2, <1>3, <1>4

\* A higher quantile is not at a lower index.
LEMMA RanksAscend ==
  ASSUME NEW rank, NEW n \in Nat \ {0}
  PROVE  /\ Rank(rank, n, 500) <= Rank(rank, n, 900)
         /\ Rank(rank, n, 900) <= Rank(rank, n, 990)
         /\ Rank(rank, n, 990) <= Rank(rank, n, 999)
BY DEF Rank

\* The line of some round trips is a line of their order statistics.
LEMMA LineIs ==
  ASSUME NEW rank, NEW xs \in Seq(Int), xs # <<>>
  PROVE  LET n == Len(xs)
             At(p) == Sorted(xs)[Rank(rank, n, p) + 1]
         IN  LatencyLine(rank, xs)
               = <<n, Sorted(xs)[1], At(500), At(900), At(990), At(999), Sorted(xs)[n]>>
<1>1. Len(xs) # 0
  OBVIOUS
<1> QED
  BY <1>1 DEF LatencyLine

\* The quantiles of a line are in order, and those an archived record takes its
\* tail from come as Observation asks of them (Aggregate).
LEMMA LineAscends ==
  ASSUME NEW rank, NEW xs \in Seq(Int), xs # <<>>
  PROVE  \A i \in 2..6 : LatencyLine(rank, xs)[i] <= LatencyLine(rank, xs)[i + 1]
<1> DEFINE n == Len(xs)
           R(p) == Rank(rank, n, p) + 1
<1>1. n \in Nat \ {0}
  OBVIOUS
<1>2. ASSUME NEW p \in {500, 900, 990, 999} PROVE R(p) \in 1..n
  <2> HIDE DEF n
  <2>1. Rank(rank, n, p) \in 0..n-1
    BY <1>1, RankShare
  <2> DEFINE r == Rank(rank, n, p)
  <2>2. r \in 0..n-1
    BY <2>1
  <2> HIDE DEF r
  <2>3. r + 1 \in 1..n
    BY <1>1, <2>2
  <2> QED
    BY <2>3 DEF r
<1>3. R(500) <= R(900) /\ R(900) <= R(990) /\ R(990) <= R(999)
  <2> DEFINE r(p) == Rank(rank, n, p)
  <2>1. \A p \in {500, 900, 990, 999} : r(p) \in 0..n-1
    <3> HIDE DEF n
    <3> QED BY <1>1, RankShare
  <2>2. r(500) <= r(900) /\ r(900) <= r(990) /\ r(990) <= r(999)
    <3> HIDE DEF n
    <3> QED BY <1>1, RanksAscend, SMTT(20)
  <2> HIDE DEF n, r
  <2>3. r(500) + 1 <= r(900) + 1 /\ r(900) + 1 <= r(990) + 1 /\ r(990) + 1 <= r(999) + 1
    BY <1>1, <2>1, <2>2
  <2> QED
    BY <2>3 DEF r, n
<1> HIDE DEF R
<1>4. /\ Sorted(xs)[1] <= Sorted(xs)[R(500)]
      /\ Sorted(xs)[R(500)] <= Sorted(xs)[R(900)]
      /\ Sorted(xs)[R(900)] <= Sorted(xs)[R(990)]
      /\ Sorted(xs)[R(990)] <= Sorted(xs)[R(999)]
      /\ Sorted(xs)[R(999)] <= Sorted(xs)[n]
  <2>1. \A j, k \in 1..n : j <= k => Sorted(xs)[j] <= Sorted(xs)[k]
    BY SortedAscends
  <2>2. 1 \in 1..n /\ n \in 1..n
    BY <1>1
  <2> QED
    BY <1>1, <1>2, <1>3, <2>1, <2>2, SMTT(30)
<1>5. LatencyLine(rank, xs) = <<n, Sorted(xs)[1], Sorted(xs)[R(500)], Sorted(xs)[R(900)],
                                Sorted(xs)[R(990)], Sorted(xs)[R(999)], Sorted(xs)[n]>>
  BY LineIs DEF R
<1> QED
  BY <1>4, <1>5

\* Each of the quantiles of a line has its share of the round trips.
LEMMA LineBalance ==
  ASSUME NEW rank, NEW xs \in Seq(Int), xs # <<>>
  PROVE  Balanced(LatencyLine(rank, xs), xs)
<1> DEFINE n == Len(xs)
           s == Sorted(xs)
           R(p) == Rank(rank, n, p) + 1
           AtMost(x)  == Cardinality({i \in 1..n : xs[i] <= x})
           AtLeast(x) == Cardinality({i \in 1..n : xs[i] >= x})
<1>1. n \in Nat \ {0} /\ 1 \in 1..n /\ n \in 1..n
  OBVIOUS
<1>2. \A k \in 1..n : AtMost(s[k]) >= k /\ AtLeast(s[k]) >= n - k + 1
  BY SortedSplits
<1>3. ASSUME NEW x PROVE AtMost(x) \in 0..n /\ AtLeast(x) \in 0..n
  <2>1. /\ {i \in 1..n : xs[i] <= x} \in SUBSET (1..n)
        /\ {i \in 1..n : xs[i] >= x} \in SUBSET (1..n)
    OBVIOUS
  <2> QED
    BY <1>1, <2>1, IndexSet
<1> HIDE DEF n, s, AtMost, AtLeast
<1>4. AtLeast(s[1]) = n /\ AtMost(s[n]) = n
  <2>1. AtLeast(s[1]) >= n /\ AtMost(s[n]) >= n
    BY <1>1, <1>2
  <2> QED
    BY <1>1, <1>3, <2>1
<1>5. ASSUME NEW p \in {500, 900, 990, 999}
      PROVE  /\ 1000 * AtMost(s[R(p)]) > Under(p, n)
             /\ 1000 * AtLeast(s[R(p)]) >= Over(p, n)
  <2> DEFINE r == Rank(rank, n, p)
  <2>1. /\ r \in 0..n-1
        /\ 1000 * (r + 1) > Under(p, n)
        /\ 1000 * (n - r) >= Over(p, n)
    BY <1>1, RankShare
  <2> HIDE DEF r
  <2>2. r + 1 \in 1..n /\ r \in Int
    BY <1>1, <2>1
  <2> DEFINE a == AtMost(s[r + 1])
             b == AtLeast(s[r + 1])
  <2>3. a >= r + 1 /\ b >= n - (r + 1) + 1
    BY <1>2, <2>2
  <2>4. a \in Int /\ b \in Int
    BY <1>1, <1>3
  <2> HIDE DEF a, b
  <2>5. 1000 * a >= 1000 * (r + 1) /\ 1000 * b >= 1000 * (n - r)
    BY <1>1, <2>2, <2>3, <2>4
  <2>6. Under(p, n) \in Int /\ Over(p, n) \in Int
    BY <1>1 DEF Under, Over
  <2>7. 1000 * a > Under(p, n) /\ 1000 * b >= Over(p, n)
    BY <1>1, <2>1, <2>2, <2>4, <2>5, <2>6
  <2> QED
    BY <2>7 DEF a, b, r
<1> DEFINE latency == LatencyLine(rank, xs)
<1>6. latency = <<n, s[1], s[R(500)], s[R(900)], s[R(990)], s[R(999)], s[n]>>
  BY LineIs DEF n, s
<1> HIDE DEF R, latency
<1>7. AtLeast(latency[2]) = n /\ AtMost(latency[7]) = n
  <2>1. latency[2] = s[1] /\ latency[7] = s[n]
    BY <1>6
  <2> QED
    BY <1>4, <2>1
<1>8. \A i \in 1..4 : /\ 1000 * AtMost(latency[i + 2]) > Under(Permille[i], n)
                      /\ 1000 * AtLeast(latency[i + 2]) >= Over(Permille[i], n)
  <2> TAKE i \in 1..4
  <2>1. Permille[i] \in {500, 900, 990, 999} /\ latency[i + 2] = s[R(Permille[i])]
    BY <1>6 DEF Permille
  <2> QED
    BY <1>5, <2>1
<1>9. \A i \in 2..6 : latency[i] <= latency[i + 1]
  BY LineAscends DEF latency
<1> QED
  BY <1>7, <1>8, <1>9, Zenon DEF Balanced, Under, Over, n, AtMost, AtLeast, latency

-----------------------------------------------------------------------------
(* The inductive invariant                                                 *)

LEMMA Constants ==
  /\ Warmup \in Nat /\ Messages \in Nat /\ MaxNow \in Nat
  /\ Total \in Nat /\ Total = Warmup + Messages
BY BlockAssumption, MaxNowAssumption DEF Total

\* The line has seven numbers, the first of them how many trips were timed.
LEMMA LineCounts ==
  ASSUME NEW rank, NEW xs \in Seq(0..MaxNow)
  PROVE  /\ Len(LatencyLine(rank, xs)) = 7
         /\ LatencyLine(rank, xs)[1] = Len(xs)
BY DEF LatencyLine

LEMMA InitIInv == Init => IInv
<1> USE Constants DEF Init
<1>1. Init => TypeOK
  BY DEF TypeOK
<1>2. Init => Alternate /\ Tally /\ Recorded
  BY DEF Alternate, OnTrip, Tally, Recorded
<1>3. QED
  BY <1>1, <1>2 DEF IInv

LEMMA ServerStep ==
  ASSUME IInv, Server \/ ServerDies
  PROVE  IInv'
<1> USE Constants DEF IInv, TypeOK, Alternate, OnTrip, Tally, Recorded, stopwatch, tally
<1>1. CASE Bind
  BY <1>1 DEF Bind
<1>2. CASE Receive
  BY <1>2 DEF Receive
<1>3. CASE Echo
  BY <1>3 DEF Echo
<1>4. CASE ServerDies
  BY <1>4 DEF ServerDies
<1>5. QED
  BY <1>1, <1>2, <1>3, <1>4 DEF Server

\* A round trip that is over is recorded once the warmup is.
LEMMA CompleteStep ==
  ASSUME IInv, pc = "waiting", Complete, now' = now
  PROVE  /\ trips' = trips + 1 /\ trips' \in 0..Total
         /\ rtts' \in Seq(0..MaxNow) /\ Len(rtts') <= Messages
         /\ Len(rtts') = (IF trips' >= Warmup THEN trips' - Warmup ELSE 0)
<1> USE Constants DEF IInv, TypeOK, Alternate, OnTrip, Recorded, Complete
<1>1. trips' = trips + 1 /\ trips' \in 0..Total
  OBVIOUS
<1>2. CASE trips >= Warmup
  <2>1. now - t0 \in 0..MaxNow
    OBVIOUS
  <2>2. rtts' \in Seq(0..MaxNow) /\ Len(rtts') = Len(rtts) + 1
    BY <1>2, <2>1
  <2>3. QED
    BY <1>1, <1>2, <2>2
<1>3. CASE ~(trips >= Warmup)
  BY <1>1, <1>3
<1>4. QED
  BY <1>2, <1>3

LEMMA ClientStep ==
  ASSUME IInv, Client \/ SendFails \/ Closed
  PROVE  IInv'
<1> USE Constants DEF server, stopwatch, tally, OnTrip
<1>1. CASE Connect
  BY <1>1 DEF Connect, IInv, TypeOK, Alternate, Tally, Recorded
<1>2. CASE StartTrip \/ Send \/ SendFails
  <2>1. CASE StartTrip
    BY <2>1 DEF StartTrip, IInv, TypeOK, Alternate, Tally, Recorded
  <2>2. CASE Send
    BY <2>2 DEF Send, IInv, TypeOK, Alternate, Tally, Recorded
  <2>3. CASE SendFails
    BY <2>3 DEF SendFails, IInv, TypeOK, Alternate, Tally, Recorded
  <2>4. QED
    BY <1>2, <2>1, <2>2, <2>3
<1>3. CASE Recv
  <2>1. pc = "waiting" /\ Complete /\ now' = now
    BY <1>3 DEF Recv
  <2>2. TypeOK'
    BY <1>3, <2>1, CompleteStep DEF Recv, IInv, TypeOK, Complete
  <2>3. Alternate' /\ Tally'
    BY <1>3, <2>1 DEF Recv, IInv, TypeOK, Alternate, Tally, Complete
  <2>4. Recorded'
    BY <1>3, <2>1, CompleteStep DEF Recv, IInv, TypeOK, Recorded, Complete
  <2>5. QED
    BY <2>2, <2>3, <2>4 DEF IInv
<1>4. CASE Closed
  <2>1. CASE target.closed = "counts"
    <3>1. pc = "waiting" /\ Complete /\ now' = now
      BY <1>4, <2>1 DEF Closed
    <3>2. TypeOK'
      BY <1>4, <3>1, CompleteStep DEF Closed, IInv, TypeOK, Complete
    <3>3. Alternate' /\ Tally'
      BY <1>4, <2>1, <3>1 DEF Closed, IInv, TypeOK, Alternate, Tally, Complete
    <3>4. Recorded'
      BY <1>4, <3>1, CompleteStep DEF Closed, IInv, TypeOK, Recorded, Complete
    <3>5. QED
      BY <3>2, <3>3, <3>4 DEF IInv
  <2>2. CASE target.closed # "counts"
    BY <1>4, <2>2 DEF Closed, IInv, TypeOK, Alternate, Tally, Recorded
  <2>3. QED
    BY <2>1, <2>2
<1>5. CASE Report
  <2>1. /\ Len(line') = 7 /\ line' = LatencyLine(target.rank, rtts)
        /\ pc' = "done" /\ pc = "ready" /\ trips = Total
        /\ UNCHANGED <<target, server, wire, tally, stopwatch>>
    BY <1>5, LineCounts DEF Report, IInv, TypeOK
  <2>2. QED
    BY <2>1 DEF IInv, TypeOK, Alternate, Tally, Recorded
<1>6. QED
  BY <1>1, <1>2, <1>3, <1>4, <1>5 DEF Client

\* Time passes.
LEMMA TickStep ==
  ASSUME IInv, Tick
  PROVE  IInv'
<1> USE Constants DEF IInv, Alternate, OnTrip, Tally, Recorded, server, stopwatch, tally
<1>1. TypeOK'
  BY DEF Tick, TypeOK
<1>2. QED
  BY <1>1 DEF Tick

\* Every step keeps the inductive invariant.
LEMMA TripStep ==
  ASSUME IInv, [Next]_vars
  PROVE  IInv'
<1>1. CASE UNCHANGED vars
  BY <1>1 DEF vars, server, stopwatch, tally, OnTrip, IInv, TypeOK, Alternate, Tally, Recorded
<1>2. QED
  BY <1>1, ServerStep, ClientStep, TickStep DEF Next

\* Every reachable state satisfies the inductive invariant.
THEOREM TripInvariant == Spec => []IInv
<1>1. IInv /\ [Next]_vars => IInv'
  BY TripStep
<1>2. QED
  BY InitIInv, <1>1, PTL DEF Spec

\* The counters, the stopwatch and what it recorded keep their types.
THEOREM TypeCorrect == Spec => []TypeOK
<1>1. IInv => TypeOK
  BY DEF IInv
<1>2. QED
  BY <1>1, TripInvariant, PTL

\* The server has answered every round trip of the client one for one, but for
\* the trips that a client which does not look at what it received makes of nothing
\* once the server is gone; a line is printed of Messages trips.
THEOREM TripsAreEchoed == Spec => []EveryTripEchoed
<1>1. IInv => EveryTripEchoed
  BY Constants, LineCounts DEF IInv, TypeOK, Alternate, Tally, Recorded, EveryTripEchoed
<1>2. QED
  BY <1>1, TripInvariant, PTL

\* A printed line keeps its promise about the quantiles: it is the line of what
\* was timed.
THEOREM LineBalanced == Spec => []QuantilesBalanced
<1>1. IInv => QuantilesBalanced
  <2> SUFFICES ASSUME IInv, line # <<>>, rtts # <<>> PROVE QuantilesBalanced
    BY DEF QuantilesBalanced
  <2>1. rtts \in Seq(Int) /\ line = LatencyLine(target.rank, rtts)
    BY Constants DEF IInv, TypeOK, Recorded
  <2> QED
    BY <2>1, LineBalance DEF QuantilesBalanced
<1>2. QED
  BY <1>1, TripInvariant, PTL

\* What the client has timed is what it has waited, to the tick: a trip begins
\* with its clock read and is charged when it is over.
THEOREM TimeAccounted == Spec => []TimedIsWaited
<1> DEFINE Inv == IInv /\ TimedIsWaited
<1>1. Init => Inv
  <2>1. ASSUME Init PROVE TimedIsWaited
    BY <2>1, SumEmpty DEF Init, TimedIsWaited
  <2> QED
    BY <2>1, InitIInv
<1>2. ASSUME IInv PROVE rtts \in Seq(Int) /\ Sum(rtts) \in Int
  <2>1. rtts \in Seq(Int)
    BY <1>2, Constants DEF IInv, TypeOK
  <2> QED
    BY <2>1, SumAppend
<1>3. ASSUME IInv, TimedIsWaited, Recv \/ Closed
      PROVE  TimedIsWaited'
  <2>1. /\ rtts \in Seq(Int) /\ Sum(rtts) \in Int
        /\ now \in Int /\ t0 \in Int /\ trips \in Int /\ waited \in Int
        /\ pc = "waiting" /\ now' = now /\ t0' = t0 /\ waited' = waited
    BY <1>2, <1>3, Constants DEF IInv, TypeOK, Recv, Closed
  <2>2. CASE pc' = "failed"
    BY <2>2 DEF TimedIsWaited
  <2>3. CASE Complete /\ trips >= Warmup
    <3>1. rtts' = Append(rtts, now - t0) /\ pc' = "ready"
      BY <2>3 DEF Complete
    <3>2. Sum(rtts') = Sum(rtts) + (now - t0)
      BY <2>1, <3>1, SumAppend
    <3> QED
      BY <1>3, <2>1, <2>3, <3>1, <3>2 DEF TimedIsWaited, OnTrip
  <2>4. CASE Complete /\ ~(trips >= Warmup)
    BY <1>3, <2>1, <2>4 DEF Complete, TimedIsWaited, OnTrip
  <2> QED
    BY <1>3, <2>2, <2>3, <2>4 DEF Recv, Closed
<1>4. ASSUME IInv, TimedIsWaited, Tick
      PROVE  TimedIsWaited'
  <2>1. /\ Sum(rtts) \in Int
        /\ now \in Int /\ t0 \in Int /\ trips \in Int /\ waited \in Int
    BY <1>2, <1>4, Constants DEF IInv, TypeOK
  <2> QED
    BY <1>4, <2>1 DEF Tick, TimedIsWaited, OnTrip, tally
<1>5. Inv /\ [Next]_vars => Inv'
  <2> SUFFICES ASSUME IInv, TimedIsWaited, [Next]_vars PROVE TimedIsWaited'
    BY TripStep
  <2>1. CASE Recv \/ Closed
    BY <1>3, <2>1
  <2>2. CASE Tick
    BY <1>4, <2>2
  <2>3. CASE Connect \/ Report
    <3>1. rtts' = rtts /\ waited' = waited /\ ~OnTrip /\ ~OnTrip' /\ pc # "failed"
      BY <2>3 DEF Connect, Report, stopwatch, OnTrip
    <3> QED
      BY <3>1 DEF TimedIsWaited
  <2>4. CASE StartTrip
    <3>1. /\ rtts' = rtts /\ waited' = waited /\ ~OnTrip /\ pc # "failed"
          /\ now' = now /\ t0' = now /\ trips' = trips
      BY <2>4 DEF StartTrip, OnTrip, tally
    <3>2. now \in Int /\ Sum(rtts) \in Int
      BY <1>2, Constants DEF IInv, TypeOK
    <3> QED
      BY <3>1, <3>2 DEF TimedIsWaited
  <2>5. CASE Server \/ ServerDies \/ UNCHANGED vars
    <3>1. UNCHANGED <<pc, trips, stopwatch>>
      BY <2>5 DEF Server, Bind, Receive, Echo, ServerDies, vars, tally
    <3> QED
      BY <3>1 DEF TimedIsWaited, OnTrip, stopwatch
  <2>6. CASE Send \/ SendFails
    <3>1. /\ UNCHANGED <<trips, stopwatch>>
          /\ pc = "sending" /\ pc' \in {"waiting", "failed"}
      BY <2>6 DEF Send, SendFails, tally
    <3> QED
      BY <3>1 DEF TimedIsWaited, OnTrip, stopwatch
  <2> QED
    BY <2>1, <2>2, <2>3, <2>4, <2>5, <2>6 DEF Next, Client
<1>6. Inv => TimedIsWaited
  OBVIOUS
<1> QED
  BY <1>1, <1>5, <1>6, PTL DEF Spec
=============================================================================
