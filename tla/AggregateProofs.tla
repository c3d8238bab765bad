--------------------------- MODULE AggregateProofs ---------------------------
(***************************************************************************)
(* Proofs about Aggregate and the statistics it is built from, for every   *)
(* series of replicates and every replication policy.  What they need of   *)
(* the sort is that its k-th entry does not exceed x just if k samples do   *)
(* not, which RoundTripProofs shows with the rest of the counting; a        *)
(* latency replicate is a line of RoundTrip.                               *)
(***************************************************************************)
EXTENDS Aggregate, RoundTripProofs

-----------------------------------------------------------------------------
(* Quantiles                                                               *)

\* The q/4 quantile of n samples lies between two of the sorted ones, Part
\* quarters of the way up.
Lo(n, q)   == (q * (n - 1)) \div 4 + 1
Hi(n, q)   == (q * (n - 1) + 3) \div 4 + 1
Part(n, q) == (q * (n - 1)) % 4

\* The two neighbours are samples, and adjacent.
LEMMA Neighbours ==
  ASSUME NEW n \in Nat \ {0}, NEW q \in 0..4
  PROVE  /\ Lo(n, q) \in 1..n /\ Hi(n, q) \in Lo(n, q)..n /\ Hi(n, q) \in 1..n
         /\ Part(n, q) \in 0..3
         /\ Part(n, q) = 0 <=> Lo(n, q) = Hi(n, q)
<1>1. CASE q = 0
  BY <1>1 DEF Lo, Hi, Part
<1>2. CASE q = 1
  BY <1>2 DEF Lo, Hi, Part
<1>3. CASE q = 2
  BY <1>3 DEF Lo, Hi, Part
<1>4. CASE q = 3
  BY <1>4 DEF Lo, Hi, Part
<1>5. CASE q = 4
  BY <1>5 DEF Lo, Hi, Part
<1> QED
  BY <1>1, <1>2, <1>3, <1>4, <1>5

\* The share of the samples on a side of the quantile, four times and to within
\* one: those on the far side of the further neighbour.
Share(n, q) == q * (n - 1) + 4

LEMMA NeighbourShares ==
  ASSUME NEW n \in Nat \ {0}, NEW q \in 0..4
  PROVE  /\ 4 * (Hi(n, q) - 1) < Share(n, q)
         /\ 4 * (n - Lo(n, q)) < Share(n, 4 - q)
         /\ Share(n, q) \in Int /\ Share(n, 4 - q) \in Int
<1> USE DEF Lo, Hi, Share
<1>1. CASE q = 0
  BY <1>1
<1>2. CASE q = 1
  BY <1>2
<1>3. CASE q = 2
  BY <1>3
<1>4. CASE q = 3
  BY <1>4
<1>5. CASE q = 4
  BY <1>5
<1> QED
  BY <1>1, <1>2, <1>3, <1>4, <1>5

\* Seen from the other end they change places.
LEMMA NeighboursMirror ==
  ASSUME NEW n \in Nat \ {0}, NEW q \in 0..4
  PROVE  /\ Lo(n, 4 - q) = n + 1 - Hi(n, q) /\ Hi(n, 4 - q) = n + 1 - Lo(n, q)
         /\ Part(n, 4 - q) = IF Part(n, q) = 0 THEN 0 ELSE 4 - Part(n, q)
<1>1. CASE q = 0
  BY <1>1 DEF Lo, Hi, Part
<1>2. CASE q = 1
  BY <1>2 DEF Lo, Hi, Part
<1>3. CASE q = 2
  BY <1>3 DEF Lo, Hi, Part
<1>4. CASE q = 3
  BY <1>4 DEF Lo, Hi, Part
<1>5. CASE q = 4
  BY <1>5 DEF Lo, Hi, Part
<1> QED
  BY <1>1, <1>2, <1>3, <1>4, <1>5

\* The next quartile lies between the same two or higher.
LEMMA NeighboursAscend ==
  ASSUME NEW n \in Nat \ {0}, NEW q \in 1..4
  PROVE  \/ Hi(n, q - 1) <= Lo(n, q)
         \/ /\ Lo(n, q - 1) = Lo(n, q) /\ Hi(n, q - 1) = Hi(n, q)
            /\ Part(n, q - 1) <= Part(n, q)
<1>2. CASE q = 1
  BY <1>2 DEF Lo, Hi, Part
<1>3. CASE q = 2
  BY <1>3 DEF Lo, Hi, Part
<1>4. CASE q = 3
  BY <1>4 DEF Lo, Hi, Part
<1>5. CASE q = 4
  BY <1>5 DEF Lo, Hi, Part
<1> QED
  BY <1>2, <1>3, <1>4, <1>5

\* An interpolation between two numbers, at scale four.
LEMMA Interpolated ==
  ASSUME NEW lo \in Int, NEW hi \in Int, NEW part \in 0..3, lo <= hi
  PROVE  /\ 4 * lo + part * (hi - lo) \in Int
         /\ 4 * lo <= 4 * lo + part * (hi - lo)
         /\ 4 * lo + part * (hi - lo) <= 4 * hi
<1>1. CASE part = 0
  BY <1>1
<1>2. CASE part = 1
  BY <1>2
<1>3. CASE part = 2
  BY <1>3
<1>4. CASE part = 3
  BY <1>4
<1> QED
  BY <1>1, <1>2, <1>3, <1>4

\* The quantile of some samples, by its neighbours.
LEMMA QuantileIs ==
  ASSUME NEW xs \in Seq(Int), xs # <<>>, NEW q \in 0..4
  PROVE  LET n == Len(xs)
             v == Sorted(xs)
         IN  /\ Quantile4(xs, q)
                  = 4 * v[Lo(n, q)] + Part(n, q) * (v[Hi(n, q)] - v[Lo(n, q)])
             /\ v[Lo(n, q)] \in Int /\ v[Hi(n, q)] \in Int
             /\ v[Lo(n, q)] <= v[Hi(n, q)]
<1> DEFINE n == Len(xs)
           v == Sorted(xs)
<1>1. n \in Nat \ {0} /\ Len(v) = n
  BY SortedType
<1>2. Quantile4(xs, q) = 4 * v[Lo(n, q)] + Part(n, q) * (v[Hi(n, q)] - v[Lo(n, q)])
  BY <1>1 DEF Quantile4, Lo, Hi, Part
<1>3. Lo(n, q) \in 1..n /\ Hi(n, q) \in Lo(n, q)..n /\ Hi(n, q) \in 1..n
  <2> HIDE DEF n
  <2> QED BY <1>1, Neighbours
<1> QED
  BY <1>2, <1>3, SortedInt, SortedAscends

\* The quantile lies between its neighbours.
LEMMA QuantileBetween ==
  ASSUME NEW xs \in Seq(Int), xs # <<>>, NEW q \in 0..4
  PROVE  LET n == Len(xs)
             v == Sorted(xs)
         IN  /\ Quantile4(xs, q) \in Int
             /\ v[Lo(n, q)] \in Int /\ v[Hi(n, q)] \in Int
             /\ 4 * v[Lo(n, q)] <= Quantile4(xs, q)
             /\ Quantile4(xs, q) <= 4 * v[Hi(n, q)]
<1> DEFINE n == Len(xs)
           lo == Sorted(xs)[Lo(n, q)]
           hi == Sorted(xs)[Hi(n, q)]
<1>1. n \in Nat \ {0}
  OBVIOUS
<1>2. /\ Quantile4(xs, q) = 4 * lo + Part(n, q) * (hi - lo)
      /\ lo \in Int /\ hi \in Int /\ lo <= hi
  BY QuantileIs
<1>3. Part(n, q) \in 0..3
  <2> HIDE DEF n
  <2> QED BY <1>1, Neighbours
<1> DEFINE part == Part(n, q)
<1> HIDE DEF lo, hi, part
<1>4. /\ 4 * lo + part * (hi - lo) \in Int
      /\ 4 * lo <= 4 * lo + part * (hi - lo)
      /\ 4 * lo + part * (hi - lo) <= 4 * hi
  BY <1>2, <1>3, Interpolated DEF part
<1> QED
  BY <1>2, <1>4 DEF lo, hi, part

\* No data, no quantile.
LEMMA QuantileNone ==
  ASSUME NEW q
  PROVE  Quantile4(<<>>, q) = 0
BY DEF Quantile4

LEMMA QuantileInt ==
  ASSUME NEW xs \in Seq(Int), NEW q \in 0..4
  PROVE  Quantile4(xs, q) \in Int
BY QuantileBetween, QuantileNone

\* The quartiles are in order.
LEMMA QuartilesAscend ==
  ASSUME NEW xs \in Seq(Int), xs # <<>>, NEW q \in 1..4
  PROVE  Quantile4(xs, q - 1) <= Quantile4(xs, q)
<1> DEFINE n == Len(xs)
           v == Sorted(xs)
<1>1. n \in Nat \ {0} /\ q \in 0..4 /\ q - 1 \in 0..4
  OBVIOUS
<1>2. /\ Lo(n, q) \in 1..n /\ Hi(n, q - 1) \in 1..n
      /\ Part(n, q) \in 0..3 /\ Part(n, q - 1) \in 0..3
  <2> HIDE DEF n
  <2>1. /\ Lo(n, q) \in 1..n /\ Part(n, q) \in 0..3 /\ Part(n, q - 1) \in 0..3
        /\ Lo(n, q - 1) \in 1..n /\ Hi(n, q - 1) \in Lo(n, q - 1)..n
    BY <1>1, Neighbours
  <2> QED
    BY <1>1, <2>1
<1>3. CASE Hi(n, q - 1) <= Lo(n, q)
  <2>1. v[Hi(n, q - 1)] <= v[Lo(n, q)]
    <3>1. Lo(n, q) \in Hi(n, q - 1)..n
      BY <1>1, <1>2, <1>3
    <3> QED BY <1>2, <3>1, SortedAscends
  <2>2. /\ Quantile4(xs, q - 1) \in Int /\ Quantile4(xs, q) \in Int
        /\ v[Hi(n, q - 1)] \in Int /\ v[Lo(n, q)] \in Int
        /\ Quantile4(xs, q - 1) <= 4 * v[Hi(n, q - 1)] /\ 4 * v[Lo(n, q)] <= Quantile4(xs, q)
    BY <1>1, QuantileBetween
  <2> QED
    BY <2>1, <2>2
<1>4. CASE /\ Lo(n, q - 1) = Lo(n, q) /\ Hi(n, q - 1) = Hi(n, q)
           /\ Part(n, q - 1) <= Part(n, q)
  <2> DEFINE lo == v[Lo(n, q)]
             hi == v[Hi(n, q)]
             a == Part(n, q - 1)
             b == Part(n, q)
  <2>1. /\ Quantile4(xs, q) = 4 * lo + b * (hi - lo) /\ Quantile4(xs, q - 1) = 4 * lo + a * (hi - lo)
        /\ lo \in Int /\ hi \in Int /\ lo <= hi /\ a \in 0..3 /\ b \in 0..3 /\ a <= b
    BY <1>1, <1>2, <1>4, QuantileIs
  <2> HIDE DEF lo, hi, a, b
  <2>2. 4 * lo + a * (hi - lo) <= 4 * lo + b * (hi - lo)
    <3>1. /\ a = 0 \/ a = 1 \/ a = 2 \/ a = 3
          /\ b = 0 \/ b = 1 \/ b = 2 \/ b = 3
      BY <2>1
    <3> QED BY <2>1, <3>1
  <2> QED
    BY <2>1, <2>2
<1>5. \/ Hi(n, q - 1) <= Lo(n, q)
      \/ /\ Lo(n, q - 1) = Lo(n, q) /\ Hi(n, q - 1) = Hi(n, q)
         /\ Part(n, q - 1) <= Part(n, q)
  <2> HIDE DEF n
  <2> QED BY <1>1, NeighboursAscend
<1> QED
  BY <1>3, <1>4, <1>5

\* What is interpolated between numbers that are at most c times others is, too.
Mix(x1, x2, part) == 4 * x1 + part * (x2 - x1)

LEMMA MixMonotone ==
  ASSUME NEW x1 \in Int, NEW x2 \in Int, NEW y1 \in Int, NEW y2 \in Int, NEW c \in Nat,
         NEW part \in 0..3, x1 <= c * y1, x2 <= c * y2
  PROVE  Mix(x1, x2, part) <= c * Mix(y1, y2, part)
<1> USE DEF Mix
<1> DEFINE z1 == c * y1
           z2 == c * y2
<1>1. z1 \in Int /\ z2 \in Int /\ x1 <= z1 /\ x2 <= z2
  OBVIOUS
<1>2. c * (4 * y1 + part * (y2 - y1)) = 4 * z1 + part * (z2 - z1)
  <2>1. CASE part = 0
    BY <2>1
  <2>2. CASE part = 1
    BY <2>2
  <2>3. CASE part = 2
    BY <2>3
  <2>4. CASE part = 3
    BY <2>4
  <2> QED
    BY <2>1, <2>2, <2>3, <2>4
<1> HIDE DEF z1, z2
<1>3. 4 * x1 + part * (x2 - x1) <= 4 * z1 + part * (z2 - z1)
  <2>1. CASE part = 0
    BY <1>1, <2>1
  <2>2. CASE part = 1
    BY <1>1, <2>2
  <2>3. CASE part = 2
    BY <1>1, <2>3
  <2>4. CASE part = 3
    BY <1>1, <2>4
  <2> QED
    BY <2>1, <2>2, <2>3, <2>4
<1> QED
  BY <1>2, <1>3

\* Samples that are at most c times others have quantiles that are, too.
LEMMA QuantileMonotone ==
  ASSUME NEW xs \in Seq(Int), NEW ys \in Seq(Int), Len(xs) = Len(ys),
         NEW c \in Nat, \A i \in 1..Len(xs) : xs[i] <= c * ys[i],
         NEW q \in 0..4
  PROVE  Quantile4(xs, q) <= c * Quantile4(ys, q)
<1> DEFINE n == Len(xs)
<1>1. CASE xs = <<>>
  <2>1. ys = <<>>
    BY <1>1
  <2> QED
    BY <1>1, <2>1, QuantileNone
<1>2. CASE xs # <<>>
  <2> DEFINE lo == Lo(n, q)
             hi == Hi(n, q)
             part == Part(n, q)
             x1 == Sorted(xs)[lo]
             x2 == Sorted(xs)[hi]
             y1 == Sorted(ys)[lo]
             y2 == Sorted(ys)[hi]
  <2>1. n \in Nat \ {0} /\ ys # <<>> /\ Len(ys) = n
    BY <1>2
  <2>2. lo \in 1..n /\ hi \in 1..n /\ part \in 0..3
    <3> HIDE DEF n
    <3> QED BY <2>1, Neighbours
  <2>3. x1 <= c * y1 /\ x2 <= c * y2
    BY <2>2, SortedBelow
  <2>4. /\ Quantile4(xs, q) = Mix(x1, x2, part)
        /\ Quantile4(ys, q) = Mix(y1, y2, part)
        /\ x1 \in Int /\ x2 \in Int /\ y1 \in Int /\ y2 \in Int
    BY <1>2, <2>1, QuantileIs DEF Mix
  <2> HIDE DEF x1, x2, y1, y2, part
  <2>5. Mix(x1, x2, part) <= c * Mix(y1, y2, part)
    BY <2>2, <2>3, <2>4, MixMonotone
  <2> QED
    BY <2>4, <2>5
<1> QED
  BY <1>1, <1>2

\* Samples of a sequence, counted from the other side.
LEMMA UpToMirrored ==
  ASSUME NEW xs \in Seq(Int), NEW x \in Int
  PROVE  Cardinality(UpTo([i \in 1..Len(xs) |-> -xs[i]], x))
           = Len(xs) - Cardinality(UpTo(xs, -x - 1))
<1> DEFINE n == Len(xs)
           ys == [i \in 1..n |-> -xs[i]]
<1>1. /\ n \in Nat /\ DOMAIN xs = 1..n
      /\ \A i \in 1..n : xs[i] \in Int
  OBVIOUS
<1>2. UpTo(ys, x) = (1..n) \ UpTo(xs, -x - 1) /\ UpTo(xs, -x - 1) \in SUBSET (1..n)
  BY <1>1 DEF UpTo
<1> HIDE DEF ys, n
<1> QED
  BY <1>1, <1>2, Complement DEF ys, n

\* The mirrored series is sorted the other way.
LEMMA SortedMirrored ==
  ASSUME NEW xs \in Seq(Int), NEW k \in 1..Len(xs)
  PROVE  Sorted([i \in 1..Len(xs) |-> -xs[i]])[k] = -Sorted(xs)[Len(xs) + 1 - k]
<1> DEFINE n == Len(xs)
           ys == [i \in 1..n |-> -xs[i]]
           y == Sorted(ys)[k]
           j == n + 1 - k
           z == Sorted(xs)[j]
<1>1. n \in Nat /\ k \in 1..n /\ j \in 1..n
  OBVIOUS
<1>2. ys \in Seq(Int) /\ Len(ys) = n
  OBVIOUS
<1>3. y \in Int /\ z \in Int
  <2> HIDE DEF ys, n, j
  <2> QED BY <1>1, <1>2, SortedInt DEF n
<1>4. ASSUME NEW x \in Int
      PROVE  y <= x <=> -z <= x
  <2> DEFINE c == Cardinality(UpTo(xs, -x - 1))
  <2>1. y <= x <=> k <= Cardinality(UpTo(ys, x))
    <3> HIDE DEF ys, n
    <3> QED BY <1>1, <1>2, OrderStatistic
  <2>2. Cardinality(UpTo(ys, x)) = n - c
    BY UpToMirrored
  <2>3. -x - 1 \in Int
    OBVIOUS
  <2>4. z <= -x - 1 <=> j <= c
    <3> HIDE DEF j
    <3> QED BY <1>1, <2>3, OrderStatistic DEF n
  <2>5. c \in Int
    <3>1. UpTo(xs, -x - 1) \in SUBSET (1..n)
      BY DEF UpTo
    <3> QED BY <1>1, <3>1, IndexSet
  <2> HIDE DEF y, z, c, n
  <2> QED
    BY <1>1, <1>3, <2>1, <2>2, <2>4, <2>5
<1> HIDE DEF y, z
<1>5. -z \in Int /\ y <= -z /\ -z <= y
  BY <1>3, <1>4
<1>6. y = -z
  BY <1>3, <1>5
<1> QED
  BY <1>6 DEF y, z, ys, n, j

\* A quantile of the mirrored series is one of the series, mirrored.
LEMMA QuantileMirrored ==
  ASSUME NEW xs \in Seq(Int), xs # <<>>, NEW q \in 0..4
  PROVE  Quantile4(xs, q) = -Quantile4([i \in 1..Len(xs) |-> -xs[i]], 4 - q)
<1> DEFINE n == Len(xs)
           ys == [i \in 1..n |-> -xs[i]]
           v == Sorted(xs)
           w == Sorted(ys)
           lo == v[Lo(n, q)]
           hi == v[Hi(n, q)]
           part == Part(n, q)
<1>1. n \in Nat \ {0} /\ ys \in Seq(Int) /\ Len(ys) = n /\ ys # <<>> /\ 4 - q \in 0..4
  OBVIOUS
<1>2. /\ Lo(n, q) \in 1..n /\ Hi(n, q) \in 1..n /\ part \in 0..3
      /\ part = 0 => Lo(n, q) = Hi(n, q)
      /\ Lo(n, 4 - q) \in 1..n /\ Hi(n, 4 - q) \in 1..n
  <2> HIDE DEF n
  <2> QED BY <1>1, Neighbours
<1>3. /\ Lo(n, 4 - q) = n + 1 - Hi(n, q) /\ Hi(n, 4 - q) = n + 1 - Lo(n, q)
      /\ Part(n, 4 - q) = IF part = 0 THEN 0 ELSE 4 - part
  <2> HIDE DEF n
  <2> QED BY <1>1, NeighboursMirror
<1>4. \A k \in 1..n : w[k] = -v[n + 1 - k]
  BY SortedMirrored
<1>5. w[Lo(n, 4 - q)] = -hi /\ w[Hi(n, 4 - q)] = -lo
  <2> HIDE DEF v, w, n
  <2>1. n + 1 - Lo(n, 4 - q) = Hi(n, q) /\ n + 1 - Hi(n, 4 - q) = Lo(n, q)
    BY <1>1, <1>2, <1>3
  <2> QED
    BY <1>2, <1>4, <2>1
<1>6. /\ Quantile4(xs, q) = 4 * lo + part * (hi - lo)
      /\ lo \in Int /\ hi \in Int
  BY QuantileIs
<1>7. Quantile4(ys, 4 - q) = 4 * (-hi) + Part(n, 4 - q) * ((-lo) - (-hi))
  <2> HIDE DEF ys, n, w
  <2>1. Quantile4(ys, 4 - q)
          = 4 * w[Lo(n, 4 - q)] + Part(n, 4 - q) * (w[Hi(n, 4 - q)] - w[Lo(n, 4 - q)])
    BY <1>1, QuantileIs DEF w
  <2> QED
    BY <1>5, <2>1
<1>8. part = 0 => lo = hi
  BY <1>2
<1> HIDE DEF lo, hi, part, ys
<1>9. 4 * lo + part * (hi - lo) = -(4 * (-hi) + Part(n, 4 - q) * ((-lo) - (-hi)))
  <2>1. part = 0 \/ part = 1 \/ part = 2 \/ part = 3
    BY <1>2
  <2> QED
    BY <1>3, <1>6, <1>8, <2>1
<1> QED
  BY <1>6, <1>7, <1>9 DEF ys

\* At most a quantile's share of the samples is below it, and at most the rest
\* above.
LEMMA QuantileShares ==
  ASSUME NEW xs \in Seq(Int), xs # <<>>, NEW q \in 0..4
  PROVE  LET n == Len(xs)
         IN  /\ 4 * Cardinality({i \in 1..n : 4 * xs[i] < Quantile4(xs, q)}) < Share(n, q)
             /\ 4 * Cardinality({i \in 1..n : 4 * xs[i] > Quantile4(xs, q)}) < Share(n, 4 - q)
<1> DEFINE n == Len(xs)
           quant == Quantile4(xs, q)
           lo == Sorted(xs)[Lo(n, q)]
           hi == Sorted(xs)[Hi(n, q)]
           below == {i \in 1..n : 4 * xs[i] < quant}
           above == {i \in 1..n : 4 * xs[i] > quant}
           below2 == {i \in 1..n : xs[i] < hi}
           above2 == {i \in 1..n : xs[i] > lo}
<1>1. n \in Nat \ {0} /\ \A i \in 1..n : xs[i] \in Int
  OBVIOUS
<1>2. Lo(n, q) \in 1..n /\ Hi(n, q) \in 1..n
  <2> HIDE DEF n
  <2> QED BY <1>1, Neighbours
<1>3. /\ 4 * (Hi(n, q) - 1) < Share(n, q)
      /\ 4 * (n - Lo(n, q)) < Share(n, 4 - q)
      /\ Share(n, q) \in Int /\ Share(n, 4 - q) \in Int
  <2> HIDE DEF n
  <2> QED BY <1>1, NeighbourShares
<1>4. /\ quant \in Int /\ lo \in Int /\ hi \in Int
      /\ 4 * lo <= quant /\ quant <= 4 * hi
  BY QuantileBetween
<1>5. Cardinality(below2) <= Hi(n, q) - 1 /\ Cardinality(above2) <= n - Lo(n, q)
  BY <1>2, SortedSplits
<1>6. below \in SUBSET below2 /\ above \in SUBSET above2
  <2> HIDE DEF quant, lo, hi, n
  <2>1. \A i \in 1..n : /\ 4 * xs[i] < quant => xs[i] < hi
                        /\ 4 * xs[i] > quant => xs[i] > lo
    BY <1>1, <1>4
  <2> QED BY <2>1
<1>7. below2 \in SUBSET (1..n) /\ above2 \in SUBSET (1..n)
  OBVIOUS
<1>8. /\ Cardinality(below) <= Cardinality(below2) /\ Cardinality(above) <= Cardinality(above2)
      /\ Cardinality(below) \in Nat /\ Cardinality(above) \in Nat
      /\ Cardinality(below2) \in Nat /\ Cardinality(above2) \in Nat
  <2> HIDE DEF below, above, below2, above2, n
  <2>1. below \in SUBSET (1..n) /\ above \in SUBSET (1..n)
    BY <1>6, <1>7
  <2>2. Cardinality(below) <= Cardinality(below2) /\ Cardinality(above) <= Cardinality(above2)
    BY <1>1, <1>6, <1>7, Fewer
  <2>3. /\ Cardinality(below) \in Nat /\ Cardinality(above) \in Nat
        /\ Cardinality(below2) \in Nat /\ Cardinality(above2) \in Nat
    <3>1. \A S \in SUBSET (1..n) : Cardinality(S) \in 0..n
      BY <1>1, IndexSet
    <3> QED
      BY <1>7, <2>1, <3>1
  <2> QED BY <2>2, <2>3
<1> HIDE DEF below, above, below2, above2
<1>9. /\ 4 * Cardinality(below) < Share(n, q)
      /\ 4 * Cardinality(above) < Share(n, 4 - q)
  <2> DEFINE floor == Lo(n, q)
             ceiling == Hi(n, q)
             left == Share(n, q)
             right == Share(n, 4 - q)
  <2>1. /\ floor \in Int /\ ceiling \in Int /\ n \in Int /\ left \in Int /\ right \in Int
        /\ 4 * (ceiling - 1) < left /\ 4 * (n - floor) < right
        /\ Cardinality(below2) <= ceiling - 1 /\ Cardinality(above2) <= n - floor
    BY <1>1, <1>2, <1>3, <1>5
  <2> HIDE DEF floor, ceiling, left, right, n
  <2>2. 4 * Cardinality(below) < left /\ 4 * Cardinality(above) < right
    BY <1>8, <2>1
  <2> QED
    BY <2>2 DEF left, right
<1> QED
  BY <1>9 DEF below, above, quant, n

-----------------------------------------------------------------------------
(* Orders and selections                                                   *)

\* What the samples of two series have in common is what their quantiles do.
LEMMA SameQuantiles ==
  ASSUME NEW xs \in Seq(Int), NEW ys \in Seq(Int), Len(xs) = Len(ys),
         \A x \in Int : Cardinality(UpTo(xs, x)) = Cardinality(UpTo(ys, x)),
         NEW q
  PROVE  Quantile4(xs, q) = Quantile4(ys, q)
<1>1. Sorted(xs) = Sorted(ys)
  BY SameCounts
<1>2. xs = <<>> <=> ys = <<>>
  OBVIOUS
<1> QED
  BY <1>1, <1>2 DEF Quantile4

\* The samples in another order are the same samples.
LEMMA Reordered ==
  ASSUME NEW xs \in Seq(Int), NEW p \in Bijection(1..Len(xs), 1..Len(xs))
  PROVE  LET ys == [j \in 1..Len(xs) |-> xs[p[j]]]
         IN  /\ ys \in Seq(Int) /\ Len(ys) = Len(xs)
             /\ \A q : Quantile4(ys, q) = Quantile4(xs, q)
<1> DEFINE n == Len(xs)
           ys == [j \in 1..n |-> xs[p[j]]]
<1>1. /\ n \in Nat /\ DOMAIN xs = 1..n
      /\ \A i \in 1..n : xs[i] \in Int
  OBVIOUS
<1>2. \A j \in 1..n : p[j] \in 1..n
  BY DEF Bijection, Injection
<1>3. ys \in Seq(Int) /\ Len(ys) = n /\ DOMAIN ys = 1..n
  BY <1>1, <1>2
<1>4. ASSUME NEW x \in Int
      PROVE  Cardinality(UpTo(xs, x)) = Cardinality(UpTo(ys, x))
  <2>1. UpTo(ys, x) = Preimage(1..n, p, UpTo(xs, x))
    BY <1>1, <1>2 DEF UpTo, Preimage
  <2>2. UpTo(xs, x) \in SUBSET (1..n) /\ IsFiniteSet(1..n)
    BY <1>1, FS_Interval DEF UpTo
  <2> HIDE DEF ys, n
  <2> QED
    BY <2>1, <2>2, CountThrough DEF n
<1> HIDE DEF ys
<1> QED
  BY <1>3, <1>4, SameQuantiles DEF ys

\* The k-th of some indices.
Nth(idx) ==
  LET rank == [i \in idx |-> Cardinality({j \in idx : j <= i})]
  IN  [k \in 1..Cardinality(idx) |-> CHOOSE i \in idx : rank[i] = k]

\* Each of the indices is the k-th for one k.
LEMMA NthBijection ==
  ASSUME NEW n \in Nat, NEW idx \in SUBSET (1..n)
  PROVE  Nth(idx) \in Bijection(1..Cardinality(idx), idx)
<1> DEFINE m == Cardinality(idx)
           upto(i) == {j \in idx : j <= i}
           rank == [i \in idx |-> Cardinality(upto(i))]
           at(k) == CHOOSE i \in idx : rank[i] = k
<1>1. m \in Nat /\ IsFiniteSet(idx)
  BY IndexSet
<1>2. \A i \in idx : Cardinality(upto(i)) \in 1..m
  <2> TAKE i \in idx
  <2>1. /\ upto(i) \in SUBSET idx /\ upto(i) \in SUBSET (1..n)
        /\ i \in upto(i) /\ {} \in SUBSET upto(i)
    <3>1. i <= i
      OBVIOUS
    <3> QED BY <3>1
  <2> DEFINE S == upto(i)
  <2> HIDE DEF S
  <2>2. S \in SUBSET idx /\ S \in SUBSET (1..n) /\ {} \in SUBSET S /\ {} # S
    BY <2>1 DEF S
  <2>3. Cardinality(S) <= m /\ Cardinality({}) < Cardinality(S) /\ Cardinality(S) \in Nat
    <3>1. Cardinality(S) <= m
      BY <2>2, Fewer
    <3>2. Cardinality({}) < Cardinality(S)
      BY <2>2, Fewer
    <3>3. Cardinality(S) \in Nat
      BY <2>2, IndexSet
    <3> QED BY <3>1, <3>2, <3>3
  <2> QED
    BY <1>1, <2>3, FS_EmptySet DEF S
<1>3. \A i, j \in idx : i < j => Cardinality(upto(i)) < Cardinality(upto(j))
  <2> TAKE i, j \in idx
  <2> HAVE i < j
  <2> DEFINE S == upto(j)
             T == upto(i)
  <2>1. ~(j <= i) /\ j <= j /\ \A k \in idx : k <= i => k <= j
    OBVIOUS
  <2>2. S \in SUBSET (1..n) /\ T \in SUBSET S /\ j \in S /\ j \notin T
    BY <2>1
  <2> HIDE DEF S, T
  <2>3. Cardinality(T) < Cardinality(S)
    BY <2>2, Fewer
  <2> QED
    BY <2>3 DEF S, T
<1> HIDE DEF upto, m
<1>4. rank \in Injection(idx, 1..m)
  <2>1. rank \in [idx -> 1..m]
    BY <1>2
  <2>2. \A i, j \in idx : rank[i] = rank[j] => i = j
    <3> TAKE i, j \in idx
    <3>1. i \in Int /\ j \in Int
      OBVIOUS
    <3>2. rank[i] \in Int /\ rank[j] \in Int
      BY <1>2
    <3> QED
      BY <1>3, <3>1, <3>2
  <2> QED
    BY <2>1, <2>2 DEF Injection, IsInjective
<1> HIDE DEF rank
<1>5. \A k \in 1..m : \E i \in idx : rank[i] = k
  <2>1. IsFiniteSet(1..m) /\ Cardinality(1..m) = m
    BY <1>1, FS_Interval
  <2>2. rank \in Surjection(idx, 1..m)
    <3> DEFINE M == 1..m
    <3> HIDE DEF M
    <3> QED BY <1>4, <2>1, FS_Injection DEF m, M
  <2> QED
    BY <2>2 DEF Surjection
<1>6. \A k \in 1..m : at(k) \in idx /\ rank[at(k)] = k
  BY <1>5
<1>7. \A i \in idx : rank[i] \in 1..m /\ at(rank[i]) = i
  <2>1. \A i, j \in idx : rank[i] = rank[j] => i = j
    BY <1>4 DEF Injection, IsInjective
  <2>2. \A i \in idx : rank[i] \in 1..m
    BY <1>4 DEF Injection
  <2> HIDE DEF at
  <2> QED
    BY <1>6, <2>1, <2>2
<1>8. Nth(idx) = [k \in 1..m |-> at(k)]
  BY DEF Nth, rank, upto, m
<1> HIDE DEF at
<1> DEFINE f == [k \in 1..m |-> at(k)]
<1>9. /\ f \in [1..m -> idx]
      /\ \A k, l \in 1..m : f[k] = f[l] => k = l
      /\ \A i \in idx : \E k \in 1..m : f[k] = i
  BY <1>6, <1>7
<1> HIDE DEF f
<1>10. f \in Bijection(1..m, idx)
  BY <1>9 DEF Bijection, Injection, IsInjective, Surjection
<1> QED
  BY <1>8, <1>10 DEF f, m

\* What is selected is as many samples, those at the indices.
LEMMA SelectIs ==
  ASSUME NEW xs, NEW n \in Nat, NEW idx \in SUBSET (1..n)
  PROVE  /\ Select(xs, idx) = [k \in 1..Cardinality(idx) |-> xs[Nth(idx)[k]]]
         /\ Cardinality(idx) \in 0..n
         /\ \A k \in 1..Cardinality(idx) : Nth(idx)[k] \in idx
<1>1. Select(xs, idx) = [k \in 1..Cardinality(idx) |-> xs[Nth(idx)[k]]]
  BY DEF Select, Nth
<1>2. \A k \in 1..Cardinality(idx) : Nth(idx)[k] \in idx
  BY NthBijection DEF Bijection, Injection
<1> QED
  BY <1>1, <1>2, IndexSet

LEMMA SelectAt ==
  ASSUME NEW xs, NEW n \in Nat, NEW idx \in SUBSET (1..n),
         NEW k \in 1..Cardinality(idx)
  PROVE  Select(xs, idx)[k] = xs[Nth(idx)[k]] /\ Nth(idx)[k] \in idx
BY SelectIs

LEMMA SelectType ==
  ASSUME NEW xs \in Seq(Int), NEW idx \in SUBSET (1..Len(xs))
  PROVE  Select(xs, idx) \in Seq(Int) /\ Len(Select(xs, idx)) = Cardinality(idx)
<1>1. \A i \in 1..Len(xs) : xs[i] \in Int
  OBVIOUS
<1>2. Len(xs) \in Nat
  OBVIOUS
<1> DEFINE m == Cardinality(idx)
           n == Len(xs)
<1>3. /\ Select(xs, idx) = [k \in 1..m |-> xs[Nth(idx)[k]]]
      /\ m \in Nat
      /\ \A k \in 1..m : Nth(idx)[k] \in idx
  <2>1. n \in Nat /\ idx \in SUBSET (1..n)
    BY <1>2
  <2> HIDE DEF n
  <2> QED BY <2>1, SelectIs
<1>4. \A k \in 1..m : xs[Nth(idx)[k]] \in Int
  BY <1>1, <1>3
<1> DEFINE f == [k \in 1..m |-> xs[Nth(idx)[k]]]
<1> HIDE DEF m
<1>5. f \in Seq(Int) /\ Len(f) = m
  BY <1>3, <1>4
<1> QED
  BY <1>3, <1>5 DEF m

\* Counting what is selected is counting among the indices.
LEMMA SelectCounts ==
  ASSUME NEW n \in Nat, NEW idx \in SUBSET (1..n), NEW S \in SUBSET idx
  PROVE  Cardinality(Preimage(1..Cardinality(idx), Nth(idx), S)) = Cardinality(S)
<1> DEFINE M == 1..Cardinality(idx)
<1>1. Nth(idx) \in Bijection(M, idx)
  BY NthBijection
<1>2. IsFiniteSet(M)
  <2>1. Cardinality(idx) \in Nat
    BY IndexSet
  <2> QED BY <2>1, FS_Interval
<1> HIDE DEF M
<1>3. Cardinality(Preimage(M, Nth(idx), S)) = Cardinality(S)
  BY <1>1, <1>2, CountThrough
<1> QED
  BY <1>3 DEF M

LEMMA SelectUpTo ==
  ASSUME NEW xs \in Seq(Int), NEW idx \in SUBSET (1..Len(xs)), NEW x \in Int
  PROVE  Cardinality(UpTo(Select(xs, idx), x)) = Cardinality({i \in idx : xs[i] <= x})
<1> DEFINE n == Len(xs)
           us == Select(xs, idx)
           m == Cardinality(idx)
           S == {i \in idx : xs[i] <= x}
<1>1. n \in Nat /\ idx \in SUBSET (1..n)
  OBVIOUS
<1> HIDE DEF n
<1>2. /\ us = [k \in 1..m |-> xs[Nth(idx)[k]]]
      /\ \A k \in 1..m : Nth(idx)[k] \in idx
  BY <1>1, SelectIs
<1> HIDE DEF us, m
<1>3. UpTo(us, x) = Preimage(1..m, Nth(idx), S) /\ S \in SUBSET idx
  BY <1>2 DEF UpTo, Preimage
<1> HIDE DEF S
<1>4. Cardinality(Preimage(1..m, Nth(idx), S)) = Cardinality(S)
  BY <1>1, <1>3, SelectCounts DEF m
<1> QED
  BY <1>3, <1>4 DEF us, S

-----------------------------------------------------------------------------
(* What is published                                                       *)

Fields == {"p50", "p99", "rate", "cpu", "receiverS", "senderS"}

\* One field of all the records.
Field(rs, f) == [i \in DOMAIN rs |-> rs[i][f]]

LEMMA FieldType ==
  ASSUME NEW rs \in Seq(Replicated), NEW f \in Fields
  PROVE  /\ Field(rs, f) \in Seq(Int) /\ Len(Field(rs, f)) = Len(rs)
         /\ \A i \in 1..Len(rs) : Field(rs, f)[i] = rs[i][f] /\ rs[i][f] \in Nat
<1>1. Len(rs) \in Nat /\ DOMAIN rs = 1..Len(rs)
  OBVIOUS
<1>2. \A r \in Replicated : r[f] \in Nat
  BY DEF Replicated, Fields
<1>3. \A i \in 1..Len(rs) : rs[i][f] \in Nat
  BY <1>1, <1>2
<1>4. Field(rs, f) = [i \in 1..Len(rs) |-> rs[i][f]]
  BY <1>1 DEF Field
<1> QED
  BY <1>1, <1>3, <1>4

\* The primary metric is one of the fields.
Primary == IF Latency THEN "p50" ELSE "rate"

LEMMA PrimariesAre ==
  ASSUME NEW rs
  PROVE  Primary \in Fields /\ Primaries(rs) = Field(rs, Primary)
BY DEF Primary, Fields, Primaries, PrimaryMetric, Field

LEMMA PrimariesType ==
  ASSUME NEW rs \in Seq(Replicated)
  PROVE  Primaries(rs) \in Seq(Int) /\ Len(Primaries(rs)) = Len(rs)
<1>1. Primary \in Fields /\ Primaries(rs) = Field(rs, Primary)
  BY PrimariesAre
<1> QED
  BY <1>1, FieldType

\* The filter keeps some of the samples.
LEMMA KeptIndices ==
  ASSUME NEW xs \in Seq(Int), NEW rep
  PROVE  Kept(xs, rep) \in SUBSET (1..Len(xs))
<1>1. DOMAIN xs = 1..Len(xs)
  OBVIOUS
<1> QED
  BY <1>1 DEF Kept

LEMMA SurvivorsIndices ==
  ASSUME NEW rs \in Seq(Replicated)
  PROVE  Survivors(rs) \in SUBSET (1..Len(rs))
BY PrimariesType, KeptIndices DEF Survivors

\* To select records and then a field is to select from the field.
LEMMA SelectField ==
  ASSUME NEW rs \in Seq(Replicated), NEW idx \in SUBSET (1..Len(rs)), NEW f \in Fields
  PROVE  [i \in DOMAIN Select(rs, idx) |-> Select(rs, idx)[i][f]] = Select(Field(rs, f), idx)
<1> DEFINE n == Len(rs)
           m == Cardinality(idx)
<1>1. n \in Nat /\ DOMAIN rs = 1..n /\ idx \in SUBSET (1..n)
  OBVIOUS
<1> HIDE DEF n
<1>2. /\ Select(rs, idx) = [k \in 1..m |-> rs[Nth(idx)[k]]]
      /\ Select(Field(rs, f), idx) = [k \in 1..m |-> Field(rs, f)[Nth(idx)[k]]]
      /\ \A k \in 1..m : Nth(idx)[k] \in idx
  BY <1>1, SelectIs
<1>3. \A i \in idx : Field(rs, f)[i] = rs[i][f]
  BY <1>1 DEF Field
<1> HIDE DEF m
<1> QED
  BY <1>2, <1>3

\* The median of a field over the replicates that survive.
Kernel(rs, f) == Select(Field(rs, f), Survivors(rs))

LEMMA KernelType ==
  ASSUME NEW rs \in Seq(Replicated), NEW f \in Fields
  PROVE  /\ Kernel(rs, f) \in Seq(Int)
         /\ Len(Kernel(rs, f)) = Cardinality(Survivors(rs))
         /\ Median4(Kernel(rs, f)) \in Int
<1>1. Field(rs, f) \in Seq(Int) /\ Survivors(rs) \in SUBSET (1..Len(Field(rs, f)))
  BY FieldType, SurvivorsIndices
<1>2. Kernel(rs, f) \in Seq(Int) /\ Len(Kernel(rs, f)) = Cardinality(Survivors(rs))
  BY <1>1, SelectType DEF Kernel
<1> QED
  BY <1>2, QuantileInt DEF Median4

\* A published record, field by field.
LEMMA AggregateIs ==
  ASSUME NEW rs \in Seq(Replicated)
  PROVE  AggregateCell(rs) =
           [ p50        |-> Round4(Median4(Kernel(rs, "p50"))),
             p99        |-> Round4(Median4(Kernel(rs, "p99"))),
             rate4      |-> Median4(Kernel(rs, "rate")),
             cpu4       |-> Median4(Kernel(rs, "cpu")),
             receiver4S |-> Median4(Kernel(rs, "receiverS")),
             sender4S   |-> Median4(Kernel(rs, "senderS")),
             stability  |-> Summarize(Primaries(rs), Policy) ]
<1> DEFINE kept == Select(rs, Survivors(rs))
           Med(f) == Median4([i \in DOMAIN kept |-> kept[i][f]])
<1>1. \A f \in Fields : Med(f) = Median4(Kernel(rs, f))
  BY SurvivorsIndices, SelectField DEF Kernel
<1> HIDE DEF kept
<1>2. Merge(kept, Summarize(Primaries(rs), Policy)) =
           [ p50        |-> Round4(Med("p50")),
             p99        |-> Round4(Med("p99")),
             rate4      |-> Med("rate"),
             cpu4       |-> Med("cpu"),
             receiver4S |-> Med("receiverS"),
             sender4S   |-> Med("senderS"),
             stability  |-> Summarize(Primaries(rs), Policy) ]
  BY DEF Merge
<1> HIDE DEF Med
<1>3. /\ Med("p50") = Median4(Kernel(rs, "p50")) /\ Med("p99") = Median4(Kernel(rs, "p99"))
      /\ Med("rate") = Median4(Kernel(rs, "rate")) /\ Med("cpu") = Median4(Kernel(rs, "cpu"))
      /\ Med("receiverS") = Median4(Kernel(rs, "receiverS"))
      /\ Med("senderS") = Median4(Kernel(rs, "senderS"))
  BY <1>1 DEF Fields
<1> QED
  BY <1>2, <1>3 DEF AggregateCell, kept

-----------------------------------------------------------------------------
(* The inductive invariant                                                 *)

\* A divisor and its quotient.
LEMMA Quotient ==
  ASSUME NEW a \in Nat, NEW b \in Nat \ {0}, a % b = 0
  PROVE  a \div b \in Nat /\ a = (a \div b) * b
OBVIOUS

\* A part of a product is no more than the product.
LEMMA PartOf ==
  ASSUME NEW c \in Nat, NEW total \in Nat, NEW x \in Nat, NEW y \in Nat
  PROVE  c * total * x \in Nat /\ c * total * x <= c * (x + y) * total
<1>1. c * (x + y) * total = c * total * x + c * total * y
  OBVIOUS
<1>2. c * total * x \in Nat /\ c * total * y \in Nat
  OBVIOUS
<1> QED
  BY <1>1, <1>2

\* The halves of an exact total are no more than that, whatever was sampled.
LEMMA Halves ==
  ASSUME NEW total \in Nat, NEW measured \in Nat, NEW others \in Nat,
         measured + others = 0 \/ Scale % (measured + others) = 0
  PROVE  LET half == SplitCpuS(total, measured, others)
         IN  /\ half.measured \in Nat /\ half.others \in Nat
             /\ half.measured <= Scale * total /\ half.others <= Scale * total
<1> DEFINE half == SplitCpuS(total, measured, others)
           sampled == measured + others
           c == Scale \div sampled
<1>1. Scale \in Nat /\ Scale * total \in Nat
  BY ScaleAssumption
<1>2. CASE sampled = 0
  BY <1>1, <1>2 DEF SplitCpuS
<1>3. CASE sampled # 0
  <2>1. half.measured = c * total * measured /\ half.others = c * total * others
    BY <1>3 DEF SplitCpuS
  <2>2. c \in Nat /\ Scale = c * sampled
    <3>1. sampled \in Nat \ {0} /\ Scale % sampled = 0
      BY <1>3
    <3> HIDE DEF sampled
    <3> QED BY <1>1, <3>1, Quotient
  <2> HIDE DEF c, half
  <2>3. /\ c * total * measured \in Nat
        /\ c * total * measured <= c * (measured + others) * total
    BY <2>2, PartOf
  <2>4. /\ c * total * others \in Nat
        /\ c * total * others <= c * (others + measured) * total
    BY <2>2, PartOf
  <2>5. measured + others = others + measured
    OBVIOUS
  <2> QED
    BY <2>1, <2>2, <2>3, <2>4, <2>5 DEF half
<1> QED
  BY <1>2, <1>3

\* A replicate's record is as the invariant has it.
LEMMA RecordType ==
  ASSUME kind \in Kinds, NEW o \in Observed[kind]
  PROVE  RecordOf(o) \in Replicated
<1>1. /\ o.p50 \in Nat /\ o.p99 \in Nat /\ o.rate \in Nat /\ o.cpu \in Nat
      /\ o.sampledMeasured \in Nat /\ o.sampledOthers \in Nat
      /\ o.p50 <= o.p99
      /\ \/ o.sampledMeasured + o.sampledOthers = 0
         \/ Scale % (o.sampledMeasured + o.sampledOthers) = 0
  BY ObservedAssumption DEF Observation
<1> DEFINE half == SplitCpuS(o.cpu, o.sampledMeasured, o.sampledOthers)
<1>2. /\ half.measured \in Nat /\ half.others \in Nat
      /\ half.measured <= Scale * o.cpu /\ half.others <= Scale * o.cpu
  BY <1>1, Halves
<1> HIDE DEF half
<1> DEFINE receiver == IF Latency THEN half.others ELSE half.measured
           sender   == IF Latency THEN half.measured ELSE half.others
<1>3. RecordOf(o) = [ p50 |-> o.p50, p99 |-> o.p99, rate |-> o.rate, cpu |-> o.cpu,
                      receiverS |-> receiver, senderS |-> sender ]
  BY DEF RecordOf, half
<1>4. /\ receiver \in Nat /\ sender \in Nat
      /\ receiver <= Scale * o.cpu /\ sender <= Scale * o.cpu
  BY <1>2
<1> HIDE DEF receiver, sender
<1> QED
  BY <1>1, <1>3, <1>4 DEF Replicated

\* Every reachable state of a cell satisfies the inductive invariant.
THEOREM CellInvariant == MergeSpec => []CellInv
<1>1. MergeInit => CellInv
  BY DEF MergeInit, CellInv
<1>2. CellInv /\ [MergeNext]_cell => CellInv'
  <2> SUFFICES ASSUME CellInv, [MergeNext]_cell PROVE CellInv'
    OBVIOUS
  <2>1. ASSUME NEW o \in Observed[kind], Replicate(o) PROVE CellInv'
    <3>1. RecordOf(o) \in Replicated
      BY RecordType DEF CellInv
    <3> QED
      BY <2>1, <3>1 DEF CellInv, Replicate
  <2>2. CASE Publish
    <3>1. UNCHANGED <<kind, records>> /\ records # <<>> /\ published' = <<AggregateCell(records)>>
      BY <2>2 DEF Publish
    <3>2. AggregateCell(records)' = AggregateCell(records)
      BY <3>1 DEF AggregateCell, Survivors, Primaries, PrimaryMetric, Latency
    <3> QED
      BY <3>1, <3>2 DEF CellInv
  <2>3. CASE UNCHANGED cell
    <3>1. UNCHANGED <<kind, records, published>>
      BY <2>3 DEF cell
    <3>2. AggregateCell(records)' = AggregateCell(records)
      BY <3>1 DEF AggregateCell, Survivors, Primaries, PrimaryMetric, Latency
    <3> QED
      BY <3>1, <3>2 DEF CellInv
  <2> QED
    BY <2>1, <2>2, <2>3 DEF MergeNext, Finished
<1> QED
  BY <1>1, <1>2, PTL DEF MergeSpec

\* What the properties need of a state in which there is a published record.
LEMMA WhatIsPublished ==
  ASSUME CellInv, published # <<>>
  PROVE  /\ records \in Seq(Replicated) /\ records # <<>>
         /\ Out = AggregateCell(records)
         /\ Series \in Seq(Int) /\ Series # <<>> /\ Len(Series) = Len(records)
<1>1. records \in Seq(Replicated) /\ records # <<>> /\ Out = AggregateCell(records)
  BY DEF CellInv, Out
<1>2. Series \in Seq(Int) /\ Len(Series) = Len(records)
  BY <1>1, PrimariesType DEF Series
<1>3. Series # <<>>
  BY <1>1, <1>2
<1> QED
  BY <1>1, <1>2, <1>3

-----------------------------------------------------------------------------
(* The record                                                              *)

\* The summary is of the series the record's headline is taken from.
LEMMA SummaryOf ==
  ASSUME NEW rs \in Seq(Replicated)
  PROVE  LET s == Summarize(Primaries(rs), Policy)
             kept == Kernel(rs, Primary)
             dropped == Len(rs) - Cardinality(Survivors(rs))
         IN  /\ s.median4 = Median4(kept)
             /\ s.stable <=> /\ Len(kept) >= 3
                             /\ WithinTarget(kept, Policy)
                             /\ FewRejected(Len(rs), dropped, Policy)
<1> DEFINE xs == Primaries(rs)
           kept == Kernel(rs, Primary)
<1>1. Primary \in Fields /\ xs = Field(rs, Primary)
  BY PrimariesAre
<1>2. kept = Select(xs, Kept(xs, Policy))
  BY <1>1 DEF Kernel, Survivors
<1>3. Len(kept) = Cardinality(Survivors(rs)) /\ Len(xs) = Len(rs)
  BY <1>1, KernelType, FieldType
<1> HIDE DEF kept, xs
<1> QED
  BY <1>2, <1>3 DEF Summarize, kept, xs

\* The published headline is the published median of the stability block, though
\* each is computed from a filtering of its own.
THEOREM HeadlineVouchedFor == MergeSpec => []HeadlineIsTheStableMedian
<1>1. CellInv => HeadlineIsTheStableMedian
  <2> SUFFICES ASSUME CellInv, published # <<>> PROVE HeadlineIsTheStableMedian
    BY DEF HeadlineIsTheStableMedian
  <2>1. records \in Seq(Replicated) /\ Out = AggregateCell(records)
    BY WhatIsPublished
  <2>2. /\ Out.p50 = Round4(Median4(Kernel(records, "p50")))
        /\ Out.rate4 = Median4(Kernel(records, "rate"))
        /\ Out.stability = Summarize(Primaries(records), Policy)
    BY <2>1, AggregateIs
  <2>3. Out.stability.median4 = Median4(Kernel(records, Primary))
    BY <2>1, <2>2, SummaryOf
  <2> QED
    BY <2>2, <2>3 DEF HeadlineIsTheStableMedian, Primary
<1> QED
  BY <1>1, CellInvariant, PTL

\* What holds of a field of every replicate holds of its published median.
LEMMA KernelBelow ==
  ASSUME NEW rs \in Seq(Replicated), NEW f \in Fields, NEW g \in Fields, NEW c \in Nat,
         \A r \in Replicated : r[f] <= c * r[g]
  PROVE  Median4(Kernel(rs, f)) <= c * Median4(Kernel(rs, g))
<1> DEFINE idx == Survivors(rs)
           m == Cardinality(idx)
           n == Len(rs)
           xs == Kernel(rs, f)
           ys == Kernel(rs, g)
<1>1. n \in Nat /\ idx \in SUBSET (1..n) /\ \A i \in 1..n : rs[i] \in Replicated
  BY SurvivorsIndices
<1>2. xs \in Seq(Int) /\ ys \in Seq(Int) /\ Len(xs) = m /\ Len(ys) = m
  BY KernelType
<1>3. /\ \A i \in 1..n : Field(rs, f)[i] = rs[i][f] /\ Field(rs, g)[i] = rs[i][g]
  BY FieldType
<1> HIDE DEF idx, n
<1>4. ASSUME NEW k \in 1..m
      PROVE  /\ xs[k] = Field(rs, f)[Nth(idx)[k]]
             /\ ys[k] = Field(rs, g)[Nth(idx)[k]]
             /\ Nth(idx)[k] \in idx
  <2>1. xs = Select(Field(rs, f), idx) /\ ys = Select(Field(rs, g), idx)
    BY DEF Kernel, idx
  <2> HIDE DEF xs, ys
  <2> QED
    BY <1>1, <2>1, SelectAt
<1> HIDE DEF m, xs, ys
<1>5. \A k \in 1..m : xs[k] <= c * ys[k]
  <2> TAKE k \in 1..m
  <2>1. Nth(idx)[k] \in 1..n
    BY <1>1, <1>4
  <2>2. xs[k] = rs[Nth(idx)[k]][f] /\ ys[k] = rs[Nth(idx)[k]][g]
    BY <1>3, <1>4, <2>1
  <2> QED
    BY <1>1, <2>1, <2>2
<1>6. Quantile4(xs, 2) <= c * Quantile4(ys, 2)
  <2>1. Len(xs) = Len(ys) /\ \A k \in 1..Len(xs) : xs[k] <= c * ys[k]
    BY <1>2, <1>5
  <2>2. 2 \in 0..4
    OBVIOUS
  <2> QED
    BY <1>2, <2>1, <2>2, QuantileMonotone, Zenon
<1> QED
  BY <1>6 DEF Median4, xs, ys

\* A published median latency is not above the published tail, though they may
\* come from different replicates: medians and rounding are monotone.
THEOREM QuantilesPublishedInOrder == MergeSpec => []QuantilesStayOrdered
<1>1. CellInv => QuantilesStayOrdered
  <2> SUFFICES ASSUME CellInv, published # <<>> PROVE Out.p50 <= Out.p99
    BY DEF QuantilesStayOrdered
  <2> DEFINE x == Median4(Kernel(records, "p50"))
             y == Median4(Kernel(records, "p99"))
  <2>1. records \in Seq(Replicated) /\ Out = AggregateCell(records)
    BY WhatIsPublished
  <2>2. Out.p50 = Round4(x) /\ Out.p99 = Round4(y)
    BY <2>1, AggregateIs
  <2>3. \A r \in Replicated : r["p50"] <= 1 * r["p99"]
    BY DEF Replicated
  <2>4. "p50" \in Fields /\ "p99" \in Fields
    BY DEF Fields
  <2>5. x <= 1 * y /\ x \in Int /\ y \in Int
    <3>1. x <= 1 * y
      BY <2>1, <2>3, <2>4, KernelBelow
    <3> QED BY <2>1, <2>4, <3>1, KernelType
  <2> HIDE DEF x, y
  <2> QED
    BY <2>2, <2>5 DEF Round4
<1> QED
  BY <1>1, CellInvariant, PTL

\* Neither published half of the CPU time exceeds the published total.
THEOREM HalvesPublishedWithin == MergeSpec => []NoHalfExceedsTheTotal
<1>1. CellInv => NoHalfExceedsTheTotal
  <2> SUFFICES ASSUME CellInv, published # <<>>
               PROVE  Out.receiver4S <= Scale * Out.cpu4 /\ Out.sender4S <= Scale * Out.cpu4
    BY DEF NoHalfExceedsTheTotal
  <2>1. records \in Seq(Replicated) /\ Out = AggregateCell(records)
    BY WhatIsPublished
  <2>2. /\ Out.receiver4S = Median4(Kernel(records, "receiverS"))
        /\ Out.sender4S = Median4(Kernel(records, "senderS"))
        /\ Out.cpu4 = Median4(Kernel(records, "cpu"))
    BY <2>1, AggregateIs
  <2>3. \A r \in Replicated : r["receiverS"] <= Scale * r["cpu"] /\ r["senderS"] <= Scale * r["cpu"]
    BY DEF Replicated
  <2>4. "receiverS" \in Fields /\ "senderS" \in Fields /\ "cpu" \in Fields
    BY DEF Fields
  <2> USE ScaleAssumption
  <2>5. Median4(Kernel(records, "receiverS")) <= Scale * Median4(Kernel(records, "cpu"))
    BY <2>1, <2>3, <2>4, KernelBelow
  <2>6. Median4(Kernel(records, "senderS")) <= Scale * Median4(Kernel(records, "cpu"))
    BY <2>1, <2>3, <2>4, KernelBelow
  <2> QED
    BY <2>2, <2>5, <2>6
<1> QED
  BY <1>1, CellInvariant, PTL

\* What is selected does not depend on what is not.
LEMMA SelectSame ==
  ASSUME NEW xs, NEW ys, NEW n \in Nat, NEW idx \in SUBSET (1..n),
         \A i \in idx : xs[i] = ys[i]
  PROVE  Select(xs, idx) = Select(ys, idx)
<1>1. /\ Select(xs, idx) = [k \in 1..Cardinality(idx) |-> xs[Nth(idx)[k]]]
      /\ Select(ys, idx) = [k \in 1..Cardinality(idx) |-> ys[Nth(idx)[k]]]
      /\ \A k \in 1..Cardinality(idx) : Nth(idx)[k] \in idx
  BY SelectIs
<1> QED
  BY <1>1

\* A replicate that the filter rejects on its primary metric leaves no trace in
\* the published record, whatever the rest of its telemetry.
THEOREM RejectedLeaveNoTrace == MergeSpec => []RejectedTelemetryIsGone
<1>1. CellInv => RejectedTelemetryIsGone
  <2> DEFINE rs == [i \in DOMAIN records |->
                      IF i \in Survivors(records) THEN records[i]
                      ELSE [records[i] EXCEPT !.p99 = 0, !.cpu = 0,
                                              !.receiverS = 0, !.senderS = 0]]
             n == Len(records)
  <2> SUFFICES ASSUME CellInv, published # <<>> PROVE AggregateCell(rs) = Out
    BY DEF RejectedTelemetryIsGone
  <2>1. /\ records \in Seq(Replicated) /\ Out = AggregateCell(records)
        /\ n \in Nat /\ DOMAIN records = 1..n
        /\ \A i \in 1..n : records[i] \in Replicated
    BY WhatIsPublished
  <2>2. \A i \in 1..n : PrimaryMetric(rs[i]) = PrimaryMetric(records[i])
    <3> TAKE i \in 1..n
    <3>1. CASE i \in Survivors(records)
      BY <2>1, <3>1
    <3>2. CASE i \notin Survivors(records)
      <4> DEFINE r == [records[i] EXCEPT !.p99 = 0, !.cpu = 0, !.receiverS = 0, !.senderS = 0]
      <4>1. rs[i] = r
        BY <2>1, <3>2
      <4>2. r.p50 = records[i].p50 /\ r.rate = records[i].rate
        BY <2>1 DEF Replicated
      <4> QED
        BY <4>1, <4>2 DEF PrimaryMetric
    <3> QED
      BY <3>1, <3>2
  <2>3. DOMAIN rs = 1..n
    BY <2>1
  <2>4. Primaries(rs) = Primaries(records)
    <3> HIDE DEF rs, n
    <3> QED BY <2>1, <2>2, <2>3 DEF Primaries
  <2>5. Survivors(rs) = Survivors(records)
    BY <2>4 DEF Survivors
  <2>6. Survivors(records) \in SUBSET (1..n)
    BY <2>1, SurvivorsIndices
  <2>7. \A i \in Survivors(records) : rs[i] = records[i]
    BY <2>1, <2>6
  <2>8. Select(rs, Survivors(rs)) = Select(records, Survivors(records))
    <3> DEFINE idx == Survivors(records)
    <3>1. idx \in SUBSET (1..n) /\ n \in Nat /\ \A i \in idx : rs[i] = records[i]
      BY <2>1, <2>6, <2>7
    <3> HIDE DEF rs, n, idx
    <3>2. Select(rs, idx) = Select(records, idx)
      BY <3>1, SelectSame
    <3> QED BY <2>5, <3>2 DEF idx
  <2> QED
    BY <2>1, <2>4, <2>8 DEF AggregateCell
<1> QED
  BY <1>1, CellInvariant, PTL

-----------------------------------------------------------------------------
(* The series                                                              *)

\* Every quartile of a cell's series has its share of the samples on either side,
\* the quartiles are in order, and they mirror.
THEOREM SeriesBalanced == MergeSpec => []QuantileIsBalanced
<1>1. CellInv => QuantileIsBalanced
  <2> DEFINE n == Len(Series)
             Q == [q \in 0..4 |-> Quantile4(Series, q)]
             Mirrored == [i \in 1..n |-> -Series[i]]
             Below(q) == Cardinality({i \in 1..n : 4 * Series[i] < Q[q]})
             Above(q) == Cardinality({i \in 1..n : 4 * Series[i] > Q[q]})
  <2> SUFFICES ASSUME CellInv, published # <<>>, NEW q \in 0..4
               PROVE  /\ 4 * Below(q) < q * (n - 1) + 4
                      /\ 4 * Above(q) < (4 - q) * (n - 1) + 4
                      /\ q > 0 => Q[q - 1] <= Q[q]
                      /\ Q[q] = -Quantile4(Mirrored, 4 - q)
    BY DEF QuantileIsBalanced
  <2>1. Series \in Seq(Int) /\ Series # <<>>
    BY WhatIsPublished
  <2>2. /\ 4 * Cardinality({i \in 1..n : 4 * Series[i] < Quantile4(Series, q)}) < Share(n, q)
        /\ 4 * Cardinality({i \in 1..n : 4 * Series[i] > Quantile4(Series, q)}) < Share(n, 4 - q)
    BY <2>1, QuantileShares
  <2>3. Q[q] = Quantile4(Series, q)
    OBVIOUS
  <2>4. 4 * Below(q) < q * (n - 1) + 4 /\ 4 * Above(q) < (4 - q) * (n - 1) + 4
    BY <2>2, <2>3 DEF Share
  <2>5. q > 0 => Q[q - 1] <= Q[q]
    BY <2>1, QuartilesAscend
  <2>6. Q[q] = -Quantile4(Mirrored, 4 - q)
    BY <2>1, <2>3, QuantileMirrored
  <2> QED
    BY <2>4, <2>5, <2>6
<1> QED
  BY <1>1, CellInvariant, PTL

-----------------------------------------------------------------------------
(* The filter                                                              *)

\* A sample's distance from the median, at scale four.
LEMMA DeviationsType ==
  ASSUME NEW xs \in Seq(Int)
  PROVE  /\ Deviations4(xs) \in Seq(Int) /\ Len(Deviations4(xs)) = Len(xs)
         /\ \A i \in 1..Len(xs) :
              /\ Deviations4(xs)[i] = Abs(4 * xs[i] - Median4(xs))
              /\ Deviations4(xs)[i] \in Nat
<1> DEFINE n == Len(xs)
           m4 == Median4(xs)
<1>1. /\ n \in Nat /\ DOMAIN xs = 1..n
      /\ \A i \in 1..n : xs[i] \in Int
  OBVIOUS
<1>2. m4 \in Int
  BY QuantileInt DEF Median4
<1>3. Deviations4(xs) = [i \in 1..n |-> Abs(4 * xs[i] - m4)]
  BY <1>1 DEF Deviations4
<1> HIDE DEF n, m4
<1>4. \A i \in 1..n : Abs(4 * xs[i] - m4) \in Nat
  BY <1>1, <1>2 DEF Abs
<1>5. /\ Deviations4(xs) \in Seq(Int) /\ Len(Deviations4(xs)) = n
      /\ \A i \in 1..n : Deviations4(xs)[i] = Abs(4 * xs[i] - m4) /\ Deviations4(xs)[i] \in Nat
  BY <1>1, <1>3, <1>4
<1> QED
  BY <1>5 DEF n, m4

\* The median absolute deviation is not negative.
LEMMA MadType ==
  ASSUME NEW xs \in Seq(Int)
  PROVE  Mad16(xs) \in Nat
<1> DEFINE d == Deviations4(xs)
           n == Len(xs)
<1>1. d \in Seq(Int) /\ Len(d) = n /\ n \in Nat /\ \A i \in 1..n : d[i] \in Nat
  BY DeviationsType
<1>2. CASE n = 0
  <2>1. d = <<>>
    BY <1>1, <1>2
  <2> QED
    BY <2>1, QuantileNone DEF Mad16, Median4
<1>3. CASE n # 0
  <2>1. d # <<>> /\ n \in Nat \ {0} /\ 2 \in 0..4
    BY <1>1, <1>3
  <2>2. Lo(n, 2) \in 1..n
    <3> HIDE DEF n
    <3> QED BY <2>1, Neighbours
  <2>3. \E i \in 1..n : Sorted(d)[Lo(n, 2)] = d[i]
    <3> HIDE DEF d, n
    <3>1. \A k \in 1..Len(d) : \E i \in 1..Len(d) : Sorted(d)[k] = d[i]
      BY <1>1, SortedType, Zenon
    <3> QED BY <1>1, <2>2, <3>1, Zenon
  <2>4. Sorted(d)[Lo(n, 2)] \in Nat
    <3> HIDE DEF d, n
    <3> QED BY <1>1, <2>3
  <2>5. 4 * Sorted(d)[Lo(n, 2)] <= Quantile4(d, 2) /\ Quantile4(d, 2) \in Int
    BY <1>1, <2>1, QuantileBetween
  <2> DEFINE x == Sorted(d)[Lo(n, 2)]
             y == Quantile4(d, 2)
  <2> HIDE DEF x
  <2>6. Mad16(xs) = y
    BY DEF Mad16, Median4
  <2> HIDE DEF y
  <2>7. y \in Nat
    BY <2>4, <2>5 DEF x, y
  <2> QED
    BY <2>6, <2>7
<1> QED
  BY <1>2, <1>3

\* A factor of at least seven makes a product of at least seven times.
LEMMA Sevenfold ==
  ASSUME NEW a \in Nat, a >= 7, NEW b \in Nat
  PROVE  a * b \in Nat /\ 7 * b <= a * b
<1>1. PICK c \in Nat : a = 7 + c
  <2>1. a - 7 \in Nat /\ a = 7 + (a - 7)
    OBVIOUS
  <2> QED BY <2>1
<1>2. a * b = 7 * b + c * b /\ c * b \in Nat
  BY <1>1
<1> QED
  BY <1>2

\* With a mad_k of 0.7 the filter keeps half of the samples or more: those that
\* deviate no more than the lower of the two middle ones, 0.7 times 1.4826 being
\* more than one.
LEMMA KeptMajority ==
  ASSUME NEW xs \in Seq(Int), NEW rep, rep.madK10 \in Nat, rep.madK10 >= 7
  PROVE  2 * Cardinality(Kept(xs, rep)) >= Len(xs)
<1> DEFINE n == Len(xs)
           d == Deviations4(xs)
           mad == Mad16(xs)
           lo == Lo(n, 2)
           x == Sorted(d)[lo]
           half == {i \in 1..n : d[i] <= x}
<1>1. n \in Nat /\ DOMAIN xs = 1..n
  OBVIOUS
<1>2. d \in Seq(Int) /\ Len(d) = n /\ \A i \in 1..n : d[i] \in Nat
  BY DeviationsType
<1>3. CASE n < 3 \/ mad = 0
  <2>1. Kept(xs, rep) = 1..n
    BY <1>1, <1>3 DEF Kept
  <2>2. Cardinality(1..n) = n
    BY <1>1, IndexRange
  <2> QED
    BY <1>1, <2>1, <2>2
<1>4. CASE ~(n < 3 \/ mad = 0)
  <2>1. n \in Nat \ {0} /\ d # <<>> /\ 2 \in 0..4
    BY <1>1, <1>2, <1>4
  <2>2. lo \in 1..n /\ 2 * lo >= n
    <3>1. lo \in 1..n
      <4> HIDE DEF n
      <4> QED BY <2>1, Neighbours
    <3>2. 2 * lo >= n
      BY <1>1 DEF Lo
    <3> QED BY <3>1, <3>2
  <2>3. Cardinality(half) >= lo
    BY <1>2, <2>2, SortedSplits
  <2>4. x \in Int /\ 4 * x <= mad /\ mad \in Nat
    <3>1. x \in Int /\ 4 * x <= Quantile4(d, 2)
      BY <1>2, <2>1, QuantileBetween
    <3> QED BY <3>1, MadType DEF Mad16, Median4
  <2> DEFINE limit == rep.madK10 * mad
             bound == rep.madK10 * 7413 * mad
  <2>5. limit \in Nat /\ 7 * mad <= limit
    <3> HIDE DEF mad
    <3> QED BY <2>4, Sevenfold
  <2>6. bound = 7413 * limit
    <3> HIDE DEF mad
    <3> QED BY <2>4
  <2>7. Kept(xs, rep) = {i \in 1..n : 200000 * d[i] <= bound}
    <3> HIDE DEF mad, d, n
    <3> QED BY <1>1, <1>4 DEF Kept, mad, d, n
  <2> HIDE DEF d, mad, x, limit, bound, n, lo
  <2>8. \A i \in 1..n : d[i] <= x => 200000 * d[i] <= bound
    <3> TAKE i \in 1..n
    <3> HAVE d[i] <= x
    <3>1. d[i] \in Int
      BY <1>2
    <3> QED
      BY <2>4, <2>5, <2>6, <3>1
  <2>9. half \in SUBSET Kept(xs, rep) /\ Kept(xs, rep) \in SUBSET (1..n)
    BY <2>7, <2>8
  <2> DEFINE kept == Kept(xs, rep)
  <2> HIDE DEF half, kept
  <2>10. Cardinality(half) <= Cardinality(kept)
    BY <1>1, <2>9, Fewer DEF kept
  <2>11. Cardinality(half) \in Nat /\ Cardinality(kept) \in Nat
    <3>1. \A S \in SUBSET (1..n) : Cardinality(S) \in 0..n
      BY <1>1, IndexSet
    <3>2. half \in SUBSET (1..n) /\ kept \in SUBSET (1..n)
      BY <2>9 DEF kept
    <3> QED BY <3>1, <3>2
  <2> QED
    BY <2>2, <2>3, <2>10, <2>11 DEF kept, n
<1> QED
  BY <1>3, <1>4

\* Half of the replicates of a cell or more survive the filter, given a mad_k of
\* at least 0.7.
THEOREM HalfSurvive == MergeSpec => []MajoritySurvives
<1>1. CellInv => MajoritySurvives
  <2> SUFFICES ASSUME CellInv, published # <<>>, Policy.madK10 >= 7
               PROVE  2 * Cardinality(Survivors(records)) >= Len(records)
    BY DEF MajoritySurvives
  <2>1. Series \in Seq(Int) /\ Len(Series) = Len(records)
    BY WhatIsPublished
  <2>2. Policy.madK10 \in Nat
    BY PolicyAssumption
  <2>3. 2 * Cardinality(Kept(Series, Policy)) >= Len(Series)
    BY <2>1, <2>2, KeptMajority
  <2> QED
    BY <2>1, <2>3 DEF Survivors, Series
<1> QED
  BY <1>1, CellInvariant, PTL

-----------------------------------------------------------------------------
(* The order of arrival                                                    *)

\* The filter keeps the same samples of a series in another order.
LEMMA KeptReordered ==
  ASSUME NEW xs \in Seq(Int), NEW p \in Bijection(1..Len(xs), 1..Len(xs)), NEW rep
  PROVE  Kept([j \in 1..Len(xs) |-> xs[p[j]]], rep)
           = {j \in 1..Len(xs) : p[j] \in Kept(xs, rep)}
<1> DEFINE n == Len(xs)
           ys == [j \in 1..n |-> xs[p[j]]]
           dx == Deviations4(xs)
           dy == Deviations4(ys)
<1>1. \A j \in 1..n : p[j] \in 1..n
  BY DEF Bijection, Injection
<1>2. n \in Nat /\ DOMAIN xs = 1..n
  OBVIOUS
<1>3. /\ ys \in Seq(Int) /\ Len(ys) = n /\ DOMAIN ys = 1..n
      /\ Median4(ys) = Median4(xs)
  BY Reordered DEF Median4
<1>4. \A j \in 1..n : ys[j] = xs[p[j]]
  OBVIOUS
<1>5. /\ dx \in Seq(Int) /\ Len(dx) = n
      /\ \A i \in 1..n : dx[i] = Abs(4 * xs[i] - Median4(xs))
  BY DeviationsType
<1> HIDE DEF n, ys
<1>6. dy = [j \in 1..n |-> dx[p[j]]]
  <2>1. dy = [j \in 1..n |-> Abs(4 * ys[j] - Median4(ys))]
    BY <1>3 DEF Deviations4
  <2> HIDE DEF dx, dy
  <2> QED
    BY <1>1, <1>3, <1>4, <1>5, <2>1
<1>7. Mad16(ys) = Mad16(xs)
  <2>1. p \in Bijection(1..Len(dx), 1..Len(dx))
    BY <1>5 DEF n
  <2> HIDE DEF dx, dy
  <2>2. Quantile4([j \in 1..Len(dx) |-> dx[p[j]]], 2) = Quantile4(dx, 2)
    BY <1>5, <2>1, Reordered
  <2> QED
    BY <1>5, <1>6, <2>2 DEF Mad16, Median4, dx, dy
<1>8. Kept(ys, rep) = IF n < 3 \/ Mad16(xs) = 0 THEN 1..n
                      ELSE {j \in 1..n : 200000 * dy[j] <= rep.madK10 * 7413 * Mad16(xs)}
  BY <1>3, <1>7 DEF Kept
<1>9. Kept(xs, rep) = IF n < 3 \/ Mad16(xs) = 0 THEN 1..n
                      ELSE {i \in 1..n : 200000 * dx[i] <= rep.madK10 * 7413 * Mad16(xs)}
  BY <1>2 DEF Kept, n
<1>10. \A j \in 1..n : dy[j] = dx[p[j]]
  <2> HIDE DEF dx, dy
  <2> QED BY <1>6
<1> DEFINE all == n < 3 \/ Mad16(xs) = 0
           bound == rep.madK10 * 7413 * Mad16(xs)
<1> HIDE DEF dx, dy
<1>11. CASE all
  <2>1. Kept(ys, rep) = 1..n /\ Kept(xs, rep) = 1..n
    BY <1>8, <1>9, <1>11
  <2>2. Kept(ys, rep) = {j \in 1..n : p[j] \in Kept(xs, rep)}
    BY <1>1, <2>1
  <2> QED BY <2>2 DEF ys, n
<1>12. CASE ~all
  <2>1. /\ Kept(ys, rep) = {j \in 1..n : 200000 * dy[j] <= bound}
        /\ Kept(xs, rep) = {i \in 1..n : 200000 * dx[i] <= bound}
    BY <1>8, <1>9, <1>12
  <2> HIDE DEF bound
  <2>2. Kept(ys, rep) = {j \in 1..n : p[j] \in Kept(xs, rep)}
    BY <1>1, <1>10, <2>1
  <2> QED BY <2>2 DEF ys, n
<1> QED
  BY <1>11, <1>12

\* Those at corresponding indices of a series in another order are as many and
\* have the same quantiles.
LEMMA SelectReordered ==
  ASSUME NEW xs \in Seq(Int), NEW p \in Bijection(1..Len(xs), 1..Len(xs)),
         NEW idx \in SUBSET (1..Len(xs))
  PROVE  LET ys  == [j \in 1..Len(xs) |-> xs[p[j]]]
             jdx == {j \in 1..Len(xs) : p[j] \in idx}
         IN  /\ Cardinality(jdx) = Cardinality(idx)
             /\ \A q : Quantile4(Select(ys, jdx), q) = Quantile4(Select(xs, idx), q)
<1> DEFINE n == Len(xs)
           ys == [j \in 1..n |-> xs[p[j]]]
           jdx == {j \in 1..n : p[j] \in idx}
           us == Select(xs, idx)
           vs == Select(ys, jdx)
<1>1. n \in Nat /\ IsFiniteSet(1..n)
  BY FS_Interval
<1>2. \A T \in SUBSET (1..n) : Cardinality(Preimage(1..n, p, T)) = Cardinality(T)
  <2> DEFINE N == 1..n
  <2>1. p \in Bijection(N, N) /\ IsFiniteSet(N)
    BY <1>1
  <2> HIDE DEF N
  <2>2. \A T \in SUBSET N : Cardinality(Preimage(N, p, T)) = Cardinality(T)
    BY <2>1, CountThrough
  <2> QED BY <2>2 DEF N
<1>3. jdx = Preimage(1..n, p, idx) /\ jdx \in SUBSET (1..n)
  BY DEF Preimage
<1>4. Cardinality(jdx) = Cardinality(idx)
  BY <1>2, <1>3
<1>5. ys \in Seq(Int) /\ Len(ys) = n /\ \A j \in 1..n : ys[j] = xs[p[j]]
  BY Reordered
<1> HIDE DEF n, ys, jdx
<1>6. us \in Seq(Int) /\ Len(us) = Cardinality(idx)
  BY SelectType
<1>7. vs \in Seq(Int) /\ Len(vs) = Cardinality(jdx)
  BY <1>3, <1>5, SelectType
<1>8. ASSUME NEW x \in Int
      PROVE  Cardinality(UpTo(us, x)) = Cardinality(UpTo(vs, x))
  <2> DEFINE S == {i \in idx : xs[i] <= x}
             T == {j \in jdx : ys[j] <= x}
  <2>1. Cardinality(UpTo(us, x)) = Cardinality(S)
    BY SelectUpTo
  <2>2. Cardinality(UpTo(vs, x)) = Cardinality(T)
    <3>1. jdx \in SUBSET (1..Len(ys))
      BY <1>3, <1>5
    <3> QED BY <1>5, <3>1, SelectUpTo
  <2>3. S \in SUBSET (1..n)
    BY DEF n
  <2>4. T = Preimage(1..n, p, S)
    BY <1>5 DEF jdx, Preimage
  <2> HIDE DEF S, T, us, vs
  <2> QED
    BY <1>2, <2>1, <2>2, <2>3, <2>4
<1> HIDE DEF us, vs
<1>9. \A q : Quantile4(us, q) = Quantile4(vs, q)
  BY <1>4, <1>6, <1>7, <1>8, SameQuantiles
<1> QED
  BY <1>4, <1>9 DEF us, vs, ys, jdx, n

\* But for the samples it lists, the summary is made of their number and of the
\* quantiles and the number of those kept.
LEMMA SummarizeSame ==
  ASSUME NEW xs, NEW ys, NEW rep, Len(xs) = Len(ys),
         Len(Select(xs, Kept(xs, rep))) = Len(Select(ys, Kept(ys, rep))),
         \A q : Quantile4(Select(xs, Kept(xs, rep)), q) = Quantile4(Select(ys, Kept(ys, rep)), q)
  PROVE  Summarize(ys, rep) = [Summarize(xs, rep) EXCEPT !.samples = ys]
<1> DEFINE us == Select(xs, Kept(xs, rep))
           vs == Select(ys, Kept(ys, rep))
<1> HIDE DEF us, vs
<1>1. Len(us) = Len(vs) /\ \A q : Quantile4(us, q) = Quantile4(vs, q)
  BY DEF us, vs
<1>2. Median4(us) = Median4(vs) /\ Iqr4(us) = Iqr4(vs)
  BY <1>1 DEF Median4, Iqr4
<1>3. WithinTarget(us, rep) <=> WithinTarget(vs, rep)
  BY <1>2 DEF WithinTarget
<1> DEFINE stable(zs) == /\ Len(zs) >= 3
                         /\ WithinTarget(zs, rep)
                         /\ FewRejected(Len(xs), Len(xs) - Len(zs), rep)
<1>4. stable(us) = stable(vs)
  BY <1>1, <1>3
<1>5. Summarize(xs, rep) =
        [ n |-> Len(us), replicates |-> Len(xs), dropped |-> Len(xs) - Len(us),
          median4 |-> Median4(us), iqr4 |-> Iqr4(us), samples |-> xs, stable |-> stable(us) ]
  BY DEF Summarize, us
<1>6. Summarize(ys, rep) =
        [ n |-> Len(vs), replicates |-> Len(xs), dropped |-> Len(xs) - Len(vs),
          median4 |-> Median4(vs), iqr4 |-> Iqr4(vs), samples |-> ys, stable |-> stable(vs) ]
  BY DEF Summarize, vs
<1> HIDE DEF stable
<1> QED
  BY <1>1, <1>2, <1>4, <1>5, <1>6

\* Replicates in any other order are published as the same record, but for the
\* list of samples.
LEMMA AggregateReordered ==
  ASSUME NEW rs \in Seq(Replicated), NEW p \in Bijection(1..Len(rs), 1..Len(rs))
  PROVE  AggregateCell([j \in 1..Len(rs) |-> rs[p[j]]])
           = [AggregateCell(rs) EXCEPT !.stability.samples
                = [j \in 1..Len(rs) |-> Primaries(rs)[p[j]]]]
<1> DEFINE n == Len(rs)
           ss == [j \in 1..n |-> rs[p[j]]]
           idx == Survivors(rs)
           jdx == Survivors(ss)
<1>1. \A j \in 1..n : p[j] \in 1..n
  BY DEF Bijection, Injection
<1>2. n \in Nat /\ DOMAIN rs = 1..n /\ \A i \in 1..n : rs[i] \in Replicated
  OBVIOUS
<1>3. ss \in Seq(Replicated) /\ Len(ss) = n /\ DOMAIN ss = 1..n
  BY <1>1, <1>2
<1>4. \A j \in 1..n : ss[j] = rs[p[j]]
  OBVIOUS
<1> HIDE DEF ss
<1>5. ASSUME NEW f \in Fields
      PROVE  /\ Field(rs, f) \in Seq(Int) /\ Len(Field(rs, f)) = n
             /\ Field(ss, f) = [j \in 1..Len(Field(rs, f)) |-> Field(rs, f)[p[j]]]
  <2>1. Field(rs, f) \in Seq(Int) /\ Len(Field(rs, f)) = n
    BY FieldType
  <2>2. Field(ss, f) = [j \in 1..n |-> Field(rs, f)[p[j]]]
    <3> HIDE DEF n
    <3> QED BY <1>1, <1>2, <1>3, <1>4 DEF Field
  <2> QED
    BY <2>1, <2>2
<1>6. /\ Primary \in Fields
      /\ Primaries(rs) = Field(rs, Primary) /\ Primaries(ss) = Field(ss, Primary)
  BY PrimariesAre
<1>7. jdx = {j \in 1..n : p[j] \in idx} /\ idx \in SUBSET (1..n)
  <2> DEFINE xs == Field(rs, Primary)
  <2>1. /\ xs \in Seq(Int) /\ Len(xs) = n
        /\ Primaries(ss) = [j \in 1..Len(xs) |-> xs[p[j]]]
    BY <1>5, <1>6
  <2>2. p \in Bijection(1..Len(xs), 1..Len(xs))
    BY <2>1
  <2> HIDE DEF xs
  <2>3. Kept(Primaries(ss), Policy) = {j \in 1..Len(xs) : p[j] \in Kept(xs, Policy)}
    BY <2>1, <2>2, KeptReordered
  <2>4. Kept(xs, Policy) = idx /\ Kept(Primaries(ss), Policy) = jdx
    BY <1>6 DEF Survivors, xs
  <2>5. idx \in SUBSET (1..n)
    BY SurvivorsIndices
  <2> QED
    BY <2>1, <2>3, <2>4, <2>5
<1> HIDE DEF idx, jdx
<1>8. ASSUME NEW f \in Fields
      PROVE  /\ Cardinality(jdx) = Cardinality(idx)
             /\ \A q : Quantile4(Kernel(ss, f), q) = Quantile4(Kernel(rs, f), q)
  <2> DEFINE xs == Field(rs, f)
  <2>1. xs \in Seq(Int) /\ Len(xs) = n /\ Field(ss, f) = [j \in 1..Len(xs) |-> xs[p[j]]]
    BY <1>5
  <2>2. p \in Bijection(1..Len(xs), 1..Len(xs)) /\ idx \in SUBSET (1..Len(xs))
    BY <1>7, <2>1
  <2> HIDE DEF xs
  <2>3. /\ Cardinality({j \in 1..Len(xs) : p[j] \in idx}) = Cardinality(idx)
        /\ \A q : Quantile4(Select([j \in 1..Len(xs) |-> xs[p[j]]],
                                   {j \in 1..Len(xs) : p[j] \in idx}), q)
                    = Quantile4(Select(xs, idx), q)
    BY <2>1, <2>2, SelectReordered
  <2>4. jdx = {j \in 1..Len(xs) : p[j] \in idx}
    BY <1>7, <2>1
  <2> QED
    BY <2>1, <2>3, <2>4 DEF Kernel, xs, idx, jdx
<1>9. \A f \in Fields : Median4(Kernel(ss, f)) = Median4(Kernel(rs, f))
  BY <1>8 DEF Median4
<1>10. Summarize(Primaries(ss), Policy)
         = [Summarize(Primaries(rs), Policy) EXCEPT !.samples = Primaries(ss)]
  <2> DEFINE xs == Primaries(rs)
             ys == Primaries(ss)
  <2>1. /\ Select(xs, Kept(xs, Policy)) = Kernel(rs, Primary)
        /\ Select(ys, Kept(ys, Policy)) = Kernel(ss, Primary)
    BY <1>6 DEF Kernel, Survivors
  <2>2. Len(xs) = n /\ Len(ys) = n
    BY <1>3, PrimariesType
  <2>3. Len(Kernel(rs, Primary)) = Cardinality(idx) /\ Len(Kernel(ss, Primary)) = Cardinality(jdx)
    BY <1>3, <1>6, KernelType DEF idx, jdx
  <2>4. /\ Cardinality(jdx) = Cardinality(idx)
        /\ \A q : Quantile4(Kernel(ss, Primary), q) = Quantile4(Kernel(rs, Primary), q)
    BY <1>6, <1>8
  <2> HIDE DEF xs, ys
  <2>5. Summarize(ys, Policy) = [Summarize(xs, Policy) EXCEPT !.samples = ys]
    BY <2>1, <2>2, <2>3, <2>4, SummarizeSame
  <2> QED
    BY <2>5 DEF xs, ys
<1>11. /\ Median4(Kernel(ss, "p50")) = Median4(Kernel(rs, "p50"))
       /\ Median4(Kernel(ss, "p99")) = Median4(Kernel(rs, "p99"))
       /\ Median4(Kernel(ss, "rate")) = Median4(Kernel(rs, "rate"))
       /\ Median4(Kernel(ss, "cpu")) = Median4(Kernel(rs, "cpu"))
       /\ Median4(Kernel(ss, "receiverS")) = Median4(Kernel(rs, "receiverS"))
       /\ Median4(Kernel(ss, "senderS")) = Median4(Kernel(rs, "senderS"))
  BY <1>9 DEF Fields
<1>12. AggregateCell(ss) = [AggregateCell(rs) EXCEPT !.stability.samples = Primaries(ss)]
  <2>1. Summarize(Primaries(rs), Policy) = AggregateCell(rs).stability
    BY AggregateIs
  <2>2. AggregateCell(ss).stability
          = [AggregateCell(rs).stability EXCEPT !.samples = Primaries(ss)]
    BY <1>3, <1>10, <2>1, AggregateIs
  <2> QED
    BY <1>3, <1>11, <2>2, AggregateIs
<1>13. Primaries(ss) = [j \in 1..n |-> Primaries(rs)[p[j]]]
  BY <1>5, <1>6
<1> QED
  BY <1>12, <1>13 DEF ss

\* Exchanging two neighbours is a reordering, the same one for all sequences of
\* that length.
LEMMA Exchange ==
  ASSUME NEW n \in Nat, NEW i \in 1..n - 1
  PROVE  \E p \in Bijection(1..n, 1..n) :
           \A s : s = [j \in 1..n |-> s[j]] => Exchanged(s, i) = [j \in 1..n |-> s[p[j]]]
<1> DEFINE p == [j \in 1..n |-> IF j = i THEN i + 1 ELSE IF j = i + 1 THEN i ELSE j]
<1>1. i \in 1..n /\ i + 1 \in 1..n /\ i # i + 1
  OBVIOUS
<1>2. p \in Bijection(1..n, 1..n)
  <2>1. /\ p \in [1..n -> 1..n]
        /\ \A j, k \in 1..n : p[j] = p[k] => j = k
        /\ \A k \in 1..n : p[p[k]] = k /\ p[k] \in 1..n
    BY <1>1
  <2>2. \A k \in 1..n : \E j \in 1..n : p[j] = k
    BY <2>1
  <2> HIDE DEF p
  <2> QED
    BY <2>1, <2>2 DEF Bijection, Injection, IsInjective, Surjection
<1>3. ASSUME NEW s, s = [j \in 1..n |-> s[j]]
      PROVE  Exchanged(s, i) = [j \in 1..n |-> s[p[j]]]
  BY <1>1, <1>3 DEF Exchanged
<1> QED
  BY <1>2, <1>3

\* The order in which the replicates of a cell came in shows in the list of
\* samples, exchange by exchange, and nowhere else in the published record.
THEOREM OrderShowsInSamples == MergeSpec => []OnlySamplesShowTheOrder
<1>1. CellInv => OnlySamplesShowTheOrder
  <2> DEFINE n == Len(records)
             xs == Primaries(records)
  <2> SUFFICES ASSUME CellInv, published # <<>>, NEW i \in 1..n - 1
               PROVE  AggregateCell(Exchanged(records, i))
                        = [Out EXCEPT !.stability.samples = Exchanged(Out.stability.samples, i)]
    BY DEF OnlySamplesShowTheOrder
  <2>1. records \in Seq(Replicated) /\ Out = AggregateCell(records) /\ n \in Nat
    BY WhatIsPublished
  <2>2. PICK p \in Bijection(1..n, 1..n) :
          \A s : s = [j \in 1..n |-> s[j]] => Exchanged(s, i) = [j \in 1..n |-> s[p[j]]]
    <3> HIDE DEF n
    <3> QED BY <2>1, Exchange
  <2>3. xs \in Seq(Int) /\ Len(xs) = n
    BY <2>1, WhatIsPublished DEF Series
  <2>4. records = [j \in 1..n |-> records[j]] /\ xs = [j \in 1..n |-> xs[j]]
    BY <2>1, <2>3
  <2>5. Out.stability.samples = xs
    BY <2>1, AggregateIs DEF Summarize
  <2> HIDE DEF xs
  <2>6. /\ Exchanged(records, i) = [j \in 1..n |-> records[p[j]]]
        /\ Exchanged(xs, i) = [j \in 1..n |-> xs[p[j]]]
    BY <2>2, <2>4, Zenon
  <2>7. AggregateCell([j \in 1..n |-> records[p[j]]])
          = [AggregateCell(records) EXCEPT !.stability.samples = [j \in 1..n |-> xs[p[j]]]]
    BY <2>1, <2>2, AggregateReordered DEF xs
  <2> QED
    BY <2>1, <2>5, <2>6, <2>7
<1> QED
  BY <1>1, CellInvariant, PTL

-----------------------------------------------------------------------------
(* The middle half                                                         *)

\* From the j-th to the k-th there are at least k - j + 1 samples.
LEMMA Between ==
  ASSUME NEW ys \in Seq(Int), NEW j \in 1..Len(ys), NEW k \in 1..Len(ys)
  PROVE  Cardinality({i \in 1..Len(ys) : Sorted(ys)[j] <= ys[i] /\ ys[i] <= Sorted(ys)[k]})
           >= k - j + 1
<1> DEFINE m == Len(ys)
           x == Sorted(ys)[j]
           y == Sorted(ys)[k]
           below == {i \in 1..m : ys[i] < x}
           above == {i \in 1..m : ys[i] > y}
           between == {i \in 1..m : x <= ys[i] /\ ys[i] <= y}
<1>1. /\ m \in Nat /\ j \in 1..m /\ k \in 1..m
      /\ \A i \in 1..m : ys[i] \in Int
  OBVIOUS
<1>2. x \in Int /\ y \in Int
  BY SortedInt
<1>3. Cardinality(below) <= j - 1 /\ Cardinality(above) <= m - k
  BY SortedSplits
<1> HIDE DEF m, x, y
<1>4. between = (1..m) \ (below \cup above)
  BY <1>1, <1>2
<1>5. below \in SUBSET (1..m) /\ above \in SUBSET (1..m) /\ below \cup above \in SUBSET (1..m)
  OBVIOUS
<1> HIDE DEF below, above, between
<1>6. \A S \in SUBSET (1..m) : IsFiniteSet(S) /\ Cardinality(S) \in Nat
  <2> TAKE S \in SUBSET (1..m)
  <2>1. IsFiniteSet(S) /\ Cardinality(S) \in 0..m
    BY <1>1, IndexSet
  <2> QED BY <2>1
<1>7. Cardinality(below \cup above)
        = Cardinality(below) + Cardinality(above) - Cardinality(below \cap above)
  BY <1>5, <1>6, FS_Union
<1>8. Cardinality(between) = m - Cardinality(below \cup above)
  BY <1>1, <1>4, <1>5, Complement
<1>9. /\ Cardinality(below) \in Nat /\ Cardinality(above) \in Nat
      /\ Cardinality(below \cap above) \in Nat
  <2>1. below \cap above \in SUBSET (1..m)
    BY <1>5
  <2> QED BY <1>5, <1>6, <2>1
<1>10. m \in Int /\ j \in Int /\ k \in Int
  BY <1>1
<1>11. Cardinality(between) >= k - j + 1
  BY <1>3, <1>7, <1>8, <1>9, <1>10, SMTT(20)
<1> QED
  BY <1>11 DEF between, m, x, y

\* Two entries that hold half of the samples between them, give or take one, and
\* are no further from the median than the quartiles are apart.
LEMMA Middle ==
  ASSUME NEW ys \in Seq(Int), Len(ys) >= 3
  PROVE  \E j, k \in 1..Len(ys) :
           /\ 2 * (k - j + 1) >= Len(ys) - 1
           /\ Abs(4 * Sorted(ys)[j] - Median4(ys)) <= Iqr4(ys)
           /\ Abs(4 * Sorted(ys)[k] - Median4(ys)) <= Iqr4(ys)
<1> DEFINE m == Len(ys)
           w == Sorted(ys)
           q1 == Quantile4(ys, 1)
           q2 == Quantile4(ys, 2)
           q3 == Quantile4(ys, 3)
           x1 == w[Lo(m, 1)]
           x2 == w[Hi(m, 1)]
           x3 == w[Lo(m, 3)]
           x4 == w[Hi(m, 3)]
<1>1. m \in Nat \ {0} /\ m >= 3 /\ ys # <<>> /\ 1 \in 0..4 /\ 2 \in 0..4 /\ 3 \in 0..4
  OBVIOUS
<1>2. /\ Lo(m, 1) \in 1..m /\ Hi(m, 1) \in 1..m /\ Lo(m, 3) \in 1..m /\ Hi(m, 3) \in 1..m
      /\ Hi(m, 1) <= Lo(m, 3)
  <2>1. /\ Lo(m, 1) \in 1..m /\ Hi(m, 1) \in 1..m
        /\ Lo(m, 3) \in 1..m /\ Hi(m, 3) \in 1..m
    <3> HIDE DEF m
    <3> QED BY <1>1, Neighbours
  <2>2. Hi(m, 1) <= Lo(m, 3)
    <3> HIDE DEF m
    <3> QED BY <1>1 DEF Hi, Lo
  <2> QED BY <2>1, <2>2
<1>3. Median4(ys) = q2 /\ Iqr4(ys) = q3 - q1
  BY DEF Median4, Iqr4
<1>4. q1 \in Int /\ q2 \in Int /\ q3 \in Int /\ q1 <= q2 /\ q2 <= q3
  <2>1. 2 \in 1..4 /\ 3 \in 1..4 /\ 2 - 1 = 1 /\ 3 - 1 = 2
    OBVIOUS
  <2>2. Quantile4(ys, 2 - 1) <= Quantile4(ys, 2) /\ Quantile4(ys, 3 - 1) <= Quantile4(ys, 3)
    BY <1>1, <2>1, QuartilesAscend
  <2> QED
    BY <1>1, <2>1, <2>2, QuantileInt
<1>5. /\ x1 \in Int /\ x2 \in Int /\ x3 \in Int /\ x4 \in Int
      /\ 4 * x1 <= q1 /\ q1 <= 4 * x2 /\ 4 * x3 <= q3 /\ q3 <= 4 * x4
  BY <1>1, QuantileBetween
<1>6. x2 <= x3
  <2>1. Lo(m, 3) \in Hi(m, 1)..m
    BY <1>2
  <2> QED BY <1>2, <2>1, SortedAscends
<1>7. CASE m % 4 # 2
  <2>1. 2 * (Lo(m, 3) - Hi(m, 1) + 1) >= m - 1
    <3> HIDE DEF m
    <3> QED BY <1>1, <1>7 DEF Lo, Hi
  <2>2. Abs(4 * x2 - q2) <= q3 - q1 /\ Abs(4 * x3 - q2) <= q3 - q1
    <3> HIDE DEF q1, q2, q3, x1, x2, x3, x4
    <3> QED BY <1>4, <1>5, <1>6 DEF Abs
  <2> QED
    BY <1>2, <1>3, <2>1, <2>2
<1>8. CASE m % 4 = 2
  <2>1. /\ Part(m, 1) = 1 /\ Part(m, 3) = 3
        /\ 2 * (Lo(m, 3) - Lo(m, 1) + 1) >= m - 1
        /\ 2 * (Hi(m, 3) - Hi(m, 1) + 1) >= m - 1
    <3> HIDE DEF m
    <3> QED BY <1>1, <1>8 DEF Lo, Hi, Part
  <2>2. q1 = 4 * x1 + 1 * (x2 - x1) /\ q3 = 4 * x3 + 3 * (x4 - x3)
    BY <1>1, <2>1, QuantileIs
  <2>3. \/ /\ Abs(4 * x1 - q2) <= q3 - q1 /\ Abs(4 * x3 - q2) <= q3 - q1
        \/ /\ Abs(4 * x2 - q2) <= q3 - q1 /\ Abs(4 * x4 - q2) <= q3 - q1
    <3> HIDE DEF q1, q2, q3, x1, x2, x3, x4
    <3>1. q2 - 4 * x1 <= q3 - q1 \/ 4 * x4 - q2 <= q3 - q1
      BY <1>4, <1>5, <1>6, <2>2
    <3> QED BY <1>4, <1>5, <1>6, <3>1 DEF Abs
  <2> QED
    BY <1>2, <1>3, <2>1, <2>3
<1> QED
  BY <1>7, <1>8

\* Half of the samples, give or take one, are no further from the median than the
\* quartiles are apart.
LEMMA MiddleHalf ==
  ASSUME NEW ys \in Seq(Int), Len(ys) >= 3, NEW t \in Int, 100 * Iqr4(ys) <= t
  PROVE  2 * Cardinality({i \in 1..Len(ys) : 100 * Abs(4 * ys[i] - Median4(ys)) <= t})
           >= Len(ys) - 1
<1> DEFINE m == Len(ys)
           m4 == Median4(ys)
           near == {i \in 1..m : 100 * Abs(4 * ys[i] - m4) <= t}
<1>1. PICK j \in 1..m, k \in 1..m :
        /\ 2 * (k - j + 1) >= m - 1
        /\ Abs(4 * Sorted(ys)[j] - m4) <= Iqr4(ys)
        /\ Abs(4 * Sorted(ys)[k] - m4) <= Iqr4(ys)
  BY Middle
<1> DEFINE x == Sorted(ys)[j]
           y == Sorted(ys)[k]
           iqr == Iqr4(ys)
           between == {i \in 1..m : x <= ys[i] /\ ys[i] <= y}
<1>2. /\ m4 \in Int /\ iqr \in Int /\ 100 * iqr <= t
      /\ x \in Int /\ y \in Int
      /\ m \in Nat /\ \A i \in 1..m : ys[i] \in Int
  <2>1. m4 \in Int
    BY QuantileInt DEF Median4
  <2>2. iqr \in Int
    <3>1. Quantile4(ys, 1) \in Int /\ Quantile4(ys, 3) \in Int
      BY QuantileInt
    <3> QED BY <3>1 DEF Iqr4
  <2>3. x \in Int /\ y \in Int
    BY SortedInt
  <2> HIDE DEF m4, iqr, x, y
  <2> QED
    BY <2>1, <2>2, <2>3 DEF iqr
<1>3. Abs(4 * x - m4) <= iqr /\ Abs(4 * y - m4) <= iqr
  BY <1>1
<1>4. Cardinality(between) >= k - j + 1
  BY Between
<1> HIDE DEF x, y, iqr, m4, m
<1>5. \A i \in 1..m : x <= ys[i] /\ ys[i] <= y => 100 * Abs(4 * ys[i] - m4) <= t
  <2> TAKE i \in 1..m
  <2> DEFINE z == ys[i]
  <2>1. z \in Int
    BY <1>2
  <2> HIDE DEF z
  <2>2. x <= z /\ z <= y => Abs(4 * z - m4) <= iqr /\ Abs(4 * z - m4) \in Int
    BY <1>2, <1>3, <2>1 DEF Abs
  <2>3. x <= z /\ z <= y => 100 * Abs(4 * z - m4) <= t
    BY <1>2, <2>2
  <2> QED
    BY <2>3 DEF z
<1>6. between \in SUBSET near /\ near \in SUBSET (1..m) /\ between \in SUBSET (1..m)
  BY <1>5
<1> HIDE DEF between, near
<1>7. Cardinality(between) <= Cardinality(near)
  BY <1>2, <1>6, Fewer
<1>8. Cardinality(between) \in Nat /\ Cardinality(near) \in Nat
  <2>1. \A S \in SUBSET (1..m) : Cardinality(S) \in 0..m
    BY <1>2, IndexSet
  <2> QED BY <1>6, <2>1
<1>9. 2 * Cardinality(near) >= m - 1
  BY <1>1, <1>2, <1>4, <1>7, <1>8
<1> QED
  BY <1>9 DEF near, m, m4

\* A cell that is called stable has lost at most the allowed share of replicates
\* to the filter, and half of the rest, give or take one, are within the target
\* of the published median: two modes far apart are never called stable.
THEOREM StableHasOneMode == MergeSpec => []StableIsNotBimodal
<1>1. CellInv => StableIsNotBimodal
  <2> DEFINE idx  == Survivors(records)
             n    == Len(records)
             m    == Cardinality(idx)
             m4   == Out.stability.median4
             t    == Policy.targetPct * m4
             near == {i \in idx : 100 * Abs(4 * Series[i] - m4) <= t}
             ys   == Kernel(records, Primary)
  <2> SUFFICES ASSUME CellInv, published # <<>>, Out.stability.stable
               PROVE  /\ 100 * (n - m) <= Policy.outlierPct * n
                      /\ m4 > 0 => 2 * Cardinality(near) >= m - 1
    BY DEF StableIsNotBimodal
  <2>1. /\ records \in Seq(Replicated) /\ Out = AggregateCell(records)
        /\ Series \in Seq(Int) /\ Len(Series) = n /\ n \in Nat
    BY WhatIsPublished
  <2>2. Out.stability = Summarize(Primaries(records), Policy)
    BY <2>1, AggregateIs
  <2>3. /\ m4 = Median4(ys)
        /\ Len(ys) >= 3 /\ WithinTarget(ys, Policy) /\ FewRejected(n, n - m, Policy)
    BY <2>1, <2>2, SummaryOf
  <2>4. Primary \in Fields /\ Series = Field(records, Primary)
    BY PrimariesAre DEF Series
  <2>5. ys \in Seq(Int) /\ Len(ys) = m /\ m4 \in Int
    BY <2>1, <2>3, <2>4, KernelType
  <2>6. idx \in SUBSET (1..n)
    BY <2>1, SurvivorsIndices
  <2>7. 100 * (n - m) <= Policy.outlierPct * n
    BY <2>3 DEF FewRejected
  <2>8. ASSUME m4 > 0
        PROVE  2 * Cardinality(near) >= m - 1
    <3>1. t \in Int
      BY <2>5, PolicyAssumption
    <3>2. 100 * Iqr4(ys) <= t
      <4>1. ~(m4 = 0) /\ Abs(m4) = m4
        BY <2>5, <2>8 DEF Abs
      <4> QED
        BY <2>3, <4>1 DEF WithinTarget
    <3> HIDE DEF t
    <3>3. 2 * Cardinality({k \in 1..m : 100 * Abs(4 * ys[k] - m4) <= t}) >= m - 1
      <4> HIDE DEF ys, m4
      <4>1. 2 * Cardinality({k \in 1..Len(ys) : 100 * Abs(4 * ys[k] - Median4(ys)) <= t})
              >= Len(ys) - 1
        BY <2>3, <2>5, <3>1, <3>2, MiddleHalf
      <4> QED BY <2>3, <2>5, <4>1
    <3>4. /\ ys = [k \in 1..m |-> Series[Nth(idx)[k]]]
          /\ \A k \in 1..m : Nth(idx)[k] \in idx
      <4> HIDE DEF n
      <4>1. ys = Select(Series, idx)
        BY <2>4 DEF Kernel
      <4> HIDE DEF idx, ys
      <4> QED BY <2>1, <2>6, <4>1, SelectIs
    <3> HIDE DEF ys, m, m4, idx, n
    <3>5. /\ {k \in 1..m : 100 * Abs(4 * ys[k] - m4) <= t} = Preimage(1..m, Nth(idx), near)
          /\ near \in SUBSET idx
      BY <3>4 DEF Preimage
    <3> HIDE DEF near
    <3>6. Cardinality(Preimage(1..m, Nth(idx), near)) = Cardinality(near)
      BY <2>1, <2>6, <3>5, SelectCounts DEF m
    <3> QED
      BY <3>3, <3>5, <3>6
  <2> QED
    BY <2>7, <2>8
<1> QED
  BY <1>1, CellInvariant, PTL
=============================================================================
