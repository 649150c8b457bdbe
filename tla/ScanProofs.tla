----------------------------- MODULE ScanProofs -----------------------------
(***************************************************************************)
(* Proofs about module Scan, for all trees, options and changes of files:  *)
(* limits that are tuned agree, batches stay within them and are whole,    *)
(* deletes come from the leaves up, and Scan keeps its contract.  The last *)
(* part proves that the operations follow the plan in its order.           *)
(***************************************************************************)
EXTENDS Scan, FoldTheorems, SequenceTheorems

-----------------------------------------------------------------------------
(* Tuning: the small sizes, sorted by rank.                                *)

SmallOnes(s) == {i \in DOMAIN s : s[i] <= SmallFileCutoff}

(* The small files that do not come after file i, and their number.        *)
UpTo(s, i) ==
    {j \in SmallOnes(s) : s[j] < s[i] \/ (s[j] = s[i] /\ j <= i)}

RankOf(s, i) == Cardinality(UpTo(s, i))

(* What is needed of sizes: finitely many numbers, under numbers.          *)
AreSizes(s) ==
    /\ DOMAIN s \subseteq Nat /\ IsFiniteSet(DOMAIN s)
    /\ \A i \in DOMAIN s : s[i] \in Nat

LEMMA SmallByRank ==
    ASSUME NEW s
    PROVE  Small(s) = [r \in 1..Cardinality(SmallOnes(s)) |->
                          s[CHOOSE i \in SmallOnes(s) : RankOf(s, i) = r]]
BY DEF Small, SmallOnes, RankOf, UpTo

(* Ranks are different, and grow with the sizes.                           *)
LEMMA RanksGrow ==
    ASSUME NEW s, AreSizes(s), NEW i \in SmallOnes(s), NEW j \in SmallOnes(s),
           s[i] < s[j] \/ (s[i] = s[j] /\ i < j)
    PROVE  RankOf(s, i) < RankOf(s, j)
<1>1. IsFiniteSet(SmallOnes(s)) /\ SmallOnes(s) \subseteq DOMAIN s
    BY FS_Subset DEF AreSizes, SmallOnes
<1>2. UpTo(s, j) \subseteq SmallOnes(s)
    BY DEF UpTo
<1>3. IsFiniteSet(UpTo(s, j))
    BY <1>1, <1>2, FS_Subset
<1>4. \A k \in SmallOnes(s) : s[k] \in Int /\ k \in Int
    BY <1>1 DEF AreSizes
<1>5. ASSUME NEW k \in UpTo(s, i) PROVE k \in UpTo(s, j)
  <2>1. k \in SmallOnes(s) /\ (s[k] < s[i] \/ (s[k] = s[i] /\ k <= i))
      BY DEF UpTo
  <2>2. s[k] < s[j] \/ (s[k] = s[j] /\ k <= j)
      BY <1>4, <2>1
  <2> QED BY <2>1, <2>2 DEF UpTo
<1>6. j \in UpTo(s, j) /\ j \notin UpTo(s, i)
    BY <1>4 DEF UpTo
<1>7. IsFiniteSet(UpTo(s, i)) /\ Cardinality(UpTo(s, i)) <= Cardinality(UpTo(s, j))
      /\ (Cardinality(UpTo(s, i)) = Cardinality(UpTo(s, j)) => UpTo(s, i) = UpTo(s, j))
    BY <1>3, <1>5, FS_Subset
<1>8. Cardinality(UpTo(s, i)) \in Nat /\ Cardinality(UpTo(s, j)) \in Nat
    BY <1>3, <1>7, FS_CardinalityType
<1> QED BY <1>6, <1>7, <1>8 DEF RankOf

(* The files in the order of their ranks.                                  *)
Order(s) ==
    [r \in 1..Cardinality(SmallOnes(s)) |->
        CHOOSE i \in SmallOnes(s) : RankOf(s, i) = r]

(* Every rank up to the number of files is that of one of them.            *)
LEMMA OrderRanks ==
    ASSUME NEW s, AreSizes(s)
    PROVE  /\ Cardinality(SmallOnes(s)) \in Nat
           /\ \A r \in 1..Cardinality(SmallOnes(s)) :
                 Order(s)[r] \in SmallOnes(s) /\ RankOf(s, Order(s)[r]) = r
<1> DEFINE C == SmallOnes(s)
           n == Cardinality(C)
           f == [i \in C |-> RankOf(s, i)]
<1>1. IsFiniteSet(C) /\ n \in Nat /\ C \subseteq DOMAIN s
    BY FS_Subset, FS_CardinalityType DEF AreSizes, SmallOnes
<1>2. ASSUME NEW i \in C PROVE f[i] \in 1..n
  <2>1. UpTo(s, i) \subseteq C /\ i \in UpTo(s, i)
      BY <1>1 DEF UpTo, AreSizes
  <2>2. IsFiniteSet(UpTo(s, i)) /\ Cardinality(UpTo(s, i)) <= n
      BY <1>1, <2>1, FS_Subset
  <2>3. Cardinality(UpTo(s, i)) \in Nat /\ Cardinality(UpTo(s, i)) # 0
      BY <2>1, <2>2, FS_CardinalityType, FS_EmptySet
  <2> HIDE DEF C, n
  <2> QED BY <1>1, <2>2, <2>3 DEF RankOf
<1>3. ASSUME NEW i \in C, NEW j \in C, f[i] = f[j] PROVE i = j
  <2>1. s[i] \in Int /\ s[j] \in Int /\ i \in Int /\ j \in Int
      BY <1>1 DEF AreSizes
  <2>2. f[i] \in Int /\ f[j] \in Int
      BY <1>2
  <2>3. ~(s[i] < s[j] \/ (s[i] = s[j] /\ i < j))
      BY <1>3, <2>2, RanksGrow
  <2>4. ~(s[j] < s[i] \/ (s[j] = s[i] /\ j < i))
      BY <1>3, <2>2, RanksGrow
  <2> QED BY <2>1, <2>3, <2>4
<1>4. f \in Injection(C, 1..n)
    BY <1>2, <1>3 DEF Injection, IsInjective
<1>5. IsFiniteSet(1..n) /\ Cardinality(1..n) = n
    BY <1>1, FS_Interval
<1>6. f \in Surjection(C, 1..n)
    BY <1>4, <1>5, FS_Injection
<1>7. \A r \in 1..n : \E i \in C : RankOf(s, i) = r
    BY <1>6 DEF Surjection
<1> QED BY <1>1, <1>7 DEF Order

(* What Small returns: the small sizes, each once, in increasing order.    *)
LEMMA SmallIsSorted ==
    ASSUME NEW s, AreSizes(s)
    PROVE  LET n == Cardinality(SmallOnes(s))
           IN  /\ n \in Nat
               /\ Small(s) \in [1..n -> 0..SmallFileCutoff]
               /\ Order(s) \in Injection(1..n, SmallOnes(s))
               /\ \A r \in 1..n : Small(s)[r] = s[Order(s)[r]]
               /\ \A q, r \in 1..n : q <= r => Small(s)[q] <= Small(s)[r]
<1> DEFINE n == Cardinality(SmallOnes(s))
<1>1. n \in Nat /\ \A r \in 1..n : Order(s)[r] \in SmallOnes(s) /\ RankOf(s, Order(s)[r]) = r
    BY OrderRanks
<1>2. Small(s) = [r \in 1..n |-> s[Order(s)[r]]]
    BY SmallByRank DEF Order
<1>3. \A i \in SmallOnes(s) : s[i] \in 0..SmallFileCutoff /\ i \in Nat
  <2>1. \A i \in SmallOnes(s) : s[i] \in Nat /\ i \in Nat /\ s[i] <= SmallFileCutoff
      BY DEF SmallOnes, AreSizes
  <2>2. SmallFileCutoff \in Nat
      BY DEF SmallFileCutoff, KB
  <2> QED BY <2>1, <2>2
<1>4. Order(s) \in Injection(1..n, SmallOnes(s))
  <2>1. Order(s) \in [1..n -> SmallOnes(s)]
      BY <1>1 DEF Order
  <2>2. \A q, r \in 1..n : Order(s)[q] = Order(s)[r] => q = r
      BY <1>1
  <2> QED BY <2>1, <2>2 DEF Injection, IsInjective
<1>5. Small(s) \in [1..n -> 0..SmallFileCutoff]
    BY <1>1, <1>2, <1>3
<1>6. ASSUME NEW q \in 1..n, NEW r \in 1..n, q <= r PROVE Small(s)[q] <= Small(s)[r]
  <2> DEFINE i == Order(s)[q]
             j == Order(s)[r]
  <2>1. i \in SmallOnes(s) /\ j \in SmallOnes(s) /\ RankOf(s, i) = q /\ RankOf(s, j) = r
      BY <1>1
  <2>2. s[i] \in Int /\ s[j] \in Int /\ q \in Int /\ r \in Int
      BY <1>3, <2>1
  <2> HIDE DEF i, j
  <2>3. s[j] < s[i] => r < q
      BY <2>1, RanksGrow
  <2>4. s[i] <= s[j]
      BY <1>6, <2>2, <2>3
  <2> QED BY <1>2, <2>4 DEF i, j
<1> HIDE DEF n
<1>7. \A r \in 1..n : Small(s)[r] = s[Order(s)[r]]
    BY <1>2
<1> QED BY <1>1, <1>4, <1>5, <1>6, <1>7 DEF n

(* A mean is no larger than the largest value.                             *)
LEMMA MeanBound ==
    ASSUME NEW n \in Nat \ {0}, NEW c \in Nat, NEW f \in [1..n -> 0..c]
    PROVE  SumFunction(f) \div n \in 0..c
<1> DEFINE t == SumFunctionOnSet(f, 1..n)
           q == t \div n
<1>1. IsFiniteSet(1..n) /\ Cardinality(1..n) = n
    BY FS_Interval
<1>2. NatValued(f, 1..n) /\ \A i \in 1..n : f[i] <= c
    BY DEF NatValued
<1>3. t \in Nat
    BY <1>1, <1>2, SumType
<1>4. t <= n * c
    BY <1>1, <1>2, SumBound
<1>5. SumFunction(f) = t
    BY DEF SumFunction
<1> HIDE DEF t
<1>6. q \in Nat /\ q * n <= t
    BY <1>3, DivRange
<1> HIDE DEF q
<1>7. (c + 1) * n = n * c + n
    BY TimesSum
<1>8. q * n < (c + 1) * n
  <2>1. q * n \in Int /\ n * c \in Int
      BY <1>6
  <2> QED BY <1>3, <1>4, <1>6, <1>7, <2>1
<1>9. q < c + 1
    BY <1>6, <1>8, TimesCancel
<1> QED BY <1>5, <1>6, <1>9 DEF q

LEMMA TuningBounds ==
    /\ SmallFileCutoff \in Nat /\ MinThreshold \in Nat /\ MB \in Nat
    /\ 1 <= MinThreshold /\ MinThreshold <= SmallFileCutoff /\ 1 <= MB
    /\ 16 * SmallFileCutoff <= 8 * MB
BY SMT DEF SmallFileCutoff, MinThreshold, MB, KB

(* Averages and percentiles of the small sizes.                            *)
LEMMA SmallStatistics ==
    ASSUME NEW s, AreSizes(s), Len(Small(s)) >= MinSmallFiles
    PROVE  LET n == Cardinality(SmallOnes(s))
               m == Small(s)
               k == (9 * n + 9) \div 10
           IN  /\ n \in Nat /\ n >= 4 /\ Len(m) = n /\ k \in 1..n
               /\ AvgSmall(m) \in 1..SmallFileCutoff
               /\ Median(m) \in 0..SmallFileCutoff
               /\ P90(m) \in 0..SmallFileCutoff
               /\ P90(m) >= m[k]
<1> DEFINE n == Cardinality(SmallOnes(s))
           m == Small(s)
           k == (9 * n + 9) \div 10
           h == (5 * n + 9) \div 10
           c == SmallFileCutoff
<1>1. n \in Nat /\ m \in [1..n -> 0..c]
    BY SmallIsSorted
<1>2. c \in Nat /\ 1 <= c
    BY TuningBounds
<1> HIDE DEF m, n, c
<1>3. Len(m) = n /\ n >= 4
    BY <1>1 DEF MinSmallFiles, m
<1>4. h \in 1..n /\ k \in 1..n
    BY <1>1, <1>3
<1>5. AvgSmall(m) \in 1..c
  <2>1. SumFunction(m) \div n \in 0..c
      BY <1>1, <1>2, <1>3, MeanBound
  <2> QED BY <1>2, <1>3, <2>1 DEF AvgSmall, OrElse
<1> HIDE DEF h, k
<1>6. m[h] \in 0..c /\ m[k] \in 0..c
    BY <1>1, <1>4
<1>7. Percentile(m, 5) = m[h] /\ Percentile(m, 9) = m[k]
    BY <1>3 DEF Percentile, h, k
<1>8. Median(m) \in 0..c
    BY <1>2, <1>5, <1>6, <1>7 DEF Median, OrElse
<1>9. P90(m) \in 0..c /\ P90(m) >= m[k]
    BY <1>2, <1>6, <1>7, <1>8 DEF P90, OrElse
<1> QED BY <1>1, <1>3, <1>4, <1>5, <1>8, <1>9 DEF m, n, c, k

Options == [threshold : Int, maxFiles : Int, maxBytes : Int, auto : BOOLEAN]

(* What is said of limits that were computed from the sizes s.             *)
GoodLimits(o, s) ==
    /\ o.threshold \in MinThreshold .. SmallFileCutoff
    /\ o.maxFiles \in 8 .. 512
    /\ o.maxBytes \in MB .. 8 * MB
    /\ 4 * o.threshold <= o.maxBytes
    /\ o.maxFiles * AvgSmall(Small(s)) <= o.maxBytes

LEMMA TunedLimits ==
    ASSUME NEW s, AreSizes(s), NEW o \in Options, Tuned(o, s) # o
    PROVE  GoodLimits(Tuned(o, s), s)
<1> DEFINE m  == Small(s)
           a  == AvgSmall(m)
           th == Threshold(Median(m), P90(m))
           tb == TargetBytes(a, th)
           mf == MaxFiles(a, tb)
<1>1. /\ Tuned(o, s) = [o EXCEPT !.threshold = th, !.maxFiles = mf, !.maxBytes = tb]
      /\ ~(Len(m) < MinSmallFiles)
    BY DEF Tuned
<1>2. Len(m) >= MinSmallFiles
  <2>1. Len(m) \in Nat
      BY SmallIsSorted
  <2> QED BY <1>1, <2>1 DEF MinSmallFiles
<1>3. a \in 1..SmallFileCutoff /\ Median(m) \in 0..SmallFileCutoff
      /\ P90(m) \in 0..SmallFileCutoff
    BY <1>2, SmallStatistics
<1> HIDE DEF m, a
<1>4. th \in MinThreshold..SmallFileCutoff
    BY <1>3, TuningBounds DEF Threshold, AtLeast, AtMost
<1> HIDE DEF th
<1>5. tb \in MB..(8 * MB) /\ 4 * th <= tb /\ 16 * a <= tb
    BY <1>3, <1>4, TuningBounds DEF TargetBytes, AtLeast, AtMost
<1> HIDE DEF tb
<1>6. tb \div a \in Nat /\ (tb \div a) * a <= tb
    BY <1>3, <1>5, TuningBounds, DivRange
<1>7. mf \in 8..512 /\ (mf <= tb \div a \/ mf = 8)
    BY <1>6 DEF MaxFiles, AtLeast, AtMost
<1> HIDE DEF mf
<1>8. mf * a <= tb
  <2>1. CASE mf = 8
      BY <1>3, <1>5, <2>1
  <2>2. CASE mf <= tb \div a
    <3>1. mf * a <= (tb \div a) * a
        BY <1>3, <1>6, <1>7, <2>2, TimesMonotone
    <3>2. mf * a \in Int /\ (tb \div a) * a \in Int /\ tb \in Int
        BY <1>3, <1>5, <1>6, <1>7, TuningBounds
    <3> QED BY <1>6, <3>1, <3>2
  <2> QED BY <1>7, <2>1, <2>2
<1>9. Tuned(o, s).threshold = th /\ Tuned(o, s).maxFiles = mf /\ Tuned(o, s).maxBytes = tb
    BY <1>1 DEF Options
<1> QED BY <1>4, <1>5, <1>7, <1>8, <1>9 DEF GoodLimits, a, m

(* Nine in ten of the small files are no larger than the threshold: the    *)
(* ninth decile is a size that so many files do not exceed.                *)
LEMMA TunedThreshold ==
    ASSUME NEW s, AreSizes(s), NEW o \in Options, Tuned(o, s) # o
    PROVE  10 * Cardinality({i \in SmallOnes(s) : s[i] <= Tuned(o, s).threshold})
               >= 9 * Cardinality(SmallOnes(s))
<1> DEFINE m  == Small(s)
           n  == Cardinality(SmallOnes(s))
           k  == (9 * n + 9) \div 10
           th == Threshold(Median(m), P90(m))
           B  == {i \in SmallOnes(s) : s[i] <= th}
           f  == [r \in 1..k |-> Order(s)[r]]
<1>1. Tuned(o, s).threshold = th /\ ~(Len(m) < MinSmallFiles)
    BY DEF Tuned, Options
<1>2. Len(m) >= MinSmallFiles
  <2>1. Len(m) \in Nat
      BY SmallIsSorted
  <2> QED BY <1>1, <2>1 DEF MinSmallFiles
<1>3. /\ n \in Nat /\ k \in 1..n
      /\ Median(m) \in 0..SmallFileCutoff /\ P90(m) \in 0..SmallFileCutoff
      /\ P90(m) >= m[k]
    BY <1>2, SmallStatistics
<1>4. 10 * k >= 9 * n
    BY <1>3
<1>5. /\ m \in [1..n -> 0..SmallFileCutoff]
      /\ Order(s) \in Injection(1..n, SmallOnes(s))
      /\ \A r \in 1..n : m[r] = s[Order(s)[r]]
      /\ \A r \in 1..n : r <= k => m[r] <= m[k]
    BY <1>3, SmallIsSorted
<1> HIDE DEF m, n, k
<1>6. th \in Int /\ (P90(m) <= th \/ th = SmallFileCutoff)
    BY <1>3, TuningBounds DEF Threshold, AtLeast, AtMost
<1> HIDE DEF th
<1>7. ASSUME NEW r \in 1..k PROVE r \in 1..n /\ Order(s)[r] \in B
  <2>1. r \in 1..n /\ r <= k
      BY <1>3
  <2>2. m[r] \in 0..SmallFileCutoff /\ m[r] <= m[k] /\ m[k] \in 0..SmallFileCutoff
      BY <1>3, <1>5, <2>1
  <2>3. m[r] <= th
      BY <1>3, <1>6, <2>2
  <2>4. Order(s)[r] \in SmallOnes(s) /\ s[Order(s)[r]] = m[r]
      BY <1>5, <2>1 DEF Injection
  <2> QED BY <2>1, <2>3, <2>4
<1>8. f \in Injection(1..k, B)
    BY <1>5, <1>7 DEF Injection, IsInjective
<1>9. IsFiniteSet(B)
  <2>1. SmallOnes(s) \subseteq DOMAIN s
      BY DEF SmallOnes
  <2>2. B \subseteq DOMAIN s
      BY <2>1
  <2> QED BY <2>2, FS_Subset DEF AreSizes
<1> HIDE DEF f, B
<1>10. Cardinality(1..k) <= Cardinality(B) /\ Cardinality(1..k) = k /\ Cardinality(B) \in Nat
    BY <1>3, <1>8, <1>9, FS_Injection, FS_Interval, FS_CardinalityType
<1>11. 10 * Cardinality(B) >= 9 * n
    BY <1>3, <1>4, <1>10
<1> QED BY <1>1, <1>11 DEF B, n

-----------------------------------------------------------------------------
(* Batches.                                                                *)

Members == [size : Nat, written : Nat]
Batch0  == [open : BOOLEAN, entries : Seq(Copies), members : Seq(Members), totalBytes : Nat]

(* All members but the last have what their headers promise.               *)
WholeBut(members) ==
    /\ \A i \in 1..Len(members) : members[i].written <= members[i].size
    /\ \A i \in 1..Len(members) : i < Len(members) => members[i].written = members[i].size

(* What holds of a batch while it is built, and when it is sent.           *)
Building(b) ==
    /\ b \in Batch0
    /\ Len(b.members) = Len(b.entries)
    /\ b.totalBytes = Total(b.entries)
    /\ b.entries # <<>> => b.open /\ Enabled
    /\ WholeBut(b.members)
    /\ \A i \in 1..Len(b.entries) : b.entries[i].size <= opts.threshold
    /\ opts.maxFiles > 0 => Len(b.entries) <= opts.maxFiles
    /\ opts.maxBytes > 0 => b.totalBytes <= opts.maxBytes \/ Len(b.entries) <= 1

Complete(b) == Building(b) /\ b.entries # <<>> /\ ~LastShort(b)

(* The tasks that the batcher may send, and all tasks.                     *)
CopyTasks   == {CopyTask(c) : c \in Copies} \cup {BatchTask(b) : b \in {b \in Batch0 : Complete(b)}}
DeleteTasks == {DeleteTask(k) : k \in Keys}

LEMMA TotalEmpty == Total(<<>>) = 0
<1>1. DOMAIN [i \in DOMAIN <<>> |-> <<>>[i].size] = {}
    OBVIOUS
<1> QED BY <1>1, SumEmpty DEF Total, SumFunction

LEMMA TotalType == ASSUME NEW s \in Seq(Copies) PROVE Total(s) \in Nat
<1> DEFINE f == [i \in DOMAIN s |-> s[i].size]
<1>1. DOMAIN s = 1..Len(s) /\ Len(s) \in Nat
    OBVIOUS
<1>2. IsFiniteSet(1..Len(s))
    BY <1>1, FS_Interval
<1>3. \A i \in 1..Len(s) : s[i] \in Copies
    BY <1>1
<1>4. NatValued(f, 1..Len(s))
    BY <1>1, <1>3 DEF NatValued, Copies
<1> QED BY <1>1, <1>2, <1>4, SumType DEF Total, SumFunction

LEMMA TotalAppend ==
    ASSUME NEW s \in Seq(Copies), NEW c \in Copies
    PROVE  Total(Append(s, c)) = Total(s) + c.size
<1> DEFINE n == Len(s)
           a == Append(s, c)
           f == [i \in DOMAIN s |-> s[i].size]
           g == [i \in DOMAIN a |-> a[i].size]
<1>1. n \in Nat /\ DOMAIN s = 1..n /\ DOMAIN a = 1..(n + 1) /\ a \in Seq(Copies)
    OBVIOUS
<1>2. (\A i \in 1..n : a[i] = s[i]) /\ a[n + 1] = c
    OBVIOUS
<1>3. 1..(n + 1) = (1..n) \cup {n + 1} /\ n + 1 \notin 1..n /\ IsFiniteSet(1..n)
  <2>1. \A k \in Nat : 1..(k + 1) = (1..k) \cup {k + 1} /\ k + 1 \notin 1..k
      OBVIOUS
  <2>2. IsFiniteSet(1..n)
      BY <1>1, FS_Interval
  <2> HIDE DEF n
  <2> QED BY <1>1, <2>1, <2>2
<1>4. \A i \in DOMAIN a : a[i] \in Copies
    BY <1>1
<1> HIDE DEF a, n
<1>5. NatValued(g, (1..n) \cup {n + 1}) /\ g[n + 1] = c.size /\ NatValued(g, 1..n)
    BY <1>1, <1>2, <1>3, <1>4 DEF NatValued, Copies
<1>6. \A i \in 1..n : g[i] = f[i]
    BY <1>1, <1>2, <1>3
<1>7. DOMAIN f = 1..n /\ DOMAIN g = (1..n) \cup {n + 1}
    BY <1>1, <1>3
<1> HIDE DEF f, g
<1>8. SumFunctionOnSet(g, 1..n) = SumFunctionOnSet(f, 1..n)
    BY <1>3, <1>5, <1>6, SumSame
<1>9. SumFunctionOnSet(g, (1..n) \cup {n + 1}) = SumFunctionOnSet(g, 1..n) + g[n + 1]
  <2> SUFFICES ASSUME NEW S, S = 1..n, NEW x, x = n + 1
               PROVE  SumFunctionOnSet(g, S \cup {x}) = SumFunctionOnSet(g, S) + g[x]
      OBVIOUS
  <2>1. IsFiniteSet(S) /\ x \notin S /\ NatValued(g, S \cup {x})
      BY <1>3, <1>5
  <2> QED BY <2>1, SumInsert
<1>10. Total(s) = SumFunctionOnSet(f, 1..n) /\ Total(a) = SumFunctionOnSet(g, (1..n) \cup {n + 1})
    BY <1>7 DEF Total, SumFunction, f, g
<1> QED BY <1>5, <1>8, <1>9, <1>10 DEF a

OptsTyped == opts \in Options

LEMMA EmptyBuilding == ASSUME OptsTyped PROVE Building(Empty) /\ ~ReachedLimits(Empty)
<1>1. Empty \in Batch0 /\ Len(Empty.members) = 0 /\ Len(Empty.entries) = 0
      /\ Empty.entries = <<>> /\ Empty.totalBytes = 0
    BY DEF Empty, Batch0
<1>2. WholeBut(Empty.members)
    BY <1>1 DEF WholeBut
<1>3. \A x \in Int : x > 0 => ~(0 >= x) /\ 0 <= x
    OBVIOUS
<1>4. opts.maxFiles \in Int /\ opts.maxBytes \in Int
    BY DEF OptsTyped, Options
<1> QED BY <1>1, <1>2, <1>3, <1>4, TotalEmpty DEF Building, ReachedLimits

(* What a file that can be opened makes of a batch with room for it.       *)
LEMMA ExtendedBuilding ==
    ASSUME OptsTyped, NEW b, Building(b), ~LastShort(b), NEW c \in Copies, NEW n \in Nat,
           Enabled, c.size <= opts.threshold, n <= HeaderSize(c),
           opts.maxFiles > 0 => Len(b.entries) < opts.maxFiles,
           opts.maxBytes > 0 => b.totalBytes + c.size <= opts.maxBytes \/ b.entries = <<>>
    PROVE  Building(Extended(b, c, n)) /\ Extended(b, c, n).entries = Append(b.entries, c)
<1> DEFINE e == Extended(b, c, n)
           m == [size |-> HeaderSize(c), written |-> n]
           l == Len(b.entries)
<1>1. b \in Batch0 /\ Len(b.members) = l /\ l \in Nat /\ c.size \in Nat
    BY DEF Building, Batch0, Copies
<1>2. m \in Members
    BY <1>1 DEF Members, HeaderSize
<1>3. /\ e.open = TRUE /\ e.entries = Append(b.entries, c) /\ e.members = Append(b.members, m)
      /\ e.totalBytes = b.totalBytes + c.size
    BY DEF Extended
<1>4. b.entries \in Seq(Copies) /\ b.members \in Seq(Members) /\ b.totalBytes \in Nat
    BY <1>1 DEF Batch0
<1>5. e \in Batch0
    BY <1>1, <1>2, <1>4 DEF Batch0, Extended
<1>6. Len(e.members) = l + 1 /\ Len(e.entries) = l + 1
    BY <1>1, <1>3, <1>4
<1>7. e.totalBytes = Total(e.entries)
    BY <1>3, <1>4, TotalAppend DEF Building
<1>8. ASSUME NEW i \in 1..(l + 1)
      PROVE  /\ e.entries[i].size <= opts.threshold
             /\ e.members[i].written <= e.members[i].size
             /\ i < l + 1 => e.members[i].written = e.members[i].size
  <2>1. CASE i = l + 1
    <3>1. e.entries[i] = c /\ e.members[i] = m
        BY <1>1, <1>3, <1>4, <2>1
    <3> QED BY <1>1, <2>1, <3>1
  <2>2. CASE i # l + 1
    <3>1. i \in 1..l
        BY <1>1, <2>2
    <3>2. e.entries[i] = b.entries[i] /\ e.members[i] = b.members[i]
        BY <1>1, <1>3, <1>4, <3>1
    <3>3. b.entries[i].size <= opts.threshold /\ b.members[i].written <= b.members[i].size
        BY <1>1, <3>1 DEF Building, WholeBut
    <3>4. b.members[i].written = b.members[i].size
      <4>1. CASE i < l
          BY <1>1, <3>1, <4>1 DEF Building, WholeBut
      <4>2. CASE i = l
        <5>1. b.members # <<>>
            BY <1>1, <1>4, <3>1
        <5>2. ~(b.members[l].written < b.members[l].size)
            BY <1>1, <5>1 DEF LastShort
        <5>3. b.members[i] \in Members
            BY <1>1, <1>4, <3>1
        <5> QED BY <3>3, <4>2, <5>2, <5>3 DEF Members
      <4> QED BY <1>1, <3>1, <4>1, <4>2
    <3> QED BY <3>2, <3>3, <3>4
  <2> QED BY <2>1, <2>2
<1>9. WholeBut(e.members)
    BY <1>6, <1>8 DEF WholeBut
<1>10. opts.maxFiles > 0 => Len(e.entries) <= opts.maxFiles
    BY <1>1, <1>6 DEF OptsTyped, Options
<1>11. opts.maxBytes > 0 => e.totalBytes <= opts.maxBytes \/ Len(e.entries) <= 1
    BY <1>3, <1>6
<1> HIDE DEF e
<1> QED BY <1>3, <1>5, <1>6, <1>7, <1>8, <1>9, <1>10, <1>11 DEF Building, e

-----------------------------------------------------------------------------
(* What the batcher sends, and what it keeps.                              *)

AllTasks == CopyTasks \cup DeleteTasks

SentBy(s) == UNION {OpsOf(s[i]) : i \in DOMAIN s}
Held(b)   == {OpOf(b.entries[i]) : i \in DOMAIN b.entries}

LEMMA SentEmpty == SentBy(<<>>) = {}
BY DEF SentBy

LEMMA SentSingle == ASSUME NEW t PROVE SentBy(<<t>>) = OpsOf(t)
<1>1. DOMAIN <<t>> = {1} /\ <<t>>[1] = t
    OBVIOUS
<1> QED BY <1>1 DEF SentBy

LEMMA SentConcat ==
    ASSUME NEW T, NEW s \in Seq(T), NEW t \in Seq(T)
    PROVE  s \o t \in Seq(T) /\ SentBy(s \o t) = SentBy(s) \cup SentBy(t)
<1> DEFINE u == s \o t
           k == Len(s)
           l == Len(t)
<1>1. /\ u \in Seq(T) /\ k \in Nat /\ l \in Nat
      /\ DOMAIN s = 1..k /\ DOMAIN t = 1..l /\ DOMAIN u = 1..(k + l)
    OBVIOUS
<1>2. (\A i \in 1..k : u[i] = s[i]) /\ (\A i \in 1..l : u[k + i] = t[i])
    OBVIOUS
<1> HIDE DEF u, k, l
<1>3. ASSUME NEW i \in 1..(k + l) PROVE OpsOf(u[i]) \subseteq SentBy(s) \cup SentBy(t)
  <2>1. CASE i <= k
    <3>1. i \in 1..k
        BY <1>1, <2>1
    <3> QED BY <1>1, <1>2, <3>1 DEF SentBy
  <2>2. CASE ~(i <= k)
    <3>1. i - k \in 1..l /\ k + (i - k) = i
        BY <1>1, <2>2
    <3>2. u[i] = t[i - k]
        BY <1>2, <3>1
    <3> QED BY <1>1, <3>1, <3>2 DEF SentBy
  <2> QED BY <2>1, <2>2
<1>4. SentBy(s) \subseteq SentBy(u)
  <2>1. \A i \in 1..k : i \in 1..(k + l)
      BY <1>1
  <2> QED BY <1>1, <1>2, <2>1 DEF SentBy
<1>5. SentBy(t) \subseteq SentBy(u)
  <2>1. \A i \in 1..l : k + i \in 1..(k + l)
      BY <1>1
  <2> QED BY <1>1, <1>2, <2>1 DEF SentBy
<1>6. SentBy(u) \subseteq SentBy(s) \cup SentBy(t)
    BY <1>1, <1>3 DEF SentBy
<1> QED BY <1>1, <1>4, <1>5, <1>6 DEF u

LEMMA SingleCopy ==
    ASSUME NEW c \in Copies
    PROVE  <<CopyTask(c)>> \in Seq(CopyTasks) /\ SentBy(<<CopyTask(c)>>) = {OpOf(c)}
<1> DEFINE t == CopyTask(c)
<1>1. t \in CopyTasks /\ t.action = "copy" /\ t.copies = <<c>>
    BY DEF CopyTasks, CopyTask
<1>2. DOMAIN t.copies = {1} /\ t.copies[1] = c
    BY <1>1
<1> HIDE DEF t
<1>3. OpsOf(t) = {OpOf(c)}
    BY <1>1, <1>2 DEF OpsOf, OpOf
<1> QED BY <1>1, <1>3, SentSingle DEF t

LEMMA FlushedWorks ==
    ASSUME NEW b, Building(b), ~FlushFails(b)
    PROVE  Flushed(b) \in Seq(CopyTasks) /\ SentBy(Flushed(b)) = Held(b)
<1>1. CASE b.entries = <<>>
  <2>1. Held(b) = {}
      BY <1>1 DEF Held
  <2>2. Flushed(b) = <<>>
      BY <1>1 DEF Flushed
  <2> QED BY <2>1, <2>2, SentEmpty
<1>2. CASE b.entries # <<>>
  <2> DEFINE t == BatchTask(b)
  <2>1. t.action = "copyBatch" /\ t.copies = b.entries
      BY DEF BatchTask
  <2>2. Complete(b) /\ b \in Batch0
      BY <1>2 DEF Complete, FlushFails, Building
  <2>3. t \in CopyTasks
      BY <2>2 DEF CopyTasks
  <2> HIDE DEF t
  <2>4. OpsOf(t) = Held(b)
      BY <2>1 DEF OpsOf, Held, OpOf
  <2>5. Flushed(b) = <<t>>
      BY <1>2 DEF Flushed, t
  <2> QED BY <2>3, <2>4, <2>5, SentSingle
<1> QED BY <1>1, <1>2

LEMMA HeldAppend ==
    ASSUME NEW b, b.entries \in Seq(Copies), NEW c \in Copies,
           NEW e, e.entries = Append(b.entries, c)
    PROVE  Held(e) = Held(b) \cup {OpOf(c)}
<1> DEFINE l == Len(b.entries)
<1>1. l \in Nat /\ DOMAIN b.entries = 1..l /\ DOMAIN e.entries = 1..(l + 1)
    OBVIOUS
<1>2. (\A i \in 1..l : e.entries[i] = b.entries[i]) /\ e.entries[l + 1] = c
    OBVIOUS
<1> HIDE DEF l
<1>3. \A i \in 1..(l + 1) : i \in 1..l \/ i = l + 1
    BY <1>1
<1>4. l + 1 \in 1..(l + 1) /\ \A i \in 1..l : i \in 1..(l + 1)
    BY <1>1
<1> QED BY <1>1, <1>2, <1>3, <1>4 DEF Held

LEMMA HeldEmpty == Held(Empty) = {}
<1>1. DOMAIN Empty.entries = {}
    BY DEF Empty
<1> QED BY <1>1 DEF Held

(* Some copies were sent, and the new operations went where they belong:   *)
(* to what was sent or to the batch, unless there was an error.            *)
Effect(new, sent) ==
    /\ sent \in Seq(CopyTasks)
    /\ out' = out \o sent
    /\ err' \in {"none", "open", "short", "long"}
    /\ Building(batch')
    /\ SentBy(sent) \cup Held(batch') \subseteq Held(batch) \cup new
    /\ err' = "none" =>
          /\ SentBy(sent) \cup Held(batch') = Held(batch) \cup new
          /\ ~ReachedLimits(batch')

LEMMA FlushWorks ==
    ASSUME OptsTyped, Building(batch), err = "none", out \in Seq(AllTasks), Flush
    PROVE  \E sent : Effect({}, sent) /\ (err' = "none" => batch' = Empty)
<1>1. CASE Enabled /\ FlushFails(batch)
  <2>1. err' = "short" /\ out' = out \o <<>> /\ batch' = batch
      BY <1>1 DEF Flush, Fail
  <2>2. Effect({}, <<>>)
      BY <2>1, SentEmpty DEF Effect
  <2> QED BY <2>1, <2>2
<1>2. CASE ~(Enabled /\ FlushFails(batch))
  <2>1. err' = "none" /\ out' = out \o Flushed(batch) /\ batch' = Empty
      BY <1>2 DEF Flush
  <2>2. ~FlushFails(batch)
      BY <1>2 DEF Building, FlushFails
  <2>3. Effect({}, Flushed(batch))
      BY <2>1, <2>2, FlushedWorks, HeldEmpty, EmptyBuilding DEF Effect
  <2> QED BY <2>1, <2>3
<1> QED BY <1>1, <1>2

(* A batch that was only opened is as it was.                              *)
LEMMA OpenedBuilding ==
    ASSUME OptsTyped, NEW b, Building(b), b.entries # <<>> \/ Enabled,
           NEW o, o = [b EXCEPT !.open = TRUE]
    PROVE  Building(o) /\ Held(o) = Held(b)
<1>1. /\ o \in Batch0 /\ o.open = TRUE /\ o.entries = b.entries /\ o.members = b.members
      /\ o.totalBytes = b.totalBytes
    BY DEF Building, Batch0
<1> QED BY <1>1 DEF Building, Held

LEMMA StoreWorks ==
    ASSUME OptsTyped, out \in Seq(AllTasks), NEW b, NEW sent, NEW c \in Copies, NEW n \in Nat,
           Building(b), ~LastShort(b), Enabled, c.size <= opts.threshold, n <= HeaderSize(c),
           opts.maxFiles > 0 => Len(b.entries) < opts.maxFiles,
           opts.maxBytes > 0 => b.totalBytes + c.size <= opts.maxBytes \/ b.entries = <<>>,
           sent \in Seq(CopyTasks), SentBy(sent) \cup Held(b) = Held(batch),
           err = "none", Store(b, c, n, sent)
    PROVE  \E all : Effect({OpOf(c)}, all)
<1> DEFINE e == Extended(b, c, n)
<1>1. Building(e) /\ e.entries = Append(b.entries, c)
    BY ExtendedBuilding
<1>2. Held(e) = Held(b) \cup {OpOf(c)}
  <2>1. b.entries \in Seq(Copies)
      BY DEF Building, Batch0
  <2> HIDE DEF e
  <2> QED BY <1>1, <2>1, HeldAppend
<1>3. /\ ~ReachedLimits(e) => batch' = e /\ out' = out \o sent /\ UNCHANGED err
      /\ ReachedLimits(e) /\ FlushFails(e) => Fail("short", sent, e)
      /\ ReachedLimits(e) /\ ~FlushFails(e) =>
            out' = out \o sent \o Flushed(e) /\ batch' = Empty /\ UNCHANGED err
    BY DEF Store
<1> HIDE DEF e
<1>4. CASE ~ReachedLimits(e)
  <2>1. Effect({OpOf(c)}, sent)
      BY <1>1, <1>2, <1>3, <1>4 DEF Effect
  <2> QED BY <2>1
<1>5. CASE ReachedLimits(e) /\ FlushFails(e)
  <2>1. Effect({OpOf(c)}, sent)
      BY <1>1, <1>2, <1>3, <1>5 DEF Effect, Fail
  <2> QED BY <2>1
<1>6. CASE ReachedLimits(e) /\ ~FlushFails(e)
  <2>1. Flushed(e) \in Seq(CopyTasks) /\ SentBy(Flushed(e)) = Held(e)
      BY <1>1, <1>6, FlushedWorks
  <2> DEFINE all == sent \o Flushed(e)
  <2>2. all \in Seq(CopyTasks) /\ SentBy(all) = SentBy(sent) \cup Held(e)
      BY <2>1, SentConcat
  <2>3. (out \o sent) \o Flushed(e) = out \o all
    <3>1. sent \in Seq(AllTasks) /\ Flushed(e) \in Seq(AllTasks)
        BY <2>1 DEF AllTasks
    <3> QED BY <3>1, ConcatAssociative
  <2>4. out' = out \o all /\ batch' = Empty /\ err' = "none"
      BY <1>3, <1>6, <2>3
  <2> HIDE DEF all
  <2>5. Effect({OpOf(c)}, all)
      BY <1>2, <2>2, <2>4, HeldEmpty, EmptyBuilding DEF Effect
  <2> QED BY <2>5
<1> QED BY <1>4, <1>5, <1>6

LEMMA AddSmallWorks ==
    ASSUME OptsTyped, Building(batch), ~ReachedLimits(batch), err = "none",
           out \in Seq(AllTasks), NEW c \in Copies, NEW n \in Nat \cup {Unreadable},
           AddSmall(c, n)
    PROVE  \E sent : Effect({OpOf(c)}, sent)
<1> DEFINE full == ~CanAdd(c.size)
           b    == IF full THEN Empty ELSE batch
           sent == IF full THEN Flushed(batch) ELSE <<>>
           o    == [b EXCEPT !.open = TRUE]
<1>1. /\ Enabled /\ c.size <= opts.threshold
      /\ IF full /\ FlushFails(batch) THEN Fail("short", <<>>, batch)
         ELSE IF n = Unreadable       THEN Fail("open", sent, o)
         ELSE IF LastShort(b)         THEN Fail("short", sent, Empty)
         ELSE IF n > HeaderSize(c)    THEN Fail("long", sent, Empty)
         ELSE Store(b, c, n, sent)
    BY DEF AddSmall
<1>2. CASE full /\ FlushFails(batch)
  <2>1. Effect({OpOf(c)}, <<>>)
    <3>1. err' = "short" /\ out' = out \o <<>> /\ batch' = batch
        BY <1>1, <1>2 DEF Fail
    <3> QED BY <3>1, SentEmpty DEF Effect
  <2> QED BY <2>1
<1>3. CASE ~(full /\ FlushFails(batch))
  <2>1. sent \in Seq(CopyTasks) /\ SentBy(sent) \cup Held(b) = Held(batch) /\ Building(b)
    <3>1. CASE full
        BY <1>3, <3>1, FlushedWorks, HeldEmpty, EmptyBuilding
    <3>2. CASE ~full
        BY <3>2, SentEmpty
    <3> QED BY <3>1, <3>2
  <2>2. /\ opts.maxFiles > 0 => Len(b.entries) < opts.maxFiles
        /\ opts.maxBytes > 0 => b.totalBytes + c.size <= opts.maxBytes \/ b.entries = <<>>
    <3>1. CASE full
      <4>1. b.entries = <<>> /\ Len(b.entries) = 0
          BY <3>1 DEF Empty
      <4> QED BY <4>1 DEF OptsTyped, Options
    <3>2. CASE ~full
        BY <3>2 DEF CanAdd
    <3> QED BY <3>1, <3>2
  <2>3. IF n = Unreadable            THEN Fail("open", sent, o)
        ELSE IF LastShort(b)         THEN Fail("short", sent, Empty)
        ELSE IF n > HeaderSize(c)    THEN Fail("long", sent, Empty)
        ELSE Store(b, c, n, sent)
      BY <1>1, <1>3
  <2> HIDE DEF full, b, sent
  <2>4. CASE n = Unreadable
    <3>1. Building(o) /\ Held(o) = Held(b)
        BY <1>1, <2>1, OpenedBuilding
    <3>2. err' = "open" /\ out' = out \o sent /\ batch' = o
        BY <2>3, <2>4 DEF Fail
    <3> HIDE DEF o
    <3>3. Effect({OpOf(c)}, sent)
        BY <2>1, <3>1, <3>2 DEF Effect
    <3> QED BY <3>3
  <2>5. ASSUME err' \in {"short", "long"}, out' = out \o sent, batch' = Empty
        PROVE  Effect({OpOf(c)}, sent)
      BY <2>1, <2>5, HeldEmpty, EmptyBuilding DEF Effect
  <2>6. CASE n # Unreadable /\ LastShort(b)
    <3>1. err' = "short" /\ out' = out \o sent /\ batch' = Empty
        BY <2>3, <2>6 DEF Fail
    <3> QED BY <2>5, <3>1
  <2>7. CASE n # Unreadable /\ ~LastShort(b) /\ n > HeaderSize(c)
    <3>1. err' = "long" /\ out' = out \o sent /\ batch' = Empty
        BY <2>3, <2>7 DEF Fail
    <3> QED BY <2>5, <3>1
  <2>8. CASE n # Unreadable /\ ~LastShort(b) /\ ~(n > HeaderSize(c))
    <3>1. n \in Nat /\ HeaderSize(c) \in Nat
        BY <2>8 DEF HeaderSize, Copies
    <3>2. n <= HeaderSize(c) /\ Store(b, c, n, sent)
        BY <2>3, <2>8, <3>1
    <3> QED BY <1>1, <2>1, <2>2, <2>8, <3>1, <3>2, StoreWorks
  <2> QED BY <2>4, <2>6, <2>7, <2>8
<1> QED BY <1>2, <1>3

LEMMA AddWorks ==
    ASSUME OptsTyped, Building(batch), ~ReachedLimits(batch), err = "none",
           out \in Seq(AllTasks), NEW c \in Copies, NEW n \in Nat \cup {Unreadable},
           Add(c, n)
    PROVE  \E sent : Effect({OpOf(c)}, sent)
<1> DEFINE t == CopyTask(c)
<1>1. <<t>> \in Seq(CopyTasks) /\ SentBy(<<t>>) = {OpOf(c)} /\ t \in CopyTasks
  <2>1. t \in CopyTasks
      BY DEF CopyTasks
  <2> QED BY <2>1, SingleCopy
<1> HIDE DEF t
<1>2. CASE AddUnbatched(c)
  <2>1. out' = Append(out, t) /\ batch' = batch /\ err' = "none"
      BY <1>2 DEF AddUnbatched, t
  <2>2. out' = out \o <<t>>
      BY <1>1, <2>1
  <2>3. Effect({OpOf(c)}, <<t>>)
      BY <1>1, <2>1, <2>2 DEF Effect
  <2> QED BY <2>3
<1>3. CASE AddLarge(c)
  <2>1. CASE FlushFails(batch)
    <3>1. err' = "short" /\ out' = out \o <<>> /\ batch' = batch
        BY <1>3, <2>1 DEF AddLarge, Fail
    <3>2. Effect({OpOf(c)}, <<>>)
        BY <3>1, SentEmpty DEF Effect
    <3> QED BY <3>2
  <2>2. CASE ~FlushFails(batch)
    <3> DEFINE all == Flushed(batch) \o <<t>>
    <3>1. Flushed(batch) \in Seq(CopyTasks) /\ SentBy(Flushed(batch)) = Held(batch)
        BY <2>2, FlushedWorks
    <3>2. all \in Seq(CopyTasks) /\ SentBy(all) = Held(batch) \cup {OpOf(c)}
      <4> DEFINE one == <<t>>
      <4>1. one \in Seq(CopyTasks)
          BY <1>1
      <4> HIDE DEF one
      <4>2. Flushed(batch) \o one \in Seq(CopyTasks)
            /\ SentBy(Flushed(batch) \o one) = SentBy(Flushed(batch)) \cup SentBy(one)
          BY <3>1, <4>1, SentConcat
      <4> QED BY <1>1, <3>1, <4>2 DEF one
    <3>3. out' = out \o Append(Flushed(batch), t) /\ batch' = Empty /\ err' = "none"
        BY <1>3, <2>2 DEF AddLarge, t
    <3>4. Append(Flushed(batch), t) = all
        BY <1>1, <3>1
    <3> HIDE DEF all
    <3>5. Effect({OpOf(c)}, all)
        BY <3>2, <3>3, <3>4, HeldEmpty, EmptyBuilding DEF Effect
    <3> QED BY <3>5
  <2> QED BY <2>1, <2>2
<1>4. CASE AddSmall(c, n)
    BY <1>4, AddSmallWorks
<1> QED BY <1>2, <1>3, <1>4 DEF Add

-----------------------------------------------------------------------------
(* The invariant.                                                          *)

CopyPhases   == {"forward", "missing", "newer"}
DeletePhases == {"deleteFiles", "deleteDirs"}

TypesOK ==
    /\ scenario \in DOMAIN Scenarios /\ src \in This.srcTrees /\ dst \in This.dstTrees
    /\ pc \in {"snapshot", "done"} \cup CopyPhases \cup DeletePhases
    /\ err \in {"none", "snapshot", "open", "short", "long"}
    /\ OptsTyped
    /\ out \in Seq(AllTasks)
    /\ Building(batch)

(* What each loop goes over.                                               *)
TodoOf(p) ==
    CASE p \in {"forward", "newer"} -> DOMAIN SrcFiles
      [] p \in {"missing", "deleteFiles"} -> DOMAIN DstFiles
      [] p = "deleteDirs" -> DstDirs
      [] OTHER -> Keys

(* The limits are those that were given, or were computed from the source. *)
OptsFrom ==
    \/ opts \in This.opts
    \/ pc # "snapshot" /\ \E o \in This.opts : opts = Tuned(o, Sizes)

(* What is settled in each phase.  All the copies are in what was sent     *)
(* when the deletes begin.                                                 *)
Flow ==
    /\ todo \subseteq TodoOf(pc)
    /\ OptsFrom
    /\ pc = "snapshot" => out = <<>> /\ batch = Empty
    /\ err # "none" => pc = "done"
    /\ err = "none" => ~ReachedLimits(batch)
    /\ pc \in CopyPhases => out \in Seq(CopyTasks)
    /\ pc \in DeletePhases \/ (pc = "done" /\ err = "none") => batch = Empty

Back == IF Mode = "sync" THEN Extras(SrcFiles, DstFiles) \cup Newer(SrcFiles, DstFiles) ELSE {}

(* The operations that are left in phase p, of whose loop t is left.       *)
PendingAt(p, t) ==
    CASE p = "snapshot" -> Planned
      [] p = "forward" -> Ops("src", {k \in t : NeedsCopy(k)}) \cup Ops("dst", Back)
                              \cup Ops("delete", DeletePlan)
      [] p = "missing" -> Ops("dst", (t \ DOMAIN SrcFiles) \cup Newer(SrcFiles, DstFiles))
      [] p = "newer" -> Ops("dst", t \cap Newer(SrcFiles, DstFiles))
      [] p = "deleteFiles" -> Ops("delete", t \cup (DstDirs \ SrcDirs))
      [] p = "deleteDirs" -> Ops("delete", t)
      [] OTHER -> {}

(* Nothing outside the plan is sent, and without an error nothing of it    *)
(* gets lost between what was sent, the batch and what is left.            *)
Coverage ==
    /\ SentBy(out) \cup Held(batch) \subseteq Planned
    /\ err = "none" => SentBy(out) \cup Held(batch) \cup PendingAt(pc, todo) = Planned

PendingDeletes ==
    CASE pc = "deleteFiles" -> todo \cup (DstDirs \ SrcDirs)
      [] pc = "deleteDirs" -> todo
      [] OTHER -> {}

(* What is left to delete is not below what was deleted.                   *)
LeavesFirst ==
    /\ ChildrenFirst
    /\ \A i \in DOMAIN out : out[i].action = "delete" =>
          \A k \in PendingDeletes : k \notin Below[out[i].key]

IInv == TypesOK /\ Flow /\ Coverage /\ LeavesFirst

-----------------------------------------------------------------------------
(* The trees and the plan.                                                 *)

IsSnapshot(files, dirs) ==
    /\ DOMAIN files \cup dirs \subseteq Keys
    /\ dirs \cap DOMAIN files = {}
    /\ \A k \in DOMAIN files :
          files[k].size \in Nat /\ files[k].mtime \in Nat /\ files[k].link \in BOOLEAN
    /\ \A p \in Keys : Below[p] \cap (dirs \cup DOMAIN files) # {} => p \in dirs

LEMMA SnapshotsOfTrees ==
    ASSUME NEW t, IsTree(t)
    PROVE  IsSnapshot(SnapshotOf(t).files, SnapshotOf(t).dirs)
<1>1. CASE t.root = "missing"
  <2>1. DOMAIN SnapshotOf(t).files = {} /\ SnapshotOf(t).dirs = {}
      BY <1>1 DEF SnapshotOf
  <2> QED BY <2>1 DEF IsSnapshot
<1>2. CASE t.root # "missing"
  <2>1. SnapshotOf(t).files = t.files /\ SnapshotOf(t).dirs = t.dirs
      BY <1>2 DEF SnapshotOf
  <2> QED BY <2>1 DEF IsSnapshot, IsTree
<1> QED BY <1>1, <1>2

LEMMA Snapshots ==
    ASSUME TypesOK
    PROVE  /\ IsSnapshot(SrcFiles, SrcDirs) /\ IsSnapshot(DstFiles, DstDirs)
           /\ Mode \in {"update", "mirror", "sync"}
           /\ This.changes \subseteq Nat \cup {Unreadable}
           /\ This.opts \subseteq Options
<1>1. IsTree(src) /\ IsTree(dst) /\ Mode \in {"update", "mirror", "sync"}
      /\ This.changes \subseteq Nat \cup {Unreadable} /\ This.opts \subseteq Options
    BY ScanAssumption DEF TypesOK, This, Mode, Options
<1> QED BY <1>1, SnapshotsOfTrees DEF SrcFiles, SrcDirs, DstFiles, DstDirs

LEMMA CopyTypes ==
    ASSUME NEW side \in {"src", "dst"}, NEW files, NEW dirs, IsSnapshot(files, dirs),
           NEW k \in DOMAIN files
    PROVE  /\ CopyOf(side, k, files[k]) \in Copies
           /\ OpOf(CopyOf(side, k, files[k])) = [from |-> side, key |-> k]
BY DEF IsSnapshot, CopyOf, Copies, OpOf

LEMMA OpsUnion ==
    ASSUME NEW side, NEW A, NEW B
    PROVE  Ops(side, A \cup B) = Ops(side, A) \cup Ops(side, B)
BY DEF Ops

LEMMA OpsOne ==
    ASSUME NEW side, NEW k PROVE Ops(side, {k}) = {[from |-> side, key |-> k]}
BY DEF Ops

(* The plan is what the first loop has before it.                          *)
LEMMA PlannedPending == PendingAt("forward", DOMAIN SrcFiles) = Planned
<1>1. {k \in DOMAIN SrcFiles : NeedsCopy(k)} = Forward(SrcFiles, DstFiles)
    BY DEF NeedsCopy, Forward
<1>2. PendingAt("forward", DOMAIN SrcFiles)
          = Ops("src", {k \in DOMAIN SrcFiles : NeedsCopy(k)}) \cup Ops("dst", Back)
                \cup Ops("delete", DeletePlan)
    BY DEF PendingAt
<1> QED BY <1>1, <1>2 DEF Planned, Back

(* What is given does not change after the snapshots.                      *)
LEMMA GivenKept ==
    ASSUME UNCHANGED <<scenario, src, dst>>
    PROVE  /\ UNCHANGED <<This, Mode, SrcFiles, DstFiles, SrcDirs, DstDirs, Planned, Back,
                          DeletePlan, Sizes>>
           /\ TodoOf(pc)' = TodoOf(pc')
           /\ PendingAt(pc, todo)' = PendingAt(pc', todo')
<1>1. UNCHANGED <<This, Mode, SrcFiles, DstFiles, SrcDirs, DstDirs>>
    BY DEF This, Mode, SrcFiles, DstFiles, SrcDirs, DstDirs
<1>2. UNCHANGED <<DeletePlan, Back, Sizes>>
    BY <1>1 DEF DeletePlan, Back, Sizes
<1>3. UNCHANGED Planned
    BY <1>1, <1>2 DEF Planned
<1>4. TodoOf(pc)' = TodoOf(pc')
    BY <1>1 DEF TodoOf
<1>5. \A k : NeedsCopy(k)' = NeedsCopy(k)
    BY <1>1 DEF NeedsCopy
<1>6. PendingAt(pc, todo)' = PendingAt(pc', todo')
    BY <1>1, <1>2, <1>3, <1>5 DEF PendingAt
<1> QED BY <1>1, <1>2, <1>3, <1>4, <1>6

LEMMA OptsKept ==
    ASSUME UNCHANGED opts
    PROVE  /\ UNCHANGED <<CopyTasks, AllTasks>>
           /\ Building(batch)' = Building(batch') /\ ReachedLimits(batch)' = ReachedLimits(batch')
           /\ OptsTyped' = OptsTyped
<1>1. \A b : Building(b)' = Building(b)
    BY DEF Building, Enabled
<1>2. \A b : Complete(b)' = Complete(b)
    BY <1>1 DEF Complete
<1>3. UNCHANGED CopyTasks
    BY <1>2 DEF CopyTasks
<1> QED BY <1>3 DEF AllTasks, DeleteTasks, OptsTyped, Building, Enabled, ReachedLimits

-----------------------------------------------------------------------------
(* The steps.                                                              *)

(* The invariant is kept and what was sent is sent still.                  *)
Onward == IInv' /\ Sent \subseteq Sent'

LEMMA SentIsSentBy == Sent = SentBy(out)
BY DEF Sent, SentBy

LEMMA SentKept == ASSUME UNCHANGED out PROVE Sent \subseteq Sent'
BY DEF Sent

LEMMA NoDeletes ==
    ASSUME NEW s \in Seq(CopyTasks) PROVE \A i \in DOMAIN s : s[i].action # "delete"
<1>1. \A t \in CopyTasks : t.action # "delete"
    BY DEF CopyTasks, CopyTask, BatchTask
<1>2. \A i \in DOMAIN s : s[i] \in CopyTasks
    OBVIOUS
<1> QED BY <1>1, <1>2

LEMMA InitInv == ScanInit => IInv
<1> SUFFICES ASSUME ScanInit PROVE IInv
    OBVIOUS
<1>1. /\ scenario \in DOMAIN Scenarios /\ src \in This.srcTrees /\ dst \in This.dstTrees
      /\ opts \in This.opts /\ pc = "snapshot" /\ todo = {}
      /\ batch = Empty /\ out = <<>> /\ err = "none"
    BY DEF ScanInit, BatcherInit
<1>2. OptsTyped
    BY <1>1, ScanAssumption DEF This, OptsTyped, Options
<1>3. TypesOK
    BY <1>1, <1>2, EmptyBuilding DEF TypesOK
<1>4. Flow
    BY <1>1, <1>2, EmptyBuilding DEF Flow, OptsFrom, CopyPhases, DeletePhases
<1>5. Coverage
    BY <1>1, SentEmpty, HeldEmpty DEF Coverage, PendingAt
<1>6. LeavesFirst
    BY <1>1 DEF LeavesFirst, ChildrenFirst
<1> QED BY <1>3, <1>4, <1>5, <1>6 DEF IInv

LEMMA SizesTyped == ASSUME TypesOK PROVE AreSizes(Sizes) /\ Sizes = SizesOf(SrcFiles)
<1>1. IsSnapshot(SrcFiles, SrcDirs)
    BY Snapshots
<1>2. DOMAIN Sizes = DOMAIN SrcFiles /\ \A k \in DOMAIN SrcFiles : Sizes[k] = SrcFiles[k].size
    BY DEF Sizes, SizesOf
<1>3. DOMAIN SrcFiles \subseteq Keys
    BY <1>1 DEF IsSnapshot
<1>4. DOMAIN SrcFiles \subseteq Nat /\ IsFiniteSet(DOMAIN SrcFiles)
    BY <1>3, ScanAssumption, FS_Subset
<1> QED BY <1>1, <1>2, <1>4 DEF AreSizes, IsSnapshot, Sizes

(* Limits that were computed are numbers.                                  *)
LEMMA TunedTyped ==
    ASSUME NEW s, AreSizes(s), NEW o \in Options PROVE Tuned(o, s) \in Options
<1>1. CASE Tuned(o, s) = o
    BY <1>1
<1>2. CASE Tuned(o, s) # o
  <2> DEFINE t == Tuned(o, s)
             m == Small(s)
             th == Threshold(Median(m), P90(m))
             tb == TargetBytes(AvgSmall(m), th)
             mf == MaxFiles(AvgSmall(m), tb)
  <2>1. GoodLimits(t, s)
      BY <1>2, TunedLimits
  <2>2. t = [o EXCEPT !.threshold = th, !.maxFiles = mf, !.maxBytes = tb]
      BY <1>2 DEF Tuned
  <2> HIDE DEF th, tb, mf
  <2>3. t = [threshold |-> th, maxFiles |-> mf, maxBytes |-> tb, auto |-> o.auto]
      BY <2>2 DEF Options
  <2> HIDE DEF t
  <2>4. th \in Int /\ mf \in Int /\ tb \in Int
    <3>1. t.threshold \in Int /\ t.maxFiles \in Int /\ t.maxBytes \in Int
        BY <2>1 DEF GoodLimits
    <3> QED BY <2>3, <3>1
  <2>5. t \in Options
      BY <2>3, <2>4 DEF Options
  <2> QED BY <2>5 DEF t
<1> QED BY <1>1, <1>2

LEMMA SnapshotInv == ASSUME IInv, Snapshot PROVE Onward
<1>1. /\ pc = "snapshot" /\ out = <<>> /\ batch = Empty /\ opts \in This.opts
      /\ UNCHANGED <<scenario, src, dst, batch, out>>
    BY DEF Snapshot, IInv, Flow, OptsFrom
<1>2. err = "none"
    BY <1>1 DEF IInv, Flow
<1>3. UNCHANGED <<This, SrcFiles, DstFiles, SrcDirs, DstDirs, Planned, Sizes, Mode>>
      /\ TodoOf(pc)' = TodoOf(pc') /\ PendingAt(pc, todo)' = PendingAt(pc', todo')
    BY <1>1, GivenKept
<1>4. AreSizes(Sizes) /\ Sizes = SizesOf(SrcFiles) /\ opts \in Options
    BY <1>1, SizesTyped, Snapshots DEF IInv
<1>5. /\ pc' \in {"forward", "done"}
      /\ err' \in {"none", "snapshot"} /\ (err' # "none" => pc' = "done")
      /\ pc' = "forward" => todo' = DOMAIN SrcFiles
      /\ pc' = "done" => todo' = todo /\ err' # "none"
      /\ opts' \in {opts, Tuned(opts, Sizes)}
    BY <1>1, <1>2, <1>4 DEF Snapshot, SrcFiles
<1>6. opts' \in Options /\ OptsTyped'
    BY <1>4, <1>5, TunedTyped DEF OptsTyped
<1>7. batch' = Empty /\ out' = <<>>
    BY <1>1
<1>8. Building(batch)' /\ ~ReachedLimits(batch)'
  <2>1. OptsTyped => Building(Empty) /\ ~ReachedLimits(Empty)
      BY EmptyBuilding
  <2>2. (OptsTyped => Building(Empty) /\ ~ReachedLimits(Empty))'
      BY EmptyBuilding, PTL
  <2> QED BY <1>6, <1>7, <2>2
<1>9. TypesOK'
    BY <1>1, <1>3, <1>5, <1>6, <1>7, <1>8 DEF IInv, TypesOK, CopyPhases
<1>10. OptsFrom'
  <2>1. opts' = opts \/ opts' = Tuned(opts, Sizes)
      BY <1>5
  <2>2. pc' # "snapshot" /\ This' = This /\ Sizes' = Sizes
      BY <1>3, <1>5
  <2> QED BY <1>1, <2>1, <2>2 DEF OptsFrom
<1>11. todo' \subseteq TodoOf(pc')
    BY <1>1, <1>5 DEF TodoOf, IInv, Flow
<1>12. Flow'
    BY <1>3, <1>5, <1>7, <1>8, <1>10, <1>11 DEF Flow, CopyPhases, DeletePhases
<1>13. Coverage'
  <2>1. SentBy(out)' = {} /\ Held(batch)' = {}
      BY <1>7, SentEmpty, HeldEmpty DEF SentBy, Held
  <2>2. err' = "none" => PendingAt(pc', todo') = Planned
      BY <1>5, PlannedPending
  <2> QED BY <1>3, <2>1, <2>2 DEF Coverage
<1>14. LeavesFirst'
    BY <1>7 DEF LeavesFirst, ChildrenFirst
<1>15. Sent \subseteq Sent'
    BY <1>1, SentKept
<1> QED BY <1>9, <1>12, <1>13, <1>14, <1>15 DEF IInv, Onward

(* A step of a loop over copies: what it makes of the batch and of the     *)
(* tasks sent has Effect, what it takes from the operations that are left  *)
(* is new.                                                                 *)
LEMMA CopyStepInv ==
    ASSUME IInv, pc \in CopyPhases, UNCHANGED given, NEW new, NEW sent, Effect(new, sent),
           pc' \in {"done"} \cup CopyPhases \cup DeletePhases,
           todo' \subseteq TodoOf(pc'),
           err' # "none" => pc' = "done",
           err' = "none" /\ pc' \notin CopyPhases => batch' = Empty,
           new \subseteq PendingAt(pc, todo),
           err' = "none" => new \cup PendingAt(pc', todo') = PendingAt(pc, todo)
    PROVE  Onward
<1>1. /\ err = "none" /\ out \in Seq(CopyTasks) /\ UNCHANGED <<scenario, src, dst, opts>>
      /\ SentBy(out) \cup Held(batch) \cup PendingAt(pc, todo) = Planned
    BY DEF IInv, Flow, Coverage, CopyPhases, given
<1>2. /\ sent \in Seq(CopyTasks) /\ out' = out \o sent
      /\ err' \in {"none", "open", "short", "long"}
      /\ Building(batch')
      /\ SentBy(sent) \cup Held(batch') \subseteq Held(batch) \cup new
      /\ err' = "none" =>
            /\ SentBy(sent) \cup Held(batch') = Held(batch) \cup new
            /\ ~ReachedLimits(batch')
    BY DEF Effect
<1>3. out' \in Seq(CopyTasks) /\ SentBy(out') = SentBy(out) \cup SentBy(sent)
    BY <1>1, <1>2, SentConcat
<1>4. UNCHANGED <<This, SrcFiles, DstFiles, SrcDirs, DstDirs, Planned, Sizes>>
      /\ TodoOf(pc)' = TodoOf(pc') /\ PendingAt(pc, todo)' = PendingAt(pc', todo')
    BY <1>1, GivenKept
<1>5. UNCHANGED <<CopyTasks, AllTasks>>
      /\ Building(batch)' = Building(batch') /\ ReachedLimits(batch)' = ReachedLimits(batch')
      /\ OptsTyped' = OptsTyped
    BY <1>1, OptsKept
<1>6. SentBy(out)' = SentBy(out') /\ Held(batch)' = Held(batch')
    BY DEF SentBy, Held
<1>7. TypesOK'
  <2>1. out' \in Seq(AllTasks)
      BY <1>3 DEF AllTasks
  <2> QED BY <1>1, <1>2, <1>4, <1>5, <2>1 DEF IInv, TypesOK
<1>8. Flow'
  <2>1. OptsFrom'
    <3>1. pc # "snapshot" /\ pc' # "snapshot"
        BY DEF CopyPhases, DeletePhases
    <3> QED BY <1>1, <1>4, <3>1 DEF IInv, Flow, OptsFrom
  <2>2. pc' # "snapshot"
      BY DEF CopyPhases, DeletePhases
  <2>3. pc' \in DeletePhases \/ (pc' = "done" /\ err' = "none") => batch' = Empty
      BY DEF CopyPhases, DeletePhases
  <2>4. CopyPhases' = CopyPhases /\ DeletePhases' = DeletePhases
      BY DEF CopyPhases, DeletePhases
  <2> QED BY <1>2, <1>3, <1>4, <1>5, <2>1, <2>2, <2>3, <2>4 DEF Flow
<1>9. Coverage'
    BY <1>1, <1>2, <1>3, <1>4, <1>6 DEF Coverage
<1>10. LeavesFirst'
  <2>1. \A i \in DOMAIN out' : out'[i].action # "delete"
      BY <1>3, NoDeletes
  <2> QED BY <2>1 DEF LeavesFirst, ChildrenFirst
<1>11. Sent \subseteq Sent'
    BY <1>3, <1>6 DEF Sent, SentBy
<1> QED BY <1>7, <1>8, <1>9, <1>10, <1>11 DEF IInv, Onward

(* A turn of one of the three loops that call Add.                         *)
LEMMA HandleInv ==
    ASSUME IInv, pc \in CopyPhases, NEW k, k \in todo, NEW needed \in BOOLEAN, NEW c,
           NEW new, needed => c \in Copies /\ new = {OpOf(c)}, ~needed => new = {},
           new \cup PendingAt(pc, todo \ {k}) = PendingAt(pc, todo),
           Handle(k, needed, c)
    PROVE  Onward
<1>1. /\ OptsTyped /\ Building(batch) /\ out \in Seq(AllTasks) /\ err = "none"
      /\ ~ReachedLimits(batch) /\ todo \subseteq TodoOf(pc)
    BY DEF IInv, TypesOK, Flow, CopyPhases
<1>2. /\ todo' = todo \ {k} /\ UNCHANGED given
      /\ pc' = IF err' = "none" THEN pc ELSE "done"
    BY DEF Handle, Proceed
<1>3. PICK sent : Effect(new, sent)
  <2>1. CASE needed
    <3>1. PICK n \in {c.size} \cup This.changes : Add(c, n)
        BY <2>1 DEF Handle
    <3>2. n \in Nat \cup {Unreadable}
        BY <2>1, Snapshots DEF IInv, Copies
    <3>3. \E s : Effect({OpOf(c)}, s)
        BY <1>1, <2>1, <3>1, <3>2, AddWorks
    <3> QED BY <2>1, <3>3
  <2>2. CASE ~needed
    <3>1. UNCHANGED <<batch, out, err>>
        BY <2>2 DEF Handle, batcherVars
    <3>2. out' = out \o <<>>
        BY <1>1, <3>1
    <3>3. Effect(new, <<>>)
        BY <1>1, <2>2, <3>1, <3>2, SentEmpty DEF Effect
    <3> QED BY <3>3
  <2> QED BY <2>1, <2>2
<1>4. todo' \subseteq TodoOf(pc')
  <2>1. TodoOf(pc) \subseteq Keys
      BY Snapshots DEF IInv, TodoOf, IsSnapshot
  <2>2. TodoOf("done") = Keys
      BY DEF TodoOf
  <2> QED BY <1>1, <1>2, <2>1, <2>2
<1>5. /\ pc' \in {"done"} \cup CopyPhases \cup DeletePhases
      /\ err' # "none" => pc' = "done"
      /\ err' = "none" => pc' = pc
    BY <1>2
<1>6. new \subseteq PendingAt(pc, todo)
    OBVIOUS
<1>7. err' = "none" => new \cup PendingAt(pc', todo') = PendingAt(pc, todo)
    BY <1>2
<1> QED BY <1>2, <1>3, <1>4, <1>5, <1>6, <1>7, CopyStepInv

(* The loops take the least key of those that are left.                    *)
LEMMA LeastTodo == ASSUME todo \subseteq Keys, todo # {} PROVE Next1 \in todo
<1>1. todo \subseteq Nat
    BY ScanAssumption
<1>2. \E x \in todo : \A y \in todo : x <= y
    BY <1>1, NatLeast
<1> QED BY <1>2 DEF Next1

LEMMA ForwardStepInv == ASSUME IInv, ForwardStep PROVE Onward
<1> DEFINE k == Next1
           c == CopyOf("src", k, SrcFiles[k])
           new == IF NeedsCopy(k) THEN {OpOf(c)} ELSE {}
           N(t) == {j \in t : NeedsCopy(j)}
<1>1. pc = "forward" /\ todo # {} /\ Handle(k, NeedsCopy(k), c)
    BY DEF ForwardStep
<1>2. todo \subseteq DOMAIN SrcFiles /\ IsSnapshot(SrcFiles, SrcDirs)
    BY <1>1, Snapshots DEF IInv, Flow, TodoOf
<1>3. k \in todo
    BY <1>1, <1>2, LeastTodo DEF IsSnapshot
<1> HIDE DEF k
<1>4. c \in Copies /\ OpOf(c) = [from |-> "src", key |-> k]
    BY <1>2, <1>3, CopyTypes
<1> HIDE DEF c
<1>5. new \cup PendingAt(pc, todo \ {k}) = PendingAt(pc, todo)
  <2>1. \A t : PendingAt("forward", t)
                   = Ops("src", N(t)) \cup Ops("dst", Back) \cup Ops("delete", DeletePlan)
      BY DEF PendingAt
  <2>2. new = Ops("src", {j \in {k} : NeedsCopy(j)})
      BY <1>4 DEF Ops
  <2>3. N(todo) = {j \in {k} : NeedsCopy(j)} \cup N(todo \ {k})
      BY <1>3
  <2>4. Ops("src", N(todo)) = new \cup Ops("src", N(todo \ {k}))
      BY <2>2, <2>3, OpsUnion
  <2> HIDE DEF new, N
  <2> QED BY <1>1, <2>1, <2>4
<1>6. NeedsCopy(k) \in BOOLEAN /\ pc \in CopyPhases
    BY <1>1 DEF NeedsCopy, ShouldCopy, CopyPhases
<1> HIDE DEF new
<1>7. (NeedsCopy(k) => new = {OpOf(c)}) /\ (~NeedsCopy(k) => new = {})
    BY DEF new
<1> QED BY <1>1, <1>3, <1>4, <1>5, <1>6, <1>7, HandleInv

(* The end of the first loop: what the mode calls for is left.             *)
LEMMA ForwardLeaves ==
    ASSUME Mode \in {"update", "mirror", "sync"}
    PROVE  /\ Mode = "update" => PendingAt("forward", {}) = {}
           /\ Mode = "mirror" => PendingAt("forward", {})
                                     = PendingAt("deleteFiles", Extras(SrcFiles, DstFiles))
           /\ Mode = "sync" => PendingAt("forward", {}) = PendingAt("missing", DOMAIN DstFiles)
<1>1. PendingAt("forward", {}) = Ops("src", {}) \cup Ops("dst", Back) \cup Ops("delete", DeletePlan)
  <2>1. {k \in {} : NeedsCopy(k)} = {}
      OBVIOUS
  <2> QED BY <2>1 DEF PendingAt
<1>2. \A side : Ops(side, {}) = {}
    BY DEF Ops
<1>3. CASE Mode = "update"
  <2>1. Back = {} /\ DeletePlan = {}
      BY <1>3 DEF Back, DeletePlan
  <2> QED BY <1>1, <1>2, <1>3, <2>1
<1>4. CASE Mode = "mirror"
  <2>1. Back = {} /\ DeletePlan = Extras(SrcFiles, DstFiles) \cup (DstDirs \ SrcDirs)
      BY <1>4 DEF Back, DeletePlan
  <2>2. PendingAt("deleteFiles", Extras(SrcFiles, DstFiles))
            = Ops("delete", Extras(SrcFiles, DstFiles) \cup (DstDirs \ SrcDirs))
      BY DEF PendingAt
  <2> QED BY <1>1, <1>2, <1>4, <2>1, <2>2
<1>5. CASE Mode = "sync"
  <2>1. Back = (DOMAIN DstFiles \ DOMAIN SrcFiles) \cup Newer(SrcFiles, DstFiles)
        /\ DeletePlan = {}
      BY <1>5 DEF Back, DeletePlan, Extras
  <2>2. PendingAt("missing", DOMAIN DstFiles)
            = Ops("dst", (DOMAIN DstFiles \ DOMAIN SrcFiles) \cup Newer(SrcFiles, DstFiles))
      BY DEF PendingAt
  <2> QED BY <1>1, <1>2, <1>5, <2>1, <2>2
<1> QED BY <1>3, <1>4, <1>5

LEMMA ForwardEndInv == ASSUME IInv, ForwardEnd PROVE Onward
<1>1. /\ pc = "forward" /\ todo = {} /\ Flush /\ UNCHANGED given
      /\ err' # "none" => pc' = "done" /\ todo' = {}
      /\ err' = "none" =>
            CASE Mode = "update" -> pc' = "done" /\ UNCHANGED todo
              [] Mode = "mirror" -> /\ pc' = "deleteFiles"
                                    /\ todo' = Extras(SrcFiles, DstFiles)
              [] Mode = "sync"   -> /\ pc' = "missing"
                                    /\ todo' = DOMAIN DstFiles
    BY DEF ForwardEnd
<1>2. OptsTyped /\ Building(batch) /\ err = "none" /\ out \in Seq(AllTasks)
    BY <1>1 DEF IInv, TypesOK, Flow
<1>3. PICK sent : Effect({}, sent) /\ (err' = "none" => batch' = Empty)
    BY <1>1, <1>2, FlushWorks
<1>4. Mode \in {"update", "mirror", "sync"}
    BY Snapshots DEF IInv
<1>5. CASE err' # "none"
  <2>1. pc' = "done" /\ todo' \subseteq TodoOf(pc')
      BY <1>1, <1>5
  <2>2. pc \in CopyPhases
      BY <1>1 DEF CopyPhases
  <2> QED BY <1>1, <1>3, <1>5, <2>1, <2>2, CopyStepInv
<1>6. CASE err' = "none"
  <2>1. PendingAt("done", {}) = {}
      BY DEF PendingAt
  <2>2. PendingAt(pc', todo') = PendingAt("forward", {})
      BY <1>1, <1>4, <1>6, <2>1, ForwardLeaves
  <2>3. PendingAt(pc, todo) = PendingAt("forward", {})
      BY <1>1
  <2>4. pc' \in {"done"} \cup CopyPhases \cup DeletePhases /\ todo' \subseteq TodoOf(pc')
      BY <1>1, <1>4, <1>6 DEF CopyPhases, DeletePhases, TodoOf, Extras
  <2>5. pc \in CopyPhases
      BY <1>1 DEF CopyPhases
  <2> QED BY <1>1, <1>3, <1>6, <2>2, <2>3, <2>4, <2>5, CopyStepInv
<1> QED BY <1>5, <1>6

LEMMA MissingStepInv == ASSUME IInv, MissingStep PROVE Onward
<1> DEFINE k == Next1
           c == CopyOf("dst", k, DstFiles[k])
           needed == k \notin DOMAIN SrcFiles
           new == IF needed THEN {OpOf(c)} ELSE {}
           W == Newer(SrcFiles, DstFiles)
<1>1. pc = "missing" /\ todo # {} /\ Handle(k, needed, c)
    BY DEF MissingStep
<1>2. todo \subseteq DOMAIN DstFiles /\ IsSnapshot(DstFiles, DstDirs)
    BY <1>1, Snapshots DEF IInv, Flow, TodoOf
<1>3. k \in todo
    BY <1>1, <1>2, LeastTodo DEF IsSnapshot
<1> HIDE DEF k
<1>4. c \in Copies /\ OpOf(c) = [from |-> "dst", key |-> k]
    BY <1>2, <1>3, CopyTypes
<1> HIDE DEF c
<1>5. new \cup PendingAt(pc, todo \ {k}) = PendingAt(pc, todo)
  <2>1. \A t : PendingAt("missing", t) = Ops("dst", (t \ DOMAIN SrcFiles) \cup W)
      BY DEF PendingAt
  <2>2. new = Ops("dst", {k} \ DOMAIN SrcFiles)
      BY <1>4 DEF Ops
  <2>3. (todo \ DOMAIN SrcFiles) \cup W
            = ({k} \ DOMAIN SrcFiles) \cup (((todo \ {k}) \ DOMAIN SrcFiles) \cup W)
      BY <1>3
  <2>4. Ops("dst", (todo \ DOMAIN SrcFiles) \cup W)
            = new \cup Ops("dst", ((todo \ {k}) \ DOMAIN SrcFiles) \cup W)
      BY <2>2, <2>3, OpsUnion
  <2> HIDE DEF new, W
  <2> QED BY <1>1, <2>1, <2>4
<1>6. needed \in BOOLEAN /\ pc \in CopyPhases
    BY <1>1 DEF CopyPhases
<1> HIDE DEF new
<1>7. (needed => new = {OpOf(c)}) /\ (~needed => new = {})
    BY DEF new
<1> HIDE DEF needed
<1> QED BY <1>1, <1>3, <1>4, <1>5, <1>6, <1>7, HandleInv

LEMMA NewerStepInv == ASSUME IInv, NewerStep PROVE Onward
<1> DEFINE k == Next1
           common == k \in DOMAIN DstFiles
           c == IF common THEN CopyOf("dst", k, DstFiles[k]) ELSE {}
           W == Newer(SrcFiles, DstFiles)
           needed == common /\ DstFiles[k].mtime > SrcFiles[k].mtime
           new == IF needed THEN {OpOf(c)} ELSE {}
<1>1. pc = "newer" /\ todo # {} /\ Handle(k, needed, c)
    BY DEF NewerStep
<1>2. todo \subseteq DOMAIN SrcFiles /\ IsSnapshot(DstFiles, DstDirs)
      /\ IsSnapshot(SrcFiles, SrcDirs)
    BY <1>1, Snapshots DEF IInv, Flow, TodoOf
<1>3. k \in todo
    BY <1>1, <1>2, LeastTodo DEF IsSnapshot
<1>4. needed <=> k \in W
    BY <1>2, <1>3 DEF Newer
<1> HIDE DEF k
<1>5. needed => c \in Copies /\ OpOf(c) = [from |-> "dst", key |-> k]
    BY <1>2, CopyTypes
<1>6. needed \in BOOLEAN /\ pc \in CopyPhases
    BY <1>1 DEF CopyPhases
<1> HIDE DEF c, needed
<1>7. new \cup PendingAt(pc, todo \ {k}) = PendingAt(pc, todo)
  <2>1. \A t : PendingAt("newer", t) = Ops("dst", t \cap W)
      BY DEF PendingAt
  <2>2. new = Ops("dst", {k} \cap W)
      BY <1>4, <1>5 DEF Ops
  <2>3. todo \cap W = ({k} \cap W) \cup ((todo \ {k}) \cap W)
      BY <1>3
  <2>4. Ops("dst", todo \cap W) = new \cup Ops("dst", (todo \ {k}) \cap W)
      BY <2>2, <2>3, OpsUnion
  <2> HIDE DEF new, W
  <2> QED BY <1>1, <2>1, <2>4
<1> HIDE DEF new
<1>8. (needed => new = {OpOf(c)}) /\ (~needed => new = {})
    BY DEF new
<1> QED BY <1>1, <1>3, <1>5, <1>6, <1>7, <1>8, HandleInv

LEMMA MissingEndInv == ASSUME IInv, MissingEnd PROVE Onward
<1>1. /\ pc = "missing" /\ todo = {} /\ pc' = "newer" /\ todo' = DOMAIN SrcFiles
      /\ UNCHANGED given /\ UNCHANGED <<batch, out, err>>
    BY DEF MissingEnd, batcherVars
<1>2. /\ Building(batch) /\ out \in Seq(AllTasks) /\ err = "none" /\ ~ReachedLimits(batch)
    BY <1>1 DEF IInv, TypesOK, Flow
<1>3. Effect({}, <<>>)
  <2>1. out' = out \o <<>>
      BY <1>1, <1>2
  <2> QED BY <1>1, <1>2, <2>1, SentEmpty DEF Effect
<1>4. PendingAt("newer", DOMAIN SrcFiles) = PendingAt("missing", {})
  <2>1. DOMAIN SrcFiles \cap Newer(SrcFiles, DstFiles)
            = ({} \ DOMAIN SrcFiles) \cup Newer(SrcFiles, DstFiles)
      BY DEF Newer
  <2> QED BY <2>1 DEF PendingAt
<1>5. pc \in CopyPhases /\ pc' \in CopyPhases /\ todo' \subseteq TodoOf(pc')
    BY <1>1 DEF CopyPhases, TodoOf
<1>6. err' = "none" /\ PendingAt(pc', todo') = PendingAt(pc, todo)
    BY <1>1, <1>2, <1>4
<1> QED BY <1>1, <1>3, <1>5, <1>6, CopyStepInv

LEMMA NewerEndInv == ASSUME IInv, NewerEnd PROVE Onward
<1>1. /\ pc = "newer" /\ todo = {} /\ Flush /\ pc' = "done" /\ todo' = {} /\ UNCHANGED given
    BY DEF NewerEnd
<1>2. OptsTyped /\ Building(batch) /\ err = "none" /\ out \in Seq(AllTasks)
    BY <1>1 DEF IInv, TypesOK, Flow
<1>3. PICK sent : Effect({}, sent) /\ (err' = "none" => batch' = Empty)
    BY <1>1, <1>2, FlushWorks
<1>4. PendingAt("newer", {}) = {} /\ PendingAt("done", {}) = {}
    BY DEF PendingAt, Ops
<1>5. pc \in CopyPhases /\ todo' \subseteq TodoOf(pc') /\ PendingAt(pc', todo') = PendingAt(pc, todo)
    BY <1>1, <1>4 DEF CopyPhases
<1> QED BY <1>1, <1>3, <1>5, CopyStepInv

(* A delete, of something that has nothing below it that is still to be    *)
(* deleted.                                                                *)
LEMMA DeleteStepInv ==
    ASSUME IInv, pc \in DeletePhases, NEW k, k \in todo,
           \A j \in PendingDeletes : j \notin Below[k],
           out' = Append(out, DeleteTask(k)), todo' = todo \ {k},
           UNCHANGED given, UNCHANGED <<pc, batch, err>>
    PROVE  Onward
<1> DEFINE t == DeleteTask(k)
           one == <<t>>
<1>1. /\ err = "none" /\ out \in Seq(AllTasks) /\ UNCHANGED <<scenario, src, dst, opts>>
      /\ SentBy(out) \cup Held(batch) \cup PendingAt(pc, todo) = Planned
      /\ todo \subseteq TodoOf(pc) /\ batch = Empty
    BY DEF IInv, TypesOK, Flow, Coverage, DeletePhases, given
<1>2. k \in Keys
  <2>1. TodoOf(pc) \subseteq Keys
      BY Snapshots DEF IInv, TodoOf, IsSnapshot
  <2> QED BY <1>1, <2>1
<1>3. t \in AllTasks /\ t.action = "delete" /\ t.key = k
    BY <1>2 DEF AllTasks, DeleteTasks, DeleteTask
<1>4. OpsOf(t) = Ops("delete", {k})
    BY <1>3 DEF OpsOf
<1> HIDE DEF t
<1>5. one \in Seq(AllTasks) /\ SentBy(one) = Ops("delete", {k})
    BY <1>3, <1>4, SentSingle
<1>6. out' = out \o one
    BY <1>1, <1>3 DEF t
<1> HIDE DEF one
<1>7. out' \in Seq(AllTasks) /\ SentBy(out') = SentBy(out) \cup Ops("delete", {k})
    BY <1>1, <1>5, <1>6, SentConcat
<1>8. UNCHANGED <<This, SrcFiles, DstFiles, SrcDirs, DstDirs, Planned, Sizes>>
      /\ TodoOf(pc)' = TodoOf(pc') /\ PendingAt(pc, todo)' = PendingAt(pc', todo')
    BY <1>1, GivenKept
<1>9. UNCHANGED <<CopyTasks, AllTasks>>
      /\ Building(batch)' = Building(batch') /\ ReachedLimits(batch)' = ReachedLimits(batch')
      /\ OptsTyped' = OptsTyped
    BY <1>1, OptsKept
<1>10. TypesOK'
    BY <1>1, <1>7, <1>8, <1>9 DEF IInv, TypesOK
<1>11. Flow'
  <2>1. OptsFrom'
      BY <1>1, <1>8 DEF IInv, Flow, OptsFrom
  <2>2. pc # "snapshot" /\ pc # "done" /\ pc \notin CopyPhases
      BY DEF CopyPhases, DeletePhases
  <2>3. CopyPhases' = CopyPhases /\ DeletePhases' = DeletePhases
      BY DEF CopyPhases, DeletePhases
  <2>4. ~ReachedLimits(batch)'
      BY <1>1, <1>9 DEF IInv, Flow
  <2>5. todo' \subseteq TodoOf(pc')
      BY <1>1
  <2> QED BY <1>1, <1>8, <2>1, <2>2, <2>3, <2>4, <2>5 DEF Flow
<1>12. PendingAt(pc, todo) = Ops("delete", {k}) \cup PendingAt(pc, todo \ {k})
  <2>1. CASE pc = "deleteFiles"
    <3>1. \A s : PendingAt(pc, s) = Ops("delete", s \cup (DstDirs \ SrcDirs))
        BY <2>1 DEF PendingAt
    <3> DEFINE rest == (todo \ {k}) \cup (DstDirs \ SrcDirs)
    <3>2. {k} \cup rest = todo \cup (DstDirs \ SrcDirs)
        OBVIOUS
    <3>3. PendingAt(pc, todo \ {k}) = Ops("delete", rest)
        BY <3>1
    <3> HIDE DEF rest
    <3>4. Ops("delete", {k} \cup rest) = Ops("delete", {k}) \cup Ops("delete", rest)
        BY OpsUnion
    <3> QED BY <3>1, <3>2, <3>3, <3>4
  <2>2. CASE pc = "deleteDirs"
    <3>1. \A s : PendingAt(pc, s) = Ops("delete", s)
        BY <2>2 DEF PendingAt
    <3>2. {k} \cup (todo \ {k}) = todo
      <4>1. \A j : j \in {k} \cup (todo \ {k}) <=> j \in todo
          OBVIOUS
      <4> QED BY <4>1
    <3>3. Ops("delete", {k} \cup (todo \ {k})) = Ops("delete", {k}) \cup Ops("delete", todo \ {k})
        BY OpsUnion
    <3> QED BY <3>1, <3>2, <3>3
  <2> QED BY <2>1, <2>2 DEF DeletePhases
<1>13. Coverage'
  <2>1. SentBy(out)' = SentBy(out') /\ Held(batch)' = Held(batch)
      BY DEF SentBy, Held
  <2>2. Ops("delete", {k}) \subseteq Planned
      BY <1>1, <1>12
  <2>3. SentBy(out) \cup Held(batch) \subseteq Planned
      BY DEF IInv, Coverage
  <2> QED BY <1>1, <1>7, <1>8, <1>12, <2>1, <2>2, <2>3 DEF Coverage
<1>14. LeavesFirst'
  <2> DEFINE n == Len(out)
  <2>1. n \in Nat /\ DOMAIN out = 1..n /\ DOMAIN out' = 1..(n + 1)
      BY <1>1
  <2>2. (\A i \in 1..n : out'[i] = out[i]) /\ out'[n + 1] = t
      BY <1>1 DEF t
  <2> HIDE DEF n
  <2>3. \A i \in DOMAIN out' : (i \in 1..n /\ i \in DOMAIN out) \/ i = n + 1
      BY <2>1
  <2>4. PendingDeletes' \subseteq PendingDeletes /\ k \in PendingDeletes
      BY <1>8 DEF PendingDeletes, DeletePhases
  <2>5. ASSUME NEW i \in DOMAIN out', out'[i].action = "delete", NEW j \in PendingDeletes
        PROVE  j \notin Below[out'[i].key]
    <3>1. CASE i = n + 1
        BY <1>3, <2>2, <3>1
    <3>2. CASE i \in 1..n
        BY <2>1, <2>2, <2>5, <3>2 DEF IInv, LeavesFirst
    <3> QED BY <2>3, <3>1, <3>2
  <2>6. ASSUME NEW i \in DOMAIN out', NEW j \in DOMAIN out', i < j,
               out'[i].action = "delete", out'[j].action = "delete"
        PROVE  out'[j].key \notin Below[out'[i].key]
    <3>1. CASE j = n + 1
      <4>1. out'[j].key = k
          BY <1>3, <2>2, <3>1
      <4> QED BY <2>4, <2>5, <2>6, <4>1
    <3>2. CASE j \in 1..n
      <4>1. i \in 1..n
          BY <2>1, <2>6, <3>2
      <4>2. i \in DOMAIN out /\ j \in DOMAIN out /\ out'[i] = out[i] /\ out'[j] = out[j]
          BY <2>1, <2>2, <3>2, <4>1
      <4> QED BY <2>6, <4>2 DEF IInv, LeavesFirst, ChildrenFirst
    <3> QED BY <2>3, <3>1, <3>2
  <2>7. ChildrenFirst'
      BY <2>6 DEF ChildrenFirst
  <2> QED BY <2>4, <2>5, <2>7 DEF LeavesFirst
<1>15. Sent \subseteq Sent'
    BY <1>7 DEF Sent, SentBy
<1> QED BY <1>10, <1>11, <1>13, <1>14, <1>15 DEF IInv, Onward

(* Nothing is below a file.                                                *)
LEMMA DeleteFileInv == ASSUME IInv, DeleteFile PROVE Onward
<1>1. PICK k \in todo : out' = Append(out, DeleteTask(k)) /\ todo' = todo \ {k}
    BY DEF DeleteFile
<1>2. pc = "deleteFiles" /\ UNCHANGED given /\ UNCHANGED <<pc, batch, err>>
    BY DEF DeleteFile
<1>3. todo \subseteq DOMAIN DstFiles /\ IsSnapshot(DstFiles, DstDirs)
    BY <1>2, Snapshots DEF IInv, Flow, TodoOf
<1>4. Below[k] \cap (DstDirs \cup DOMAIN DstFiles) = {}
    BY <1>3 DEF IsSnapshot
<1>5. PendingDeletes \subseteq DstDirs \cup DOMAIN DstFiles
    BY <1>2, <1>3 DEF PendingDeletes
<1>6. \A j \in PendingDeletes : j \notin Below[k]
    BY <1>4, <1>5
<1>7. pc \in DeletePhases
    BY <1>2 DEF DeletePhases
<1> QED BY <1>1, <1>2, <1>6, <1>7, DeleteStepInv

(* Nothing that is left is below one of the longest paths.                 *)
LEMMA DeleteDirInv == ASSUME IInv, DeleteDir PROVE Onward
<1>1. PICK k \in Longest : out' = Append(out, DeleteTask(k)) /\ todo' = todo \ {k}
    BY DEF DeleteDir
<1>2. pc = "deleteDirs" /\ UNCHANGED given /\ UNCHANGED <<pc, batch, err>>
    BY DEF DeleteDir
<1>3. todo \subseteq Keys /\ k \in todo /\ \A j \in todo : KeyLen[j] <= KeyLen[k]
    BY <1>1, <1>2, Snapshots DEF IInv, Flow, TodoOf, IsSnapshot, Longest
<1>4. ASSUME NEW j \in PendingDeletes PROVE j \notin Below[k]
  <2>1. j \in todo
      BY <1>2 DEF PendingDeletes
  <2>2. KeyLen[j] \in Nat /\ KeyLen[k] \in Nat /\ KeyLen[j] <= KeyLen[k] /\ k \in Keys
      BY <1>3, <2>1, ScanAssumption
  <2>3. j \in Below[k] => KeyLen[k] < KeyLen[j]
      BY <2>2, ScanAssumption
  <2> QED BY <2>2, <2>3
<1>5. pc \in DeletePhases
    BY <1>2 DEF DeletePhases
<1> QED BY <1>1, <1>2, <1>3, <1>4, <1>5, DeleteStepInv

(* The end of a loop over deletes.                                         *)
LEMMA DeleteEndInv ==
    ASSUME IInv, pc \in DeletePhases, UNCHANGED given, UNCHANGED <<batch, out, err>>,
           pc' \in {"deleteDirs", "done"}, todo' \subseteq TodoOf(pc'),
           PendingAt(pc', todo') = PendingAt(pc, todo), PendingDeletes' \subseteq PendingDeletes
    PROVE  Onward
<1>1. /\ err = "none" /\ UNCHANGED <<scenario, src, dst, opts>> /\ batch = Empty
    BY DEF IInv, Flow, DeletePhases, given
<1>2. UNCHANGED <<This, SrcFiles, DstFiles, SrcDirs, DstDirs, Planned, Sizes>>
      /\ TodoOf(pc)' = TodoOf(pc') /\ PendingAt(pc, todo)' = PendingAt(pc', todo')
    BY <1>1, GivenKept
<1>3. UNCHANGED <<CopyTasks, AllTasks>>
      /\ Building(batch)' = Building(batch') /\ ReachedLimits(batch)' = ReachedLimits(batch')
      /\ OptsTyped' = OptsTyped
    BY <1>1, OptsKept
<1>4. TypesOK'
    BY <1>1, <1>2, <1>3 DEF IInv, TypesOK, DeletePhases
<1>5. Flow'
  <2>1. OptsFrom'
      BY <1>1, <1>2 DEF IInv, Flow, OptsFrom, DeletePhases
  <2>2. pc' # "snapshot" /\ pc' \notin CopyPhases' /\ CopyPhases' = CopyPhases
      BY DEF CopyPhases
  <2>3. ~ReachedLimits(batch)'
      BY <1>1, <1>3 DEF IInv, Flow
  <2> QED BY <1>1, <1>2, <2>1, <2>2, <2>3 DEF Flow
<1>6. Coverage'
  <2>1. SentBy(out)' = SentBy(out) /\ Held(batch)' = Held(batch)
      BY DEF SentBy, Held
  <2> QED BY <1>2, <2>1 DEF IInv, Coverage
<1>7. LeavesFirst'
    BY DEF IInv, LeavesFirst, ChildrenFirst
<1>8. Sent \subseteq Sent'
    BY SentKept
<1> QED BY <1>4, <1>5, <1>6, <1>7, <1>8 DEF IInv, Onward

LEMMA DeleteFilesEndInv == ASSUME IInv, DeleteFilesEnd PROVE Onward
<1>1. /\ pc = "deleteFiles" /\ todo = {} /\ pc' = "deleteDirs" /\ todo' = DstDirs \ SrcDirs
      /\ UNCHANGED given /\ UNCHANGED <<batch, out, err>>
    BY DEF DeleteFilesEnd, batcherVars
<1>2. PendingAt(pc', todo') = PendingAt(pc, todo)
  <2>1. {} \cup (DstDirs \ SrcDirs) = DstDirs \ SrcDirs
      OBVIOUS
  <2> QED BY <1>1, <2>1 DEF PendingAt
<1>3. PendingDeletes' \subseteq PendingDeletes
    BY <1>1 DEF PendingDeletes
<1>4. todo' \subseteq TodoOf(pc') /\ pc \in DeletePhases
    BY <1>1 DEF TodoOf, DeletePhases
<1> QED BY <1>1, <1>2, <1>3, <1>4, DeleteEndInv

LEMMA DeleteDirsEndInv == ASSUME IInv, DeleteDirsEnd PROVE Onward
<1>1. /\ pc = "deleteDirs" /\ todo = {} /\ pc' = "done" /\ todo' = {}
      /\ UNCHANGED given /\ UNCHANGED <<batch, out, err>>
    BY DEF DeleteDirsEnd, batcherVars
<1>2. PendingAt("done", {}) = {} /\ PendingAt("deleteDirs", {}) = {}
    BY DEF PendingAt, Ops
<1>3. PendingDeletes' \subseteq PendingDeletes
    BY <1>1 DEF PendingDeletes
<1>4. pc \in DeletePhases
    BY <1>1 DEF DeletePhases
<1> QED BY <1>1, <1>2, <1>3, <1>4, DeleteEndInv

LEMMA StutterInv == ASSUME IInv, UNCHANGED scanVars PROVE Onward
<1>1. UNCHANGED <<scenario, src, dst, opts, pc, todo, batch, out, err>>
    BY DEF scanVars, given, batcherVars
<1>2. UNCHANGED <<This, SrcFiles, DstFiles, SrcDirs, DstDirs, Planned, Sizes>>
      /\ TodoOf(pc)' = TodoOf(pc') /\ PendingAt(pc, todo)' = PendingAt(pc', todo')
    BY <1>1, GivenKept
<1>3. UNCHANGED <<CopyTasks, AllTasks>>
      /\ Building(batch)' = Building(batch') /\ ReachedLimits(batch)' = ReachedLimits(batch')
      /\ OptsTyped' = OptsTyped
    BY <1>1, OptsKept
<1>4. TypesOK'
    BY <1>1, <1>2, <1>3 DEF IInv, TypesOK
<1>5. Flow'
  <2>1. OptsFrom'
      BY <1>1, <1>2 DEF IInv, Flow, OptsFrom
  <2>2. err = "none" => ~ReachedLimits(batch)'
      BY <1>1, <1>3 DEF IInv, Flow
  <2> QED BY <1>1, <1>2, <1>3, <2>1, <2>2 DEF IInv, Flow, CopyPhases, DeletePhases
<1>6. Coverage'
  <2>1. SentBy(out)' = SentBy(out) /\ Held(batch)' = Held(batch)
      BY <1>1 DEF SentBy, Held
  <2> QED BY <1>1, <1>2, <2>1 DEF IInv, Coverage
<1>7. LeavesFirst'
    BY <1>1, <1>2 DEF IInv, LeavesFirst, ChildrenFirst, PendingDeletes
<1>8. Sent \subseteq Sent'
    BY <1>1, SentKept
<1> QED BY <1>4, <1>5, <1>6, <1>7, <1>8 DEF IInv, Onward

LEMMA Steps == ASSUME IInv, [Next]_scanVars PROVE Onward
BY SnapshotInv, ForwardStepInv, ForwardEndInv, DeleteFileInv, DeleteFilesEndInv, DeleteDirInv,
   DeleteDirsEndInv, MissingStepInv, MissingEndInv, NewerStepInv, NewerEndInv, StutterInv
   DEF Next

(* The inductive invariant holds in every behaviour of Scan. *)
THEOREM IInvariance == Spec => []IInv
<1>1. IInv /\ [Next]_scanVars => IInv'
    BY Steps DEF Onward
<1> QED BY <1>1, InitInv, PTL DEF Spec

-----------------------------------------------------------------------------
(* The theorems.                                                           *)

(* Every reachable state has its types, and the entries, the members and   *)
(* the byte count of the batch that is built agree.                        *)
THEOREM TypeCorrectness == Spec => []TypeOK
<1>1. ASSUME IInv PROVE TypeOK
  <2>1. Building(batch) /\ batch \in Batch0
      BY <1>1 DEF IInv, TypesOK, Building
  <2>2. TodoOf(pc) \subseteq Keys
      BY <1>1, Snapshots DEF IInv, TodoOf, IsSnapshot
  <2>3. todo \subseteq Keys
      BY <1>1, <2>2 DEF IInv, Flow
  <2>4. /\ batch.entries \in Seq(Copies) /\ Len(batch.members) = Len(batch.entries)
        /\ batch.totalBytes = Total(batch.entries)
        /\ batch.entries # <<>> => batch.open
      BY <2>1 DEF Building, Batch0
  <2>5. pc \in {"snapshot", "forward", "deleteFiles", "deleteDirs", "missing", "newer", "done"}
      BY <1>1 DEF IInv, TypesOK, CopyPhases, DeletePhases
  <2>6. err \in {"none", "snapshot", "open", "short", "long"}
      BY <1>1 DEF IInv, TypesOK
  <2> QED BY <2>3, <2>4, <2>5, <2>6 DEF TypeOK
<1> QED BY <1>1, IInvariance, PTL

(* A batch that was sent is one that was complete.                         *)
LEMMA BatchesComplete ==
    ASSUME IInv, NEW t \in Batches
    PROVE  \E b \in Batch0 : Complete(b) /\ t.copies = b.entries /\ t.members = b.members
<1>1. t \in AllTasks /\ t.action = "copyBatch"
  <2>1. out \in Seq(AllTasks)
      BY DEF IInv, TypesOK
  <2>2. \A i \in DOMAIN out : out[i] \in AllTasks
      BY <2>1
  <2> QED BY <2>2 DEF Batches, IsBatch
<1>2. PICK b \in Batch0 : Complete(b) /\ t = BatchTask(b)
  <2>1. \A c \in Copies : CopyTask(c).action = "copy"
      BY DEF CopyTask
  <2>2. \A k \in Keys : DeleteTask(k).action = "delete"
      BY DEF DeleteTask
  <2> QED BY <1>1, <2>1, <2>2 DEF AllTasks, CopyTasks, DeleteTasks
<1> QED BY <1>2 DEF BatchTask

(* An archive that is sent has one member per entry, and each member holds *)
(* what its header promises, whatever happens to the files meanwhile: of   *)
(* the members of a batch only the last can be short, and Flush checks it. *)
THEOREM ArchivesAreWhole == Spec => []ArchivesWhole
<1>1. ASSUME IInv PROVE ArchivesWhole
  <2>1. SUFFICES ASSUME NEW t \in Batches
                 PROVE  /\ Len(t.members) = Len(t.copies)
                        /\ \A i \in DOMAIN t.members :
                              t.members[i].written = t.members[i].size
      BY DEF ArchivesWhole
  <2>2. PICK b \in Batch0 : Complete(b) /\ t.copies = b.entries /\ t.members = b.members
      BY <1>1, BatchesComplete
  <2> DEFINE m == b.members
             n == Len(m)
  <2>3. m \in Seq(Members) /\ n = Len(b.entries) /\ WholeBut(m) /\ ~LastShort(b)
        /\ b.entries # <<>> /\ b.entries \in Seq(Copies)
      BY <2>2 DEF Complete, Building, Batch0
  <2>4. DOMAIN m = 1..n /\ n \in Nat /\ n > 0 /\ m # <<>>
      BY <2>3
  <2>5. ASSUME NEW i \in 1..n PROVE m[i].written = m[i].size
    <3>1. m[i] \in Members
        BY <2>3, <2>4
    <3>2. m[i].written \in Nat /\ m[i].size \in Nat
        BY <3>1 DEF Members
    <3>3. CASE i = n
      <4>1. ~(m[i].written < m[i].size)
          BY <2>3, <2>4, <3>3 DEF LastShort
      <4>2. m[i].written <= m[i].size
          BY <2>3 DEF WholeBut
      <4> QED BY <3>2, <4>1, <4>2
    <3>4. CASE i # n
      <4>1. i < n
          BY <2>4, <3>4
      <4> QED BY <2>3, <4>1 DEF WholeBut
    <3> QED BY <3>3, <3>4
  <2> QED BY <2>2, <2>3, <2>4, <2>5
<1> QED BY <1>1, IInvariance, PTL

(* Batches are within all limits that are set, where only a file that is   *)
(* larger than BatchMaxBytes may be alone in one; and no batch that has    *)
(* reached a limit is kept back.                                           *)
THEOREM BatchesAreBounded == Spec => []BatchesBounded
<1>1. ASSUME IInv PROVE BatchesBounded
  <2>1. err = "none" => ~ReachedLimits(batch)
      BY <1>1 DEF IInv, Flow
  <2>2. ASSUME NEW t \in Batches
        PROVE  /\ Len(t.copies) > 0
               /\ opts.maxFiles > 0 => Len(t.copies) <= opts.maxFiles
               /\ opts.maxBytes > 0 => Total(t.copies) <= opts.maxBytes \/ Len(t.copies) = 1
               /\ \A i \in DOMAIN t.copies : t.copies[i].size <= opts.threshold
    <3>1. PICK b \in Batch0 : Complete(b) /\ t.copies = b.entries /\ t.members = b.members
        BY <1>1, BatchesComplete
    <3> DEFINE e == b.entries
    <3>2. /\ e \in Seq(Copies) /\ e # <<>> /\ b.totalBytes = Total(e)
          /\ \A i \in 1..Len(e) : e[i].size <= opts.threshold
          /\ opts.maxFiles > 0 => Len(e) <= opts.maxFiles
          /\ opts.maxBytes > 0 => b.totalBytes <= opts.maxBytes \/ Len(e) <= 1
        BY <3>1 DEF Complete, Building, Batch0
    <3>3. Len(e) \in Nat /\ Len(e) > 0 /\ DOMAIN e = 1..Len(e)
        BY <3>2
    <3>4. t.copies = e
        BY <3>1
    <3> HIDE DEF e
    <3>5. opts.maxBytes > 0 => Total(e) <= opts.maxBytes \/ Len(e) = 1
      <4>1. Len(e) <= 1 => Len(e) = 1
          BY <3>3
      <4> QED BY <3>2, <4>1
    <3>6. /\ Len(e) > 0
          /\ opts.maxFiles > 0 => Len(e) <= opts.maxFiles
          /\ \A i \in DOMAIN e : e[i].size <= opts.threshold
        BY <3>2, <3>3
    <3> QED BY <3>4, <3>5, <3>6
  <2> QED BY <2>1, <2>2 DEF BatchesBounded
<1> QED BY <1>1, IInvariance, PTL

(* Limits that are not among those given were computed from the sizes.     *)
LEMMA TunedOpts ==
    ASSUME IInv, IsTuned
    PROVE  \E o \in Options : AreSizes(Sizes) /\ opts = Tuned(o, Sizes) /\ Tuned(o, Sizes) # o
<1>1. PICK o \in This.opts : opts = Tuned(o, Sizes)
    BY DEF IInv, Flow, OptsFrom, IsTuned
<1>2. o \in Options /\ AreSizes(Sizes)
    BY SizesTyped, Snapshots DEF IInv
<1>3. opts # o
    BY <1>1 DEF IsTuned
<1> QED BY <1>1, <1>2, <1>3

(* Limits that were tuned never contradict each other, whatever the sizes. *)
THEOREM TunedLimitsAgree == Spec => []LimitsAgree
<1>1. ASSUME IInv PROVE LimitsAgree
  <2>1. SUFFICES ASSUME IsTuned PROVE GoodLimits(opts, Sizes)
      BY DEF LimitsAgree, GoodLimits
  <2>2. PICK o \in Options : AreSizes(Sizes) /\ opts = Tuned(o, Sizes) /\ Tuned(o, Sizes) # o
      BY <1>1, <2>1, TunedOpts
  <2> QED BY <2>2, TunedLimits
<1> QED BY <1>1, IInvariance, PTL

(* At least nine in ten of the small files are batched, whatever the order *)
(* in which the map gave them: the threshold is not below the ninth        *)
(* decile of the sorted sizes.                                             *)
THEOREM MostAreBatched == Spec => []MostSmallFilesBatched
<1>1. ASSUME IInv PROVE MostSmallFilesBatched
  <2>1. SUFFICES ASSUME IsTuned
                 PROVE  10 * Cardinality({i \in SmallOnes(Sizes) : Sizes[i] <= opts.threshold})
                            >= 9 * Cardinality(SmallOnes(Sizes))
      BY DEF MostSmallFilesBatched, SmallOnes
  <2>2. PICK o \in Options : AreSizes(Sizes) /\ opts = Tuned(o, Sizes) /\ Tuned(o, Sizes) # o
      BY <1>1, <2>1, TunedOpts
  <2> QED BY <2>2, TunedThreshold
<1> QED BY <1>1, IInvariance, PTL

(* No directory is deleted before what is below it.                        *)
THEOREM ChildrenGoFirst == Spec => []ChildrenFirst
<1>1. IInv => ChildrenFirst
    BY DEF IInv, LeavesFirst
<1> QED BY <1>1, IInvariance, PTL

(* What Scan starts from does not change, and it does nothing after its end. *)
LEMMA StepKeepsGiven == ASSUME Next PROVE pc # "done" /\ UNCHANGED <<scenario, src, dst>>
BY DEF Next, Snapshot, ForwardStep, ForwardEnd, DeleteFile, DeleteFilesEnd, DeleteDir,
       DeleteDirsEnd, MissingStep, MissingEnd, NewerStep, NewerEnd, Handle, Proceed, given

(* When Scan has ended without an error, all of the plan has been sent.    *)
LEMMA SuccessIsComplete ==
    ASSUME IInv
    PROVE  Sent \subseteq Planned /\ (pc = "done" /\ err = "none" => Sent = Planned)
<1>1. SentBy(out) \subseteq Planned
    BY DEF IInv, Coverage
<1>2. ASSUME pc = "done", err = "none" PROVE SentBy(out) = Planned
  <2>1. PendingAt(pc, todo) = {}
      BY <1>2 DEF PendingAt
  <2>2. Held(batch) = {}
      BY <1>2, HeldEmpty DEF IInv, Flow
  <2> QED BY <1>2, <2>1, <2>2 DEF IInv, Coverage
<1> QED BY <1>1, <1>2, SentIsSentBy

(* Scan keeps what the commands rely on: it sends work of its plan, takes  *)
(* nothing back, and ends without an error only when all of the plan has   *)
(* been sent.                                                              *)
THEOREM KeepsContract == Spec => ImplementsContract
<1> DEFINE result == IF pc # "done" THEN "none"
                     ELSE IF err = "none" THEN "ok" ELSE "failed"
<1>1. ScanInit => Contract!Init
  <2>1. ASSUME ScanInit PROVE Sent = {} /\ pc = "snapshot"
    <3>1. out = <<>> /\ pc = "snapshot"
        BY <2>1 DEF ScanInit, BatcherInit
    <3> QED BY <3>1, SentEmpty, SentIsSentBy
  <2> QED BY <2>1 DEF Contract!Init
<1>2. IInv /\ IInv' /\ [Next]_scanVars => [Contract!Go]_(Contract!vars)
  <2> SUFFICES ASSUME IInv, IInv', [Next]_scanVars PROVE [Contract!Go]_(Contract!vars)
      OBVIOUS
  <2>1. CASE Next
    <3>1. pc # "done" /\ UNCHANGED <<scenario, src, dst>>
        BY <2>1, StepKeepsGiven
    <3>2. UNCHANGED Planned
        BY <3>1, GivenKept
    <3>3. Sent \subseteq Sent'
        BY Steps DEF Onward
    <3>4. Sent' \subseteq Planned' /\ (pc' = "done" /\ err' = "none" => Sent' = Planned')
      <4>1. (IInv => Sent \subseteq Planned /\ (pc = "done" /\ err = "none" => Sent = Planned))'
          BY SuccessIsComplete, PTL
      <4> QED BY <4>1
    <3>5. /\ result = "none" /\ result' \in {"none", "ok", "failed"}
          /\ result' = "ok" => pc' = "done" /\ err' = "none"
        BY <3>1
    <3>6. Contract!Go
        BY <3>2, <3>3, <3>4, <3>5 DEF Contract!Go
    <3> QED BY <3>6
  <2>2. CASE UNCHANGED scanVars
    <3>1. UNCHANGED <<scenario, src, dst, pc, err, out>>
        BY <2>2 DEF scanVars, given, batcherVars
    <3>2. UNCHANGED Planned /\ UNCHANGED Sent /\ result' = result
        BY <3>1, GivenKept DEF Sent
    <3> QED BY <3>2 DEF Contract!vars
  <2> QED BY <2>1, <2>2
<1> QED BY <1>1, <1>2, IInvariance, PTL DEF Spec, ImplementsContract, Contract!Spec

-----------------------------------------------------------------------------
(* Sorted keys: the least one, then the others.                            *)

Before(S, k) == {j \in S : j < k}

LEMMA RanksDiffer ==
    ASSUME NEW S, S \subseteq Nat, IsFiniteSet(S), NEW k \in S, NEW l \in S, k < l
    PROVE  Cardinality(Before(S, k)) < Cardinality(Before(S, l))
<1>1. k \in Nat /\ l \in Nat /\ \A j \in S : j \in Nat
    OBVIOUS
<1>2. Before(S, l) \subseteq S
    BY DEF Before
<1>3. IsFiniteSet(Before(S, l))
    BY <1>2, FS_Subset
<1>4. Before(S, k) \subseteq Before(S, l) /\ k \in Before(S, l) /\ k \notin Before(S, k)
  <2>1. k < l /\ ~(k < k)
      BY <1>1
  <2>2. \A j \in S : j < k => j < l
      BY <1>1, <2>1
  <2> QED BY <2>1, <2>2 DEF Before
<1>5. /\ IsFiniteSet(Before(S, k)) /\ Cardinality(Before(S, k)) <= Cardinality(Before(S, l))
      /\ (Cardinality(Before(S, k)) = Cardinality(Before(S, l)) => Before(S, k) = Before(S, l))
    BY <1>3, <1>4, FS_Subset
<1>6. Cardinality(Before(S, k)) \in Nat /\ Cardinality(Before(S, l)) \in Nat
    BY <1>3, <1>5, FS_CardinalityType
<1> QED BY <1>4, <1>5, <1>6

(* Each rank belongs to one member.                                        *)
LEMMA RankUnique ==
    ASSUME NEW S, S \subseteq Nat, IsFiniteSet(S), NEW k \in S, NEW l \in S,
           Cardinality(Before(S, k)) = Cardinality(Before(S, l))
    PROVE  k = l
<1>1. k \in Nat /\ l \in Nat
    OBVIOUS
<1>2. Before(S, k) \subseteq S
    BY DEF Before
<1>3. Cardinality(Before(S, k)) \in Nat
    BY <1>2, FS_Subset, FS_CardinalityType
<1>4. \A r \in Nat : ~(r < r)
    OBVIOUS
<1>5. ~(k < l)
    BY <1>3, <1>4, RanksDiffer
<1>6. ~(l < k)
    BY <1>3, <1>4, RanksDiffer
<1> QED BY <1>1, <1>5, <1>6

LEMMA SortedRanks ==
    ASSUME NEW S, S \subseteq Nat, IsFiniteSet(S)
    PROVE  /\ Cardinality(S) \in Nat /\ DOMAIN Sorted(S) = 1..Cardinality(S)
           /\ \A i \in 1..Cardinality(S) :
                 Sorted(S)[i] \in S /\ Cardinality(Before(S, Sorted(S)[i])) = i - 1
<1> DEFINE n == Cardinality(S)
           f == [k \in S |-> Cardinality(Before(S, k)) + 1]
<1>1. n \in Nat
    BY FS_CardinalityType
<1>2. ASSUME NEW k \in S PROVE Cardinality(Before(S, k)) \in Nat /\ f[k] \in 1..n
  <2>1. Before(S, k) \subseteq S /\ k \notin Before(S, k)
      BY DEF Before
  <2>2. /\ IsFiniteSet(Before(S, k)) /\ Cardinality(Before(S, k)) <= n
        /\ (Cardinality(Before(S, k)) = n => Before(S, k) = S)
      BY <2>1, FS_Subset
  <2>3. Cardinality(Before(S, k)) \in Nat
      BY <2>2, FS_CardinalityType
  <2> HIDE DEF n
  <2> QED BY <1>1, <2>1, <2>2, <2>3
<1>3. f \in Injection(S, 1..n)
  <2>1. ASSUME NEW k \in S, NEW l \in S, f[k] = f[l] PROVE k = l
    <3>1. Cardinality(Before(S, k)) = Cardinality(Before(S, l))
        BY <1>2, <2>1
    <3> QED BY <3>1, RankUnique
  <2>2. f \in [S -> 1..n]
      BY <1>2
  <2> QED BY <2>1, <2>2 DEF Injection, IsInjective
<1>4. f \in Surjection(S, 1..n)
  <2>1. IsFiniteSet(1..n) /\ Cardinality(1..n) = n
      BY <1>1, FS_Interval
  <2> QED BY <1>3, <2>1, FS_Injection
<1>5. ASSUME NEW i \in 1..n PROVE \E k \in S : Cardinality(Before(S, k)) = i - 1
  <2>1. PICK k \in S : f[k] = i
      BY <1>4 DEF Surjection
  <2> QED BY <1>2, <2>1
<1>6. \A i \in 1..n : Sorted(S)[i] = CHOOSE k \in S : Cardinality(Before(S, k)) = i - 1
    BY DEF Sorted, Before
<1> QED BY <1>1, <1>5, <1>6 DEF Sorted

LEMMA SortedType ==
    ASSUME NEW S, S \subseteq Nat, IsFiniteSet(S)
    PROVE  Sorted(S) \in Seq(S) /\ Len(Sorted(S)) = Cardinality(S)
<1> DEFINE s == Sorted(S)
<1>1. /\ Cardinality(S) \in Nat /\ DOMAIN s = 1..Cardinality(S)
      /\ \A i \in 1..Cardinality(S) : s[i] \in S
    BY SortedRanks
<1> DEFINE K(i) == CHOOSE k \in S : Cardinality({j \in S : j < k}) = i - 1
<1>2. s = [i \in DOMAIN s |-> s[i]]
  <2>1. s = [i \in 1..Cardinality(S) |-> K(i)]
      BY DEF Sorted
  <2> HIDE DEF K, s
  <2> QED BY <2>1
<1> HIDE DEF s
<1>3. s \in [1..Cardinality(S) -> S]
    BY <1>1, <1>2
<1> QED BY <1>1, <1>3 DEF s

LEMMA SortedEmpty == Sorted({}) = <<>>
<1>1. Cardinality({}) = 0
    BY FS_EmptySet
<1> QED BY <1>1 DEF Sorted

LEMMA SortedLeast ==
    ASSUME NEW S, S \subseteq Nat, IsFiniteSet(S), NEW m \in S, \A j \in S : m <= j
    PROVE  Sorted(S) = <<m>> \o Sorted(S \ {m})
<1> DEFINE T == S \ {m}
           n == Cardinality(S)
           s == Sorted(S)
           t == Sorted(T)
<1>1. /\ T \subseteq Nat /\ IsFiniteSet(T) /\ Cardinality(T) = n - 1 /\ n \in Nat
      /\ \A j \in S : j \in Nat
    BY FS_RemoveElement, FS_CardinalityType
<1>2. /\ DOMAIN s = 1..n
      /\ \A i \in 1..n : s[i] \in S /\ Cardinality(Before(S, s[i])) = i - 1
    BY SortedRanks
<1>3. /\ t \in Seq(T) /\ Len(t) = n - 1 /\ DOMAIN t = 1..(n - 1)
      /\ \A i \in 1..(n - 1) : t[i] \in T /\ Cardinality(Before(T, t[i])) = i - 1
    BY <1>1, SortedRanks, SortedType
<1>4. s \in Seq(S) /\ Len(s) = n
    BY SortedType
<1>5. n # 0
    BY FS_EmptySet
<1>6. s[1] = m
  <2>1. Before(S, m) = {}
    <3>1. \A j \in S : ~(j < m)
        BY <1>1
    <3> QED BY <3>1 DEF Before
  <2>2. Cardinality(Before(S, m)) = 0
      BY <2>1, FS_EmptySet
  <2>3. 1 \in 1..n
      BY <1>1, <1>5
  <2>4. s[1] \in S /\ Cardinality(Before(S, s[1])) = 0
      BY <1>2, <2>3
  <2> HIDE DEF s
  <2> QED BY <2>2, <2>4, RankUnique
<1>7. ASSUME NEW i \in 1..(n - 1) PROVE s[i + 1] = t[i]
  <2> DEFINE y == t[i]
  <2>1. y \in T /\ Cardinality(Before(T, y)) = i - 1
      BY <1>3
  <2> HIDE DEF y
  <2>2. Before(S, y) = Before(T, y) \cup {m} /\ m \notin Before(T, y)
      BY <1>1, <2>1 DEF Before
  <2>3. IsFiniteSet(Before(T, y))
    <3>1. Before(T, y) \subseteq S
        BY DEF Before
    <3> QED BY <3>1, FS_Subset
  <2>4. Cardinality(Before(S, y)) = i
    <3>1. Cardinality(Before(S, y)) = Cardinality(Before(T, y)) + 1
        BY <2>2, <2>3, FS_AddElement
    <3> QED BY <1>1, <2>1, <3>1
  <2>5. i + 1 \in 1..n /\ (i + 1) - 1 = i
      BY <1>1
  <2>6. s[i + 1] \in S /\ Cardinality(Before(S, s[i + 1])) = i
      BY <1>2, <2>5
  <2>7. y \in S
      BY <2>1
  <2> HIDE DEF s, T
  <2>8. s[i + 1] = y
      BY <2>4, <2>6, <2>7, RankUnique
  <2> QED BY <2>8 DEF y
<1> HIDE DEF s, t, n
<1> DEFINE u == <<m>> \o t
<1>8. /\ u \in Seq(S) /\ Len(u) = n /\ u[1] = m
      /\ \A i \in 1..(n - 1) : u[i + 1] = t[i]
    BY <1>1, <1>3
<1> HIDE DEF u
<1>9. \A i \in 1..n : s[i] = u[i]
  <2> TAKE i \in 1..n
  <2>1. CASE i = 1
      BY <1>6, <1>8, <2>1
  <2>2. CASE i # 1
    <3>1. i - 1 \in 1..(n - 1) /\ (i - 1) + 1 = i
        BY <1>1, <2>2
    <3> QED BY <1>7, <1>8, <3>1
  <2> QED BY <2>1, <2>2
<1>10. s = u
    BY <1>4, <1>8, <1>9
<1> QED BY <1>10 DEF s, t, u

-----------------------------------------------------------------------------
(* The operations that tasks stand for, one after another.                 *)

OpSet == [from : {"src", "dst", "delete"}, key : Keys]

LEMMA OpTypes ==
    /\ \A c \in Copies : OpOf(c) \in OpSet
    /\ \A k \in Keys : [from |-> "delete", key |-> k] \in OpSet
BY DEF OpOf, OpSet, Copies

LEMMA OpSeqType ==
    ASSUME NEW s \in Seq(Copies)
    PROVE  OpSeq(s) \in Seq(OpSet) /\ Len(OpSeq(s)) = Len(s)
<1>1. \A i \in DOMAIN s : OpOf(s[i]) \in OpSet
    BY OpTypes
<1> QED BY <1>1 DEF OpSeq

LEMMA OpSeqAppend ==
    ASSUME NEW s \in Seq(Copies), NEW c \in Copies
    PROVE  OpSeq(Append(s, c)) = Append(OpSeq(s), OpOf(c))
<1> DEFINE n == Len(s)
           f == OpSeq(Append(s, c))
           g == Append(OpSeq(s), OpOf(c))
<1>1. /\ n \in Nat /\ DOMAIN s = 1..n /\ Append(s, c) \in Seq(Copies)
      /\ Len(Append(s, c)) = n + 1 /\ Append(s, c)[n + 1] = c
      /\ \A i \in 1..n : Append(s, c)[i] = s[i]
    OBVIOUS
<1>2. f \in Seq(OpSet) /\ Len(f) = n + 1 /\ OpSeq(s) \in Seq(OpSet) /\ Len(OpSeq(s)) = n
    BY <1>1, OpSeqType
<1>3. OpOf(c) \in OpSet
    BY OpTypes
<1>4. \A i \in 1..n : f[i] = OpOf(s[i]) /\ OpSeq(s)[i] = OpOf(s[i])
    BY <1>1 DEF OpSeq
<1>5. f[n + 1] = OpOf(c)
    BY <1>1 DEF OpSeq
<1> HIDE DEF f, n
<1>6. /\ g \in Seq(OpSet) /\ Len(g) = n + 1 /\ g[n + 1] = OpOf(c)
      /\ \A i \in 1..n : g[i] = OpSeq(s)[i]
    BY <1>1, <1>2, <1>3
<1> HIDE DEF g
<1>7. \A i \in 1..(n + 1) : f[i] = g[i]
  <2> TAKE i \in 1..(n + 1)
  <2>1. CASE i = n + 1
      BY <1>5, <1>6, <2>1
  <2>2. CASE i # n + 1
    <3>1. i \in 1..n
        BY <1>1, <2>2
    <3> QED BY <1>4, <1>6, <3>1
  <2> QED BY <2>1, <2>2
<1>8. f = g
    BY <1>2, <1>6, <1>7
<1> QED BY <1>8 DEF f, g

LEMMA OpsOfTasks ==
    /\ \A c \in Copies : OpsIn(CopyTask(c)) = <<OpOf(c)>>
    /\ \A b \in Batch0 : OpsIn(BatchTask(b)) = OpSeq(b.entries)
    /\ \A k \in Keys : OpsIn(DeleteTask(k)) = <<[from |-> "delete", key |-> k]>>
    /\ \A t \in AllTasks : OpsIn(t) \in Seq(OpSet)
<1>1. ASSUME NEW c \in Copies PROVE OpsIn(CopyTask(c)) = <<OpOf(c)>>
  <2>1. CopyTask(c).action # "delete" /\ CopyTask(c).copies = <<c>>
      BY DEF CopyTask
  <2>2. OpSeq(<<c>>) = <<OpOf(c)>>
      BY DEF OpSeq
  <2> QED BY <2>1, <2>2 DEF OpsIn
<1>2. ASSUME NEW b \in Batch0 PROVE OpsIn(BatchTask(b)) = OpSeq(b.entries)
    BY DEF OpsIn, BatchTask
<1>3. ASSUME NEW k \in Keys PROVE OpsIn(DeleteTask(k)) = <<[from |-> "delete", key |-> k]>>
    BY DEF OpsIn, DeleteTask
<1>4. \A b \in Batch0 : OpSeq(b.entries) \in Seq(OpSet)
    BY OpSeqType DEF Batch0
<1>5. ASSUME NEW t \in AllTasks PROVE OpsIn(t) \in Seq(OpSet)
  <2>1. \A x \in OpSet : <<x>> \in Seq(OpSet)
      OBVIOUS
  <2>2. CASE \E c \in Copies : t = CopyTask(c)
      BY <1>1, <2>1, <2>2, OpTypes
  <2>3. CASE \E b \in Batch0 : t = BatchTask(b)
      BY <1>2, <1>4, <2>3
  <2>4. CASE \E k \in Keys : t = DeleteTask(k)
      BY <1>3, <2>1, <2>4, OpTypes
  <2> QED BY <2>2, <2>3, <2>4 DEF AllTasks, CopyTasks, DeleteTasks
<1> QED BY <1>1, <1>2, <1>3, <1>5

LEMMA LogAppend ==
    ASSUME NEW o \in Seq(AllTasks), NEW t \in AllTasks
    PROVE  LogOf(Append(o, t)) = LogOf(o) \o OpsIn(t)
<1> DEFINE n == Len(o)
           a == Append(o, t)
           f == [i \in DOMAIN o |-> OpsIn(o[i])]
           g == [i \in DOMAIN a |-> OpsIn(a[i])]
<1>1. /\ n \in Nat /\ DOMAIN o = 1..n /\ a \in Seq(AllTasks) /\ Len(a) = n + 1
      /\ DOMAIN a = 1..(n + 1) /\ a[n + 1] = t
      /\ \A i \in 1..n : a[i] = o[i] /\ o[i] \in AllTasks
    OBVIOUS
<1> HIDE DEF a, n
<1>2. \A x \in AllTasks : OpsIn(x) \in Seq(OpSet)
    BY OpsOfTasks
<1>3. f \in [1..n -> Seq(OpSet)] /\ g \in [1..(n + 1) -> Seq(OpSet)]
  <2>1. \A i \in 1..(n + 1) : a[i] \in AllTasks
      BY <1>1
  <2> QED BY <1>1, <1>2, <2>1
<1>4. g[n + 1] = OpsIn(t) /\ \A i \in 1..n : g[i] = f[i]
    BY <1>1
<1>5. LogOf(o) = FlattenSeq(f) /\ LogOf(a) = FlattenSeq(g)
    BY DEF LogOf
<1> HIDE DEF f, g
<1>6. f \in Seq(Seq(OpSet)) /\ g \in Seq(Seq(OpSet)) /\ Len(f) = n /\ Len(g) = n + 1
    BY <1>1, <1>3
<1>7. OpsIn(t) \in Seq(OpSet)
    BY <1>2
<1> DEFINE h == Append(f, OpsIn(t))
           x == OpsIn(t)
<1> HIDE DEF x
<1>8. /\ h \in Seq(Seq(OpSet)) /\ Len(h) = n + 1 /\ h[n + 1] = x
      /\ \A i \in 1..n : h[i] = f[i]
    BY <1>1, <1>6, <1>7 DEF x
<1> HIDE DEF h
<1>9. \A i \in 1..(n + 1) : g[i] = h[i]
  <2> TAKE i \in 1..(n + 1)
  <2>1. CASE i = n + 1
      BY <1>4, <1>8, <2>1 DEF x
  <2>2. CASE i # n + 1
    <3>1. i \in 1..n
        BY <1>1, <2>2
    <3> QED BY <1>4, <1>8, <3>1
  <2> QED BY <2>1, <2>2
<1>10. g = h
    BY <1>6, <1>8, <1>9
<1>11. FlattenSeq(Append(f, x)) = FlattenSeq(f) \o x
    BY <1>6, <1>7, FlattenAppend DEF x
<1> QED BY <1>5, <1>10, <1>11 DEF h, a, x

LEMMA LogType == ASSUME NEW o \in Seq(AllTasks) PROVE LogOf(o) \in Seq(OpSet)
<1> DEFINE f == [i \in DOMAIN o |-> OpsIn(o[i])]
<1>1. \A i \in DOMAIN o : OpsIn(o[i]) \in Seq(OpSet)
    BY OpsOfTasks
<1>2. f \in Seq(Seq(OpSet))
  <2>1. DOMAIN o = 1..Len(o) /\ Len(o) \in Nat
      OBVIOUS
  <2>2. f \in [1..Len(o) -> Seq(OpSet)]
      BY <1>1, <2>1
  <2> HIDE DEF f
  <2> QED BY <2>1, <2>2
<1> HIDE DEF f
<1>3. FlattenSeq(f) \in Seq(OpSet)
    BY <1>2, FlattenType
<1> QED BY <1>3 DEF LogOf, f

LEMMA LogFlushed ==
    ASSUME NEW o \in Seq(AllTasks), NEW b, Building(b), ~FlushFails(b)
    PROVE  /\ o \o Flushed(b) \in Seq(AllTasks)
           /\ LogOf(o \o Flushed(b)) = LogOf(o) \o OpSeq(b.entries)
<1>1. LogOf(o) \in Seq(OpSet) /\ b \in Batch0
    BY LogType DEF Building
<1>2. CASE b.entries = <<>>
  <2>1. Flushed(b) = <<>> /\ OpSeq(b.entries) = <<>>
      BY <1>2 DEF Flushed, OpSeq
  <2> QED BY <1>1, <2>1
<1>3. CASE b.entries # <<>>
  <2> DEFINE t == BatchTask(b)
  <2>1. t \in AllTasks
      BY <1>1, <1>3 DEF Complete, FlushFails, AllTasks, CopyTasks
  <2>2. OpsIn(t) = OpSeq(b.entries)
      BY <1>1, OpsOfTasks
  <2>3. Flushed(b) = <<t>>
      BY <1>3 DEF Flushed
  <2> HIDE DEF t
  <2>4. o \o <<t>> = Append(o, t) /\ Append(o, t) \in Seq(AllTasks)
      BY <2>1
  <2> QED BY <2>1, <2>2, <2>3, <2>4, LogAppend
<1> QED BY <1>2, <1>3

-----------------------------------------------------------------------------
(* The batcher keeps the order: what was emitted is followed by what is    *)
(* added, or by a part of it when there is an error.                       *)

Line(o, b) == LogOf(o) \o OpSeq(b.entries)

Begins(s, t) == Len(s) <= Len(t) /\ \A i \in 1..Len(s) : s[i] = t[i]

InOrder(new) ==
    /\ Line(out', batch') \in Seq(OpSet)
    /\ Begins(Line(out', batch'), Line(out, batch) \o new)
    /\ err' = "none" => Line(out', batch') = Line(out, batch) \o new

LEMMA BeginsConcat ==
    ASSUME NEW s \in Seq(OpSet), NEW t \in Seq(OpSet)
    PROVE  s \o t \in Seq(OpSet) /\ Begins(s, s \o t) /\ Begins(s, s)
BY DEF Begins

LEMMA LineType ==
    ASSUME NEW o \in Seq(AllTasks), NEW b, b.entries \in Seq(Copies)
    PROVE  Line(o, b) \in Seq(OpSet)
<1>1. LogOf(o) \in Seq(OpSet) /\ OpSeq(b.entries) \in Seq(OpSet)
    BY LogType, OpSeqType
<1> QED BY <1>1 DEF Line

(* With an empty batch, what was sent is all.                              *)
LEMMA LineEmpty ==
    ASSUME NEW o \in Seq(AllTasks), NEW b, b.entries = <<>>
    PROVE  Line(o, b) = LogOf(o)
<1>1. LogOf(o) \in Seq(OpSet) /\ OpSeq(b.entries) = <<>>
    BY LogType DEF OpSeq
<1> QED BY <1>1 DEF Line

LEMMA LineFlushed ==
    ASSUME NEW o \in Seq(AllTasks), NEW b, Building(b), ~FlushFails(b)
    PROVE  /\ o \o Flushed(b) \in Seq(AllTasks)
           /\ Line(o \o Flushed(b), Empty) = Line(o, b)
<1>1. o \o Flushed(b) \in Seq(AllTasks) /\ LogOf(o \o Flushed(b)) = Line(o, b)
    BY LogFlushed DEF Line
<1>2. Empty.entries = <<>>
    BY DEF Empty
<1> QED BY <1>1, <1>2, LineEmpty

LEMMA LineExtended ==
    ASSUME NEW o \in Seq(AllTasks), NEW b, b.entries \in Seq(Copies), NEW c \in Copies,
           NEW e, e.entries = Append(b.entries, c)
    PROVE  Line(o, e) = Line(o, b) \o <<OpOf(c)>>
<1>1. LogOf(o) \in Seq(OpSet) /\ OpSeq(b.entries) \in Seq(OpSet) /\ OpOf(c) \in OpSet
    BY LogType, OpSeqType, OpTypes
<1>2. OpSeq(e.entries) = Append(OpSeq(b.entries), OpOf(c))
    BY OpSeqAppend
<1> DEFINE l == LogOf(o)
           s == OpSeq(b.entries)
           x == OpOf(c)
<1>3. Line(o, e) = l \o Append(s, x) /\ Line(o, b) = l \o s
    BY <1>2 DEF Line
<1> HIDE DEF l, s, x
<1>4. l \in Seq(OpSet) /\ s \in Seq(OpSet) /\ x \in OpSet
    BY <1>1 DEF l, s, x
<1>5. l \o Append(s, x) = (l \o s) \o <<x>>
    BY <1>4
<1> QED BY <1>3, <1>5 DEF x

LEMMA FlushInOrder ==
    ASSUME OptsTyped, Building(batch), err = "none", out \in Seq(AllTasks), Flush
    PROVE  InOrder(<<>>)
<1> DEFINE L == Line(out, batch)
<1>1. L \in Seq(OpSet)
    BY LineType DEF Building, Batch0
<1>2. Line(out', batch') = L
  <2>1. CASE Enabled /\ FlushFails(batch)
    <3>1. out' = out \o <<>> /\ batch' = batch
        BY <2>1 DEF Flush, Fail
    <3>2. out \o <<>> = out
        OBVIOUS
    <3> QED BY <3>1, <3>2
  <2>2. CASE ~(Enabled /\ FlushFails(batch))
    <3>1. out' = out \o Flushed(batch) /\ batch' = Empty
        BY <2>2 DEF Flush
    <3>2. ~FlushFails(batch)
        BY <2>2 DEF Building, FlushFails
    <3> QED BY <3>1, <3>2, LineFlushed
  <2> QED BY <2>1, <2>2
<1> HIDE DEF L
<1>3. L \o <<>> = L
    BY <1>1
<1> QED BY <1>1, <1>2, <1>3, BeginsConcat DEF InOrder, L

LEMMA IdleInOrder == ASSUME TypesOK, UNCHANGED <<batch, out, err>> PROVE InOrder(<<>>)
<1> DEFINE L == Line(out, batch)
<1>1. L \in Seq(OpSet)
    BY LineType DEF TypesOK, Building, Batch0
<1>2. Line(out', batch') = L
    OBVIOUS
<1> HIDE DEF L
<1>3. L \o <<>> = L
    BY <1>1
<1> QED BY <1>1, <1>2, <1>3, BeginsConcat DEF InOrder, L

(* The ways in which Add can end.                                          *)
LEMMA Endings ==
    ASSUME out \in Seq(AllTasks), batch.entries \in Seq(Copies), NEW x \in OpSet,
           \/ Line(out', batch') = Line(out, batch) \o <<x>>
           \/ err' # "none" /\ Line(out', batch') = Line(out, batch)
           \/ /\ err' # "none"
              /\ \E o \in Seq(AllTasks) : \E b : /\ b.entries \in Seq(Copies)
                                                 /\ Line(o, b) = Line(out, batch)
                                                 /\ Line(out', batch') = LogOf(o)
    PROVE  InOrder(<<x>>)
<1> DEFINE L == Line(out, batch)
           K == Line(out', batch')
<1>1. L \in Seq(OpSet) /\ <<x>> \in Seq(OpSet)
    BY LineType
<1> HIDE DEF L, K
<1>2. L \o <<x>> \in Seq(OpSet) /\ Begins(L, L \o <<x>>) /\ Begins(L \o <<x>>, L \o <<x>>)
    BY <1>1, BeginsConcat
<1>3. CASE K = L \o <<x>>
    BY <1>2, <1>3 DEF InOrder, L, K
<1>4. CASE err' # "none" /\ K = L
    BY <1>1, <1>2, <1>4 DEF InOrder, L, K
<1>5. CASE /\ err' # "none"
           /\ \E o \in Seq(AllTasks) : \E b :
                 b.entries \in Seq(Copies) /\ Line(o, b) = L /\ K = LogOf(o)
  <2>0. PICK o \in Seq(AllTasks) :
            \E b : b.entries \in Seq(Copies) /\ Line(o, b) = L /\ K = LogOf(o)
      BY <1>5
  <2>1. PICK b : b.entries \in Seq(Copies) /\ Line(o, b) = L /\ K = LogOf(o)
      BY <2>0
  <2>2. K \in Seq(OpSet) /\ OpSeq(b.entries) \in Seq(OpSet) /\ L = K \o OpSeq(b.entries)
      BY <2>1, LogType, OpSeqType DEF Line
  <2>3. Begins(K, L)
      BY <2>2, BeginsConcat
  <2>4. Begins(K, L \o <<x>>)
      BY <1>1, <2>2, <2>3 DEF Begins
  <2> QED BY <1>5, <2>2, <2>4 DEF InOrder, L, K
<1> QED BY <1>3, <1>4, <1>5 DEF L, K

LEMMA StoreInOrder ==
    ASSUME OptsTyped, out \in Seq(AllTasks), batch.entries \in Seq(Copies),
           NEW b, NEW sent, NEW c \in Copies, NEW n \in Nat,
           Building(b), ~LastShort(b), Enabled, c.size <= opts.threshold, n <= HeaderSize(c),
           opts.maxFiles > 0 => Len(b.entries) < opts.maxFiles,
           opts.maxBytes > 0 => b.totalBytes + c.size <= opts.maxBytes \/ b.entries = <<>>,
           out \o sent \in Seq(AllTasks), Line(out \o sent, b) = Line(out, batch),
           Store(b, c, n, sent)
    PROVE  InOrder(<<OpOf(c)>>)
<1> DEFINE e == Extended(b, c, n)
           o == out \o sent
<1>1. Building(e) /\ e.entries = Append(b.entries, c)
    BY ExtendedBuilding
<1>2. Line(o, e) = Line(out, batch) \o <<OpOf(c)>>
  <2>1. b.entries \in Seq(Copies)
      BY DEF Building, Batch0
  <2>2. o \in Seq(AllTasks) /\ Line(o, b) = Line(out, batch)
      OBVIOUS
  <2> HIDE DEF e, o
  <2>3. Line(o, e) = Line(o, b) \o <<OpOf(c)>>
      BY <1>1, <2>1, <2>2, LineExtended
  <2> QED BY <2>2, <2>3
<1>3. /\ ~ReachedLimits(e) => batch' = e /\ out' = o
      /\ ReachedLimits(e) /\ FlushFails(e) => batch' = e /\ out' = o
      /\ ReachedLimits(e) /\ ~FlushFails(e) => out' = o \o Flushed(e) /\ batch' = Empty
    BY DEF Store, Fail
<1> HIDE DEF e, o
<1>4. Line(out', batch') = Line(o, e)
  <2>1. CASE ReachedLimits(e) /\ ~FlushFails(e)
    <3>1. o \in Seq(AllTasks)
        BY DEF o
    <3> QED BY <1>1, <1>3, <2>1, <3>1, LineFlushed
  <2>2. CASE ~(ReachedLimits(e) /\ ~FlushFails(e))
      BY <1>3, <2>2
  <2> QED BY <2>1, <2>2
<1> QED BY <1>2, <1>4, Endings, OpTypes

LEMMA AddSmallInOrder ==
    ASSUME OptsTyped, Building(batch), out \in Seq(AllTasks),
           NEW c \in Copies, NEW n \in Nat \cup {Unreadable}, AddSmall(c, n)
    PROVE  InOrder(<<OpOf(c)>>)
<1> DEFINE full == ~CanAdd(c.size)
           b    == IF full THEN Empty ELSE batch
           sent == IF full THEN Flushed(batch) ELSE <<>>
           o    == [b EXCEPT !.open = TRUE]
<1>1. /\ Enabled /\ c.size <= opts.threshold
      /\ IF full /\ FlushFails(batch) THEN Fail("short", <<>>, batch)
         ELSE IF n = Unreadable       THEN Fail("open", sent, o)
         ELSE IF LastShort(b)         THEN Fail("short", sent, Empty)
         ELSE IF n > HeaderSize(c)    THEN Fail("long", sent, Empty)
         ELSE Store(b, c, n, sent)
    BY DEF AddSmall
<1>2. batch.entries \in Seq(Copies) /\ OpOf(c) \in OpSet
    BY OpTypes DEF Building, Batch0
<1>3. CASE full /\ FlushFails(batch)
  <2>1. err' = "short" /\ out' = out \o <<>> /\ batch' = batch
      BY <1>1, <1>3 DEF Fail
  <2>2. out' = out
      BY <2>1
  <2> QED BY <1>2, <2>1, <2>2, Endings
<1>4. CASE ~(full /\ FlushFails(batch))
  <2>1. Building(b) /\ out \o sent \in Seq(AllTasks) /\ Line(out \o sent, b) = Line(out, batch)
    <3>1. CASE full
        BY <1>4, <3>1, LineFlushed, EmptyBuilding
    <3>2. CASE ~full
      <4>1. out \o <<>> = out
          OBVIOUS
      <4> QED BY <3>2, <4>1
    <3> QED BY <3>1, <3>2
  <2>2. /\ opts.maxFiles > 0 => Len(b.entries) < opts.maxFiles
        /\ opts.maxBytes > 0 => b.totalBytes + c.size <= opts.maxBytes \/ b.entries = <<>>
    <3>1. CASE full
      <4>1. b.entries = <<>> /\ Len(b.entries) = 0
          BY <3>1 DEF Empty
      <4> QED BY <4>1 DEF OptsTyped, Options
    <3>2. CASE ~full
        BY <3>2 DEF CanAdd
    <3> QED BY <3>1, <3>2
  <2>3. IF n = Unreadable            THEN Fail("open", sent, o)
        ELSE IF LastShort(b)         THEN Fail("short", sent, Empty)
        ELSE IF n > HeaderSize(c)    THEN Fail("long", sent, Empty)
        ELSE Store(b, c, n, sent)
      BY <1>1, <1>4
  <2> HIDE DEF full, b, sent
  <2>4. b.entries \in Seq(Copies) /\ o.entries = b.entries
      BY <2>1 DEF Building, Batch0
  <2> HIDE DEF o
  <2>5. CASE n = Unreadable
    <3>1. err' = "open" /\ out' = out \o sent /\ batch' = o
        BY <2>3, <2>5 DEF Fail
    <3>2. Line(out', batch') = Line(out, batch)
        BY <2>1, <2>4, <3>1 DEF Line
    <3> QED BY <1>2, <3>1, <3>2, Endings
  <2>6. ASSUME err' \in {"short", "long"}, out' = out \o sent, batch' = Empty
        PROVE  InOrder(<<OpOf(c)>>)
    <3>1. Empty.entries = <<>>
        BY DEF Empty
    <3>2. Line(out', batch') = LogOf(out \o sent)
        BY <2>1, <2>6, <3>1, LineEmpty
    <3>3. err' # "none"
        BY <2>6
    <3> QED BY <1>2, <2>1, <2>4, <3>2, <3>3, Endings
  <2>7. CASE n # Unreadable /\ LastShort(b)
    <3>1. err' = "short" /\ out' = out \o sent /\ batch' = Empty
        BY <2>3, <2>7 DEF Fail
    <3> QED BY <2>6, <3>1
  <2>8. CASE n # Unreadable /\ ~LastShort(b) /\ n > HeaderSize(c)
    <3>1. err' = "long" /\ out' = out \o sent /\ batch' = Empty
        BY <2>3, <2>8 DEF Fail
    <3> QED BY <2>6, <3>1
  <2>9. CASE n # Unreadable /\ ~LastShort(b) /\ ~(n > HeaderSize(c))
    <3>1. n \in Nat /\ HeaderSize(c) \in Nat
        BY <2>9 DEF HeaderSize, Copies
    <3>2. n <= HeaderSize(c) /\ Store(b, c, n, sent)
        BY <2>3, <2>9, <3>1
    <3> QED BY <1>1, <1>2, <2>1, <2>2, <2>9, <3>1, <3>2, StoreInOrder
  <2> QED BY <2>5, <2>7, <2>8, <2>9
<1> QED BY <1>3, <1>4

LEMMA AddInOrder ==
    ASSUME OptsTyped, Building(batch), out \in Seq(AllTasks),
           NEW c \in Copies, NEW n \in Nat \cup {Unreadable}, Add(c, n)
    PROVE  InOrder(<<OpOf(c)>>)
<1> DEFINE t == CopyTask(c)
<1>1. t \in AllTasks /\ OpsIn(t) = <<OpOf(c)>> /\ OpOf(c) \in OpSet
    BY OpsOfTasks, OpTypes DEF AllTasks, CopyTasks
<1>2. batch.entries \in Seq(Copies) /\ Empty.entries = <<>>
    BY DEF Building, Batch0, Empty
<1> HIDE DEF t
<1>3. ASSUME NEW o \in Seq(AllTasks)
      PROVE  /\ Append(o, t) \in Seq(AllTasks)
             /\ \A b : b.entries = <<>> => Line(Append(o, t), b) = LogOf(o) \o <<OpOf(c)>>
  <2>1. Append(o, t) \in Seq(AllTasks)
      BY <1>1
  <2> QED BY <1>1, <2>1, LogAppend, LineEmpty
<1>4. CASE AddUnbatched(c)
  <2>1. out' = Append(out, t) /\ batch' = batch
      BY <1>4 DEF AddUnbatched, t
  <2>2. batch.entries = <<>>
      BY <1>4 DEF AddUnbatched, Building
  <2>3. Line(out', batch') = Line(out, batch) \o <<OpOf(c)>>
      BY <1>3, <2>1, <2>2, LineEmpty
  <2> QED BY <1>1, <1>2, <2>3, Endings
<1>5. CASE AddLarge(c)
  <2>1. CASE FlushFails(batch)
    <3>1. err' = "short" /\ out' = out \o <<>> /\ batch' = batch
        BY <1>5, <2>1 DEF AddLarge, Fail
    <3>2. out' = out
        BY <3>1
    <3> QED BY <1>1, <1>2, <3>1, <3>2, Endings
  <2>2. CASE ~FlushFails(batch)
    <3> DEFINE o == out \o Flushed(batch)
    <3>1. o \in Seq(AllTasks) /\ Line(o, Empty) = Line(out, batch)
        BY <2>2, LineFlushed
    <3>2. LogOf(o) = Line(out, batch)
        BY <1>2, <3>1, LineEmpty
    <3>3. out' = out \o Append(Flushed(batch), t) /\ batch' = Empty
        BY <1>5, <2>2 DEF AddLarge, t
    <3>4. out' = Append(o, t)
      <4>1. Flushed(batch) \in Seq(AllTasks)
          BY <2>2, FlushedWorks DEF AllTasks
      <4> DEFINE f == Flushed(batch)
      <4> HIDE DEF f
      <4>2. out \o Append(f, t) = Append(out \o f, t)
          BY <1>1, <4>1 DEF f
      <4> QED BY <3>3, <4>2 DEF f
    <3> HIDE DEF o
    <3>5. Line(out', batch') = Line(out, batch) \o <<OpOf(c)>>
        BY <1>2, <1>3, <3>1, <3>2, <3>3, <3>4
    <3> QED BY <1>1, <1>2, <3>5, Endings
  <2> QED BY <2>1, <2>2
<1>6. CASE AddSmall(c, n)
    BY <1>6, AddSmallInOrder
<1> QED BY <1>4, <1>5, <1>6 DEF Add

-----------------------------------------------------------------------------
(* The operations on the keys S of a side, before the operations B.        *)
SortedOps(side, S, B) == OpsAlong(side, Sorted(S)) \o B

(* What is left of the copies of the plan in phase p, of whose loop t is   *)
(* left.                                                                   *)

Rest(p, t) ==
    CASE p = "snapshot" -> CopyPlan
      [] p = "forward" -> SortedOps("src", {k \in t : NeedsCopy(k)},
                                     OpsAlong("dst", BackwardPlan))
      [] p = "missing" -> SortedOps("dst", t \ DOMAIN SrcFiles,
                                     OpsAlong("dst", Sorted(Newer(SrcFiles, DstFiles))))
      [] p = "newer" -> SortedOps("dst", t \cap Newer(SrcFiles, DstFiles), <<>>)
      [] OTHER -> <<>>

(* What was emitted is followed by the rest of the plan.  While there are  *)
(* deletes, all copies were emitted, and no delete that is left was.       *)
Ordered ==
    /\ FollowsPlan
    /\ pc \in {"snapshot"} \cup CopyPhases => Emitted \o Rest(pc, todo) = CopyPlan
    /\ pc \in DeletePhases =>
          /\ DOMAIN CopyPlan \subseteq DOMAIN Emitted
          /\ \A i \in DOMAIN Emitted \ DOMAIN CopyPlan :
                Emitted[i] \notin Ops("delete", PendingDeletes)

LEMMA OpsAlongType ==
    ASSUME NEW side \in {"src", "dst"}, NEW s \in Seq(Keys)
    PROVE  /\ OpsAlong(side, s) \in Seq(OpSet) /\ Len(OpsAlong(side, s)) = Len(s)
           /\ \A i \in 1..Len(s) : OpsAlong(side, s)[i] = [from |-> side, key |-> s[i]]
<1>1. \A k \in Keys : [from |-> side, key |-> k] \in OpSet
    BY DEF OpSet
<1>2. DOMAIN s = 1..Len(s) /\ Len(s) \in Nat /\ \A i \in 1..Len(s) : s[i] \in Keys
    OBVIOUS
<1>3. OpsAlong(side, s) \in [1..Len(s) -> OpSet]
    BY <1>1, <1>2 DEF OpsAlong
<1> QED BY <1>2, <1>3 DEF OpsAlong

LEMMA OpsAlongConcat ==
    ASSUME NEW side \in {"src", "dst"}, NEW s \in Seq(Keys), NEW t \in Seq(Keys)
    PROVE  OpsAlong(side, s \o t) = OpsAlong(side, s) \o OpsAlong(side, t)
<1> DEFINE n == Len(s)
           m == Len(t)
           u == s \o t
           f == OpsAlong(side, s)
           g == OpsAlong(side, t)
           h == OpsAlong(side, u)
           Of(k) == [from |-> side, key |-> k]
<1>1. /\ n \in Nat /\ m \in Nat /\ u \in Seq(Keys) /\ Len(u) = n + m
      /\ \A i \in 1..(n + m) : u[i] = IF i <= n THEN s[i] ELSE t[i - n]
    BY ConcatProperties
<1> HIDE DEF u
<1>2. /\ f \in Seq(OpSet) /\ Len(f) = n /\ \A i \in 1..n : f[i] = Of(s[i])
      /\ g \in Seq(OpSet) /\ Len(g) = m /\ \A i \in 1..m : g[i] = Of(t[i])
      /\ h \in Seq(OpSet) /\ Len(h) = n + m /\ \A i \in 1..(n + m) : h[i] = Of(u[i])
    BY <1>1, OpsAlongType
<1> HIDE DEF f, g, h, n, m, Of
<1>3. /\ f \o g \in Seq(OpSet) /\ Len(f \o g) = n + m
      /\ \A i \in 1..(n + m) : (f \o g)[i] = IF i <= n THEN f[i] ELSE g[i - n]
    BY <1>2, ConcatProperties
<1>4. ASSUME NEW i \in 1..(n + m) PROVE h[i] = (f \o g)[i]
  <2>1. CASE i <= n
    <3>1. i \in 1..n
        BY <1>1, <2>1
    <3> QED BY <1>1, <1>2, <1>3, <2>1, <3>1
  <2>2. CASE ~(i <= n)
    <3>1. i - n \in 1..m
        BY <1>1, <2>2
    <3> QED BY <1>1, <1>2, <1>3, <2>2, <3>1
  <2> QED BY <2>1, <2>2
<1>5. h = f \o g
  <2> DEFINE w == f \o g
  <2>1. w \in Seq(OpSet) /\ Len(w) = n + m /\ \A i \in 1..(n + m) : h[i] = w[i]
      BY <1>3, <1>4
  <2> HIDE DEF w
  <2>2. h = w
      BY <1>2, <2>1
  <2> QED BY <2>2 DEF w
<1> QED BY <1>5 DEF f, g, h, u

OpOn(side, k) == [from |-> side, key |-> k]

IsLeast(m, S) == m \in S /\ \A j \in S : m <= j

LEMMA SortedKeys == ASSUME NEW S, S \subseteq Keys PROVE Sorted(S) \in Seq(Keys)
<1>1. S \subseteq Nat /\ IsFiniteSet(S)
    BY ScanAssumption, FS_Subset
<1>2. Sorted(S) \in Seq(S)
    BY <1>1, SortedType
<1> QED BY <1>2

(* The operation on the least of some keys, then those on the others, then *)
(* more.                                                                   *)
LEMMA LeastFirst ==
    ASSUME NEW side \in {"src", "dst"}, NEW S, S \subseteq Keys, NEW m, IsLeast(m, S),
           NEW B \in Seq(OpSet)
    PROVE  SortedOps(side, S, B) = Cons(OpOn(side, m), SortedOps(side, S \ {m}, B))
<1> DEFINE r == Sorted(S \ {m})
           one == <<m>>
<1>1. S \subseteq Nat /\ IsFiniteSet(S) /\ S \ {m} \subseteq Keys /\ m \in Keys
    BY ScanAssumption, FS_Subset DEF IsLeast
<1>2. Sorted(S) = one \o r
    BY <1>1, SortedLeast DEF IsLeast
<1>3. r \in Seq(Keys)
    BY <1>1, SortedKeys
<1>4. one \in Seq(Keys) /\ OpsAlong(side, one) = <<OpOn(side, m)>>
    BY <1>1 DEF OpsAlong, OpOn
<1> HIDE DEF r, one
<1>5. OpsAlong(side, one \o r) = OpsAlong(side, one) \o OpsAlong(side, r)
    BY <1>3, <1>4, OpsAlongConcat
<1> DEFINE x == OpsAlong(side, one)
           y == OpsAlong(side, r)
<1>6. x \in Seq(OpSet) /\ y \in Seq(OpSet)
    BY <1>3, <1>4, OpsAlongType
<1> HIDE DEF x, y
<1>7. (x \o y) \o B = x \o (y \o B) /\ y \o B \in Seq(OpSet)
    BY <1>6, ConcatAssociative, ConcatProperties
<1> QED BY <1>2, <1>4, <1>5, <1>7 DEF r, x, y, Cons, SortedOps

LEMMA PlanTypes ==
    ASSUME TypesOK
    PROVE  /\ Forward(SrcFiles, DstFiles) \subseteq Keys /\ Extras(SrcFiles, DstFiles) \subseteq Keys
           /\ Newer(SrcFiles, DstFiles) \subseteq Keys
           /\ ForwardPlan \in Seq(Keys) /\ BackwardPlan \in Seq(Keys)
           /\ CopyPlan \in Seq(OpSet)
<1>1. DOMAIN SrcFiles \subseteq Keys /\ DOMAIN DstFiles \subseteq Keys
    BY Snapshots DEF IsSnapshot
<1>2. /\ Forward(SrcFiles, DstFiles) \subseteq Keys /\ Extras(SrcFiles, DstFiles) \subseteq Keys
      /\ Newer(SrcFiles, DstFiles) \subseteq Keys
    BY <1>1 DEF Forward, Extras, Newer
<1>3. ForwardPlan \in Seq(Keys)
    BY <1>2, SortedKeys DEF ForwardPlan
<1>4. BackwardPlan \in Seq(Keys)
  <2>1. Sorted(Extras(SrcFiles, DstFiles)) \in Seq(Keys) /\ Sorted(Newer(SrcFiles, DstFiles)) \in Seq(Keys)
      BY <1>2, SortedKeys
  <2>2. <<>> \in Seq(Keys)
      OBVIOUS
  <2> QED BY <2>1, <2>2, ConcatProperties DEF BackwardPlan
<1>5. OpsAlong("src", ForwardPlan) \in Seq(OpSet) /\ OpsAlong("dst", BackwardPlan) \in Seq(OpSet)
    BY <1>3, <1>4, OpsAlongType
<1>6. CopyPlan \in Seq(OpSet)
    BY <1>5, ConcatProperties DEF CopyPlan
<1> QED BY <1>2, <1>3, <1>4, <1>6

LEMMA EmittedType ==
    ASSUME TypesOK
    PROVE  Emitted = Line(out, batch) /\ Emitted \in Seq(OpSet)
<1>1. Emitted = Line(out, batch)
    BY DEF Emitted, Line
<1>2. out \in Seq(AllTasks) /\ batch.entries \in Seq(Copies)
    BY DEF TypesOK, Building, Batch0
<1> QED BY <1>1, <1>2, LineType

(* What does not change after the snapshots.                               *)
LEMMA OrderKept ==
    ASSUME UNCHANGED <<scenario, src, dst>>
    PROVE  /\ UNCHANGED <<CopyPlan, DeletePlan>> /\ Rest(pc, todo)' = Rest(pc', todo')
           /\ Emitted' = Line(out', batch')
<1>1. UNCHANGED <<Mode, SrcFiles, DstFiles, DeletePlan>>
    BY GivenKept
<1>2. \A S : Sorted(S)' = Sorted(S)
    BY DEF Sorted
<1>3. UNCHANGED <<CopyPlan, BackwardPlan>>
    BY <1>1 DEF CopyPlan, ForwardPlan, BackwardPlan
<1>4. \A k : NeedsCopy(k)' = NeedsCopy(k)
    BY <1>1 DEF NeedsCopy
<1>5. Rest(pc, todo)' = Rest(pc', todo')
    BY <1>1, <1>3, <1>4 DEF Rest
<1>6. Emitted' = Line(out', batch')
    BY DEF Emitted, Line
<1> QED BY <1>1, <1>3, <1>5, <1>6

LEMMA PrefixFollows ==
    ASSUME CopyPlan \in Seq(OpSet), Emitted \in Seq(OpSet), Begins(Emitted, CopyPlan)
    PROVE  FollowsPlan
<1>1. /\ DOMAIN Emitted = 1..Len(Emitted) /\ DOMAIN CopyPlan = 1..Len(CopyPlan)
      /\ Len(Emitted) \in Nat /\ Len(CopyPlan) \in Nat
    OBVIOUS
<1>2. \A i \in DOMAIN Emitted : i \in DOMAIN CopyPlan /\ Emitted[i] = CopyPlan[i]
    BY <1>1 DEF Begins
<1> QED BY <1>2 DEF FollowsPlan

(* A step of the loops over copies, or one that ends such a loop: what is  *)
(* added is the first of what is left, and r is left then.                 *)
LEMMA CopyOrdered ==
    ASSUME IInv, IInv', Ordered, pc \in CopyPhases, UNCHANGED <<scenario, src, dst>>,
           NEW new \in Seq(OpSet), NEW r \in Seq(OpSet), Rest(pc, todo) = new \o r,
           InOrder(new), err' # "none" => pc' = "done",
           pc' # "snapshot", pc' \in CopyPhases => Rest(pc', todo') = r,
           pc' \in DeletePhases => r = <<>>
    PROVE  Ordered'
<1> DEFINE P == CopyPlan
           L == Line(out, batch)
           K == Line(out', batch')
           R == Rest(pc, todo)
<1>1. UNCHANGED <<CopyPlan, DeletePlan>> /\ Rest(pc, todo)' = Rest(pc', todo') /\ Emitted' = K
    BY OrderKept
<1>2. Emitted = L /\ L \in Seq(OpSet) /\ P \in Seq(OpSet) /\ L \o R = P
    BY EmittedType, PlanTypes DEF IInv, Ordered
<1>3. /\ K \in Seq(OpSet) /\ Begins(K, L \o new)
      /\ err' = "none" => K = L \o new
    BY DEF InOrder
<1>4. CopyPhases' = CopyPhases /\ DeletePhases' = DeletePhases
    BY DEF CopyPhases, DeletePhases
<1> HIDE DEF P, L, K, R
<1>5. R = new \o r
    BY DEF R
<1>6. (L \o new) \o r = P /\ L \o new \in Seq(OpSet)
  <2>1. (L \o new) \o r = L \o (new \o r)
    <3>1. L \in Seq(OpSet) /\ new \in Seq(OpSet) /\ r \in Seq(OpSet)
        BY <1>2
    <3> QED BY <3>1, ConcatAssociative
  <2>2. L \o new \in Seq(OpSet)
      BY <1>2, ConcatProperties
  <2> QED BY <1>2, <1>5, <2>1, <2>2
<1>7. Begins(L \o new, P)
    BY <1>6, BeginsConcat
<1>8. Begins(K, P)
  <2> DEFINE M == L \o new
  <2>1. M \in Seq(OpSet) /\ Begins(M, P) /\ Begins(K, M)
      BY <1>3, <1>6, <1>7
  <2> HIDE DEF M
  <2> QED BY <1>2, <1>3, <2>1 DEF Begins
<1>9. FollowsPlan'
  <2>1. (CopyPlan \in Seq(OpSet) /\ Emitted \in Seq(OpSet) /\ Begins(Emitted, CopyPlan) => FollowsPlan)'
      BY PrefixFollows, PTL
  <2>2. OpSet' = OpSet /\ Begins(Emitted, CopyPlan)' = Begins(Emitted', CopyPlan')
      BY DEF OpSet, Begins
  <2> QED BY <1>1, <1>2, <1>3, <1>8, <2>1, <2>2 DEF P
<1>10. pc' \in {"snapshot"} \cup CopyPhases => Emitted' \o Rest(pc', todo') = CopyPlan'
  <2> SUFFICES ASSUME pc' \in CopyPhases PROVE K \o r = P
      BY <1>1 DEF P
  <2>1. err' = "none"
      BY DEF CopyPhases
  <2> QED BY <1>3, <1>6, <2>1
<1>11. pc' \in DeletePhases => Emitted' = CopyPlan'
  <2> SUFFICES ASSUME pc' \in DeletePhases PROVE K = P
      BY <1>1 DEF P
  <2>1. err' = "none" /\ r = <<>>
      BY DEF DeletePhases
  <2>2. (L \o new) \o <<>> = L \o new
      BY <1>6
  <2> QED BY <1>3, <1>6, <2>1, <2>2
<1> QED BY <1>1, <1>4, <1>9, <1>10, <1>11 DEF Ordered

(* A turn of one of the loops that call Add, which has to come to the keys *)
(* S, and after it to the keys T, before the operations B.                 *)
LEMMA HandleOrdered ==
    ASSUME IInv, IInv', Ordered, pc \in CopyPhases, NEW k, NEW needed \in BOOLEAN, NEW c,
           NEW side \in {"src", "dst"}, NEW S, S \subseteq Keys, NEW T, NEW B \in Seq(OpSet),
           needed => c \in Copies /\ OpOf(c) = OpOn(side, k) /\ IsLeast(k, S) /\ T = S \ {k},
           ~needed => T = S,
           Rest(pc, todo) = SortedOps(side, S, B), Rest(pc, todo \ {k}) = SortedOps(side, T, B),
           Handle(k, needed, c)
    PROVE  Ordered'
<1> DEFINE r == Rest(pc, todo \ {k})
<1>1. OptsTyped /\ Building(batch) /\ out \in Seq(AllTasks) /\ err = "none"
    BY DEF IInv, TypesOK, Flow, CopyPhases
<1>2. /\ todo' = todo \ {k} /\ UNCHANGED <<scenario, src, dst>>
      /\ pc' = IF err' = "none" THEN pc ELSE "done"
    BY DEF Handle, Proceed, given
<1>3. pc' # "snapshot" /\ pc' \notin DeletePhases /\ (pc' \in CopyPhases => pc' = pc)
    BY <1>2 DEF CopyPhases, DeletePhases
<1>4. pc' \in CopyPhases => Rest(pc', todo') = r
    BY <1>2, <1>3
<1>5. r \in Seq(OpSet)
  <2>1. T \subseteq Keys
      OBVIOUS
  <2>2. OpsAlong(side, Sorted(T)) \in Seq(OpSet)
      BY <2>1, SortedKeys, OpsAlongType
  <2> QED BY <2>2, ConcatProperties DEF SortedOps
<1>6. CASE needed
  <2>1. PICK n \in {c.size} \cup This.changes : Add(c, n)
      BY <1>6 DEF Handle
  <2>2. n \in Nat \cup {Unreadable}
      BY <1>6, Snapshots DEF IInv, Copies
  <2>3. InOrder(<<OpOf(c)>>)
      BY <1>1, <1>6, <2>1, <2>2, AddInOrder
  <2> DEFINE new == <<OpOf(c)>>
  <2>4. new \in Seq(OpSet)
    <3>1. OpOf(c) \in OpSet
        BY <1>6, OpTypes
    <3> QED BY <3>1
  <2>5. Rest(pc, todo) = Cons(OpOf(c), r)
    <3>1. OpOf(c) = OpOn(side, k) /\ IsLeast(k, S) /\ T = S \ {k}
        BY <1>6
    <3>2. SortedOps(side, S, B) = Cons(OpOn(side, k), SortedOps(side, S \ {k}, B))
        BY <3>1, LeastFirst
    <3> QED BY <3>1, <3>2
  <2>6. Rest(pc, todo) = new \o r /\ InOrder(new)
      BY <2>3, <2>5 DEF Cons
  <2> HIDE DEF new, r
  <2> QED BY <1>2, <1>3, <1>4, <1>5, <2>4, <2>6, CopyOrdered
<1>7. CASE ~needed
  <2>1. UNCHANGED <<batch, out, err>>
      BY <1>7 DEF Handle, batcherVars
  <2>2. InOrder(<<>>)
      BY <2>1, IdleInOrder DEF IInv
  <2>3. Rest(pc, todo) = r
      BY <1>7
  <2> HIDE DEF r
  <2>4. r = <<>> \o r /\ <<>> \in Seq(OpSet)
      BY <1>5
  <2>5. Rest(pc, todo) = <<>> \o r
      BY <2>3, <2>4
  <2> QED BY <1>2, <1>3, <1>4, <1>5, <2>2, <2>4, <2>5, CopyOrdered
<1> QED BY <1>6, <1>7

LEMMA LeastTurn == ASSUME todo \subseteq Keys, todo # {} PROVE IsLeast(Next1, todo)
<1>1. todo \subseteq Nat
    BY ScanAssumption
<1>2. \E x \in todo : \A y \in todo : x <= y
    BY <1>1, NatLeast
<1> QED BY <1>2 DEF Next1, IsLeast

LEMMA ForwardStepOrdered == ASSUME IInv, IInv', Ordered, ForwardStep PROVE Ordered'
<1> DEFINE k == Next1
           c == CopyOf("src", k, SrcFiles[k])
           N(t) == {j \in t : NeedsCopy(j)}
           B == OpsAlong("dst", BackwardPlan)
<1>1. pc = "forward" /\ todo # {} /\ Handle(k, NeedsCopy(k), c)
    BY DEF ForwardStep
<1>2. todo \subseteq DOMAIN SrcFiles /\ IsSnapshot(SrcFiles, SrcDirs) /\ todo \subseteq Keys
    BY <1>1, Snapshots DEF IInv, Flow, TodoOf, IsSnapshot
<1>3. IsLeast(k, todo)
    BY <1>1, <1>2, LeastTurn
<1> HIDE DEF k
<1>4. c \in Copies /\ OpOf(c) = OpOn("src", k)
    BY <1>2, <1>3, CopyTypes DEF IsLeast, OpOn
<1> HIDE DEF c
<1>5. \A t : Rest(pc, t) = SortedOps("src", N(t), B)
    BY <1>1 DEF Rest
<1>6. NeedsCopy(k) \in BOOLEAN /\ pc \in CopyPhases
    BY <1>1 DEF NeedsCopy, ShouldCopy, CopyPhases
<1>7. B \in Seq(OpSet)
    BY PlanTypes, OpsAlongType DEF IInv
<1>8. N(todo) \subseteq Keys
    BY <1>2
<1>9. NeedsCopy(k) => IsLeast(k, N(todo)) /\ N(todo \ {k}) = N(todo) \ {k}
    BY <1>3 DEF IsLeast
<1>10. ~NeedsCopy(k) => N(todo \ {k}) = N(todo)
    BY <1>3 DEF IsLeast
<1> HIDE DEF B, N
<1> QED BY <1>1, <1>4, <1>5, <1>6, <1>7, <1>8, <1>9, <1>10, HandleOrdered

LEMMA MissingStepOrdered == ASSUME IInv, IInv', Ordered, MissingStep PROVE Ordered'
<1> DEFINE k == Next1
           c == CopyOf("dst", k, DstFiles[k])
           needed == k \notin DOMAIN SrcFiles
           N(t) == t \ DOMAIN SrcFiles
           B == OpsAlong("dst", Sorted(Newer(SrcFiles, DstFiles)))
<1>1. pc = "missing" /\ todo # {} /\ Handle(k, needed, c)
    BY DEF MissingStep
<1>2. todo \subseteq DOMAIN DstFiles /\ IsSnapshot(DstFiles, DstDirs) /\ todo \subseteq Keys
    BY <1>1, Snapshots DEF IInv, Flow, TodoOf, IsSnapshot
<1>3. IsLeast(k, todo)
    BY <1>1, <1>2, LeastTurn
<1> HIDE DEF k
<1>4. c \in Copies /\ OpOf(c) = OpOn("dst", k)
    BY <1>2, <1>3, CopyTypes DEF IsLeast, OpOn
<1> HIDE DEF c
<1>5. \A t : Rest(pc, t) = SortedOps("dst", N(t), B)
    BY <1>1 DEF Rest
<1>6. needed \in BOOLEAN /\ pc \in CopyPhases
    BY <1>1 DEF CopyPhases
<1>7. B \in Seq(OpSet)
    BY PlanTypes, SortedKeys, OpsAlongType DEF IInv
<1>8. N(todo) \subseteq Keys
    BY <1>2
<1>9. needed => IsLeast(k, N(todo)) /\ N(todo \ {k}) = N(todo) \ {k}
    BY <1>3 DEF IsLeast
<1>10. ~needed => N(todo \ {k}) = N(todo)
    BY <1>3 DEF IsLeast
<1> HIDE DEF B, N, needed
<1> QED BY <1>1, <1>4, <1>5, <1>6, <1>7, <1>8, <1>9, <1>10, HandleOrdered

LEMMA NewerStepOrdered == ASSUME IInv, IInv', Ordered, NewerStep PROVE Ordered'
<1> DEFINE k == Next1
           common == k \in DOMAIN DstFiles
           c == IF common THEN CopyOf("dst", k, DstFiles[k]) ELSE {}
           W == Newer(SrcFiles, DstFiles)
           needed == common /\ DstFiles[k].mtime > SrcFiles[k].mtime
           N(t) == t \cap W
           B == <<>>
<1>1. pc = "newer" /\ todo # {} /\ Handle(k, needed, c)
    BY DEF NewerStep
<1>2. todo \subseteq DOMAIN SrcFiles /\ IsSnapshot(DstFiles, DstDirs) /\ todo \subseteq Keys
    BY <1>1, Snapshots DEF IInv, Flow, TodoOf, IsSnapshot
<1>3. IsLeast(k, todo)
    BY <1>1, <1>2, LeastTurn
<1>4. needed <=> k \in W
    BY <1>2, <1>3 DEF Newer, IsLeast
<1> HIDE DEF k
<1>5. needed => c \in Copies /\ OpOf(c) = OpOn("dst", k)
    BY <1>2, CopyTypes DEF OpOn
<1>6. needed \in BOOLEAN /\ pc \in CopyPhases
    BY <1>1 DEF CopyPhases
<1> HIDE DEF c, needed, W
<1>7. \A t : Rest(pc, t) = SortedOps("dst", N(t), B)
    BY <1>1 DEF Rest, W
<1>8. B \in Seq(OpSet)
    OBVIOUS
<1>9. N(todo) \subseteq Keys
    BY <1>2
<1>10. needed => IsLeast(k, N(todo)) /\ N(todo \ {k}) = N(todo) \ {k}
    BY <1>3, <1>4 DEF IsLeast
<1>11. ~needed => N(todo \ {k}) = N(todo)
    BY <1>3, <1>4 DEF IsLeast
<1> HIDE DEF B, N
<1> QED BY <1>1, <1>5, <1>6, <1>7, <1>8, <1>9, <1>10, <1>11, HandleOrdered

(* A state in which nothing was emitted and all of the plan is left.       *)
LEMMA InitOrdered == ASSUME ScanInit PROVE Ordered
<1>1. pc = "snapshot" /\ batch = Empty /\ out = <<>> /\ IInv
    BY InitInv DEF ScanInit, BatcherInit
<1>2. Emitted = <<>>
  <2> DEFINE f == [i \in DOMAIN <<>> |-> OpsIn(<<>>[i])]
  <2>1. f = <<>>
      OBVIOUS
  <2>2. LogOf(<<>>) = <<>>
      BY <2>1, FlattenEmpty DEF LogOf
  <2>3. OpSeq(<<>>) = <<>>
      BY DEF OpSeq
  <2> QED BY <1>1, <2>2, <2>3 DEF Emitted, Empty
<1>3. Emitted \o Rest(pc, todo) = CopyPlan
  <2>1. Rest(pc, todo) = CopyPlan /\ CopyPlan \in Seq(OpSet)
      BY <1>1, PlanTypes DEF Rest, IInv
  <2> QED BY <1>2, <2>1
<1>4. FollowsPlan
    BY <1>2 DEF FollowsPlan
<1> QED BY <1>1, <1>3, <1>4 DEF Ordered, DeletePhases

LEMMA StutterOrdered ==
    ASSUME Ordered, UNCHANGED <<scenario, src, dst, pc, todo, out, batch>> PROVE Ordered'
<1>1. /\ UNCHANGED <<CopyPlan, DeletePlan>> /\ Rest(pc, todo)' = Rest(pc, todo)
      /\ Emitted' = Emitted
    BY OrderKept DEF Emitted, Line
<1>2. UNCHANGED PendingDeletes /\ CopyPhases' = CopyPhases /\ DeletePhases' = DeletePhases
  <2>1. UNCHANGED <<SrcDirs, DstDirs>>
      BY GivenKept
  <2> QED BY <2>1 DEF PendingDeletes, CopyPhases, DeletePhases
<1> QED BY <1>1, <1>2 DEF Ordered, FollowsPlan

(* What the first loop has before it is all of the copies.                 *)
LEMMA RestForward == Rest("forward", DOMAIN SrcFiles) = CopyPlan
<1>1. {k \in DOMAIN SrcFiles : NeedsCopy(k)} = Forward(SrcFiles, DstFiles)
    BY DEF NeedsCopy, Forward
<1>2. Rest("forward", DOMAIN SrcFiles)
          = SortedOps("src", {k \in DOMAIN SrcFiles : NeedsCopy(k)}, OpsAlong("dst", BackwardPlan))
    BY DEF Rest
<1> QED BY <1>1, <1>2 DEF SortedOps, CopyPlan, ForwardPlan

LEMMA SnapshotOrdered == ASSUME IInv, Ordered, Snapshot PROVE Ordered'
<1>1. pc = "snapshot" /\ UNCHANGED <<scenario, src, dst, batch, out>>
      /\ \/ pc' = "done"
         \/ pc' = "forward" /\ todo' = DOMAIN SrcFiles
    BY DEF Snapshot, SrcFiles
<1>2. /\ UNCHANGED <<CopyPlan, DeletePlan>> /\ Rest(pc, todo)' = Rest(pc', todo')
      /\ Emitted' = Emitted
    BY <1>1, OrderKept DEF Emitted, Line
<1>3. Emitted \o CopyPlan = CopyPlan
    BY <1>1 DEF Ordered, Rest
<1>4. SrcFiles' = SrcFiles
    BY <1>1, GivenKept
<1>5. pc' = "forward" => Rest(pc', todo') = CopyPlan
    BY <1>1, RestForward
<1>6. FollowsPlan'
    BY <1>2 DEF Ordered, FollowsPlan
<1> QED BY <1>1, <1>2, <1>3, <1>5, <1>6 DEF Ordered, CopyPhases, DeletePhases

(* The empty rest of a loop.                                               *)
LEMMA SortedOpsEmpty ==
    ASSUME NEW side, NEW B \in Seq(OpSet) PROVE SortedOps(side, {}, B) = B
<1>1. OpsAlong(side, Sorted({})) = <<>>
    BY SortedEmpty DEF OpsAlong
<1> QED BY <1>1 DEF SortedOps

LEMMA Rests ==
    ASSUME TypesOK
    PROVE  /\ Rest("forward", {}) = OpsAlong("dst", BackwardPlan)
           /\ Rest("forward", {}) \in Seq(OpSet)
           /\ Mode = "sync" => Rest("missing", DOMAIN DstFiles) = Rest("forward", {})
           /\ Mode # "sync" => Rest("forward", {}) = <<>>
           /\ Rest("newer", DOMAIN SrcFiles) = Rest("missing", {})
           /\ Rest("missing", {}) \in Seq(OpSet)
           /\ Rest("newer", {}) = <<>>
<1> DEFINE W == Newer(SrcFiles, DstFiles)
           X == Extras(SrcFiles, DstFiles)
           B == OpsAlong("dst", BackwardPlan)
           e == <<>>
<1>1. /\ Sorted(W) \in Seq(Keys) /\ Sorted(X) \in Seq(Keys) /\ B \in Seq(OpSet)
      /\ OpsAlong("dst", Sorted(W)) \in Seq(OpSet)
    BY PlanTypes, SortedKeys, OpsAlongType
<1>2. Rest("forward", {}) = B
  <2>1. Rest("forward", {}) = SortedOps("src", {k \in {} : NeedsCopy(k)}, B)
      BY DEF Rest
  <2>2. {k \in {} : NeedsCopy(k)} = {}
      OBVIOUS
  <2> HIDE DEF B
  <2> QED BY <1>1, <2>1, <2>2, SortedOpsEmpty
<1>3. ASSUME Mode = "sync" PROVE Rest("missing", DOMAIN DstFiles) = B
  <2>1. BackwardPlan = Sorted(X) \o Sorted(W)
      BY <1>3 DEF BackwardPlan
  <2>2. Rest("missing", DOMAIN DstFiles) = SortedOps("dst", X, OpsAlong("dst", Sorted(W)))
      BY DEF Rest, Extras
  <2>3. OpsAlong("dst", Sorted(X) \o Sorted(W)) = OpsAlong("dst", Sorted(X)) \o OpsAlong("dst", Sorted(W))
    <3> DEFINE s == Sorted(X)
               t == Sorted(W)
    <3>1. s \in Seq(Keys) /\ t \in Seq(Keys)
        BY <1>1
    <3> HIDE DEF s, t
    <3>2. OpsAlong("dst", s \o t) = OpsAlong("dst", s) \o OpsAlong("dst", t)
        BY <3>1, OpsAlongConcat
    <3> QED BY <3>2 DEF s, t
  <2> QED BY <2>1, <2>2, <2>3 DEF SortedOps
<1>4. Mode # "sync" => B = <<>>
    BY DEF BackwardPlan, OpsAlong
<1>5. Rest("missing", {}) = OpsAlong("dst", Sorted(W))
  <2> DEFINE D == OpsAlong("dst", Sorted(W))
  <2>1. Rest("missing", {}) = SortedOps("dst", {} \ DOMAIN SrcFiles, D)
      BY DEF Rest
  <2>2. {} \ DOMAIN SrcFiles = {} /\ D \in Seq(OpSet)
      BY <1>1
  <2> HIDE DEF D
  <2>3. Rest("missing", {}) = D
      BY <2>1, <2>2, SortedOpsEmpty
  <2> QED BY <2>3 DEF D
<1>6. Rest("newer", DOMAIN SrcFiles) = OpsAlong("dst", Sorted(W))
  <2>1. DOMAIN SrcFiles \cap W = W
      BY DEF Newer
  <2>2. Rest("newer", DOMAIN SrcFiles) = SortedOps("dst", DOMAIN SrcFiles \cap W, e)
      BY DEF Rest
  <2> DEFINE D == OpsAlong("dst", Sorted(W))
  <2>3. Rest("newer", DOMAIN SrcFiles) = D \o <<>>
      BY <2>1, <2>2 DEF SortedOps
  <2>4. D \in Seq(OpSet)
      BY <1>1
  <2> HIDE DEF D
  <2>5. D \o <<>> = D
      BY <2>4
  <2>6. Rest("newer", DOMAIN SrcFiles) = D
      BY <2>3, <2>5
  <2> QED BY <2>6 DEF D
<1>7. Rest("newer", {}) = <<>>
  <2>1. Rest("newer", {}) = SortedOps("dst", {} \cap W, e)
      BY DEF Rest
  <2>2. {} \cap W = {} /\ e \in Seq(OpSet)
      OBVIOUS
  <2> HIDE DEF e
  <2>3. Rest("newer", {}) = e
      BY <2>1, <2>2, SortedOpsEmpty
  <2> QED BY <2>3 DEF e
<1> HIDE DEF B, e
<1> QED BY <1>1, <1>2, <1>3, <1>4, <1>5, <1>6, <1>7 DEF B

(* The end of a loop over copies, which at most flushes.                   *)
LEMMA EndOrdered ==
    ASSUME IInv, IInv', Ordered, pc \in CopyPhases, UNCHANGED <<scenario, src, dst>>,
           InOrder(<<>>), err' # "none" => pc' = "done",
           NEW r \in Seq(OpSet), Rest(pc, todo) = r,
           pc' # "snapshot", pc' \in CopyPhases => Rest(pc', todo') = r,
           pc' \in DeletePhases => r = <<>>
    PROVE  Ordered'
<1> DEFINE new == <<>>
<1>1. new \in Seq(OpSet) /\ InOrder(new)
    OBVIOUS
<1>2. Rest(pc, todo) = new \o r
  <2>1. r = <<>> \o r
      OBVIOUS
  <2> QED BY <2>1
<1> HIDE DEF new
<1> QED BY <1>1, <1>2, CopyOrdered

LEMMA ForwardEndOrdered == ASSUME IInv, IInv', Ordered, ForwardEnd PROVE Ordered'
<1>1. /\ pc = "forward" /\ todo = {} /\ Flush /\ UNCHANGED given
      /\ err' # "none" => pc' = "done" /\ todo' = {}
      /\ err' = "none" =>
            CASE Mode = "update" -> pc' = "done" /\ UNCHANGED todo
              [] Mode = "mirror" -> /\ pc' = "deleteFiles"
                                    /\ todo' = Extras(SrcFiles, DstFiles)
              [] Mode = "sync"   -> /\ pc' = "missing"
                                    /\ todo' = DOMAIN DstFiles
    BY DEF ForwardEnd
<1>2. OptsTyped /\ Building(batch) /\ err = "none" /\ out \in Seq(AllTasks) /\ TypesOK
    BY <1>1 DEF IInv, TypesOK, Flow
<1>3. InOrder(<<>>)
    BY <1>1, <1>2, FlushInOrder
<1>4. Mode \in {"update", "mirror", "sync"}
    BY <1>2, Snapshots
<1> DEFINE r == Rest("forward", {})
<1>5. r \in Seq(OpSet) /\ Rest(pc, todo) = r
    BY <1>1, <1>2, Rests
<1>6. /\ pc' \in CopyPhases => Rest(pc', todo') = r
      /\ pc' \in DeletePhases => r = <<>>
      /\ pc' # "snapshot"
    BY <1>1, <1>2, <1>4, Rests DEF CopyPhases, DeletePhases
<1>7. pc \in CopyPhases /\ UNCHANGED <<scenario, src, dst>>
    BY <1>1 DEF CopyPhases, given
<1> HIDE DEF r
<1> QED BY <1>1, <1>3, <1>5, <1>6, <1>7, EndOrdered

LEMMA MissingEndOrdered == ASSUME IInv, IInv', Ordered, MissingEnd PROVE Ordered'
<1>1. /\ pc = "missing" /\ todo = {} /\ pc' = "newer" /\ todo' = DOMAIN SrcFiles
      /\ UNCHANGED given /\ UNCHANGED <<batch, out, err>> /\ TypesOK /\ err = "none"
    BY DEF MissingEnd, batcherVars, IInv, Flow
<1>2. InOrder(<<>>)
    BY <1>1, IdleInOrder
<1> DEFINE r == Rest("missing", {})
<1>3. r \in Seq(OpSet) /\ Rest(pc, todo) = r /\ Rest(pc', todo') = r
    BY <1>1, Rests
<1>4. pc \in CopyPhases /\ UNCHANGED <<scenario, src, dst>> /\ pc' \notin DeletePhases
    BY <1>1 DEF CopyPhases, DeletePhases, given
<1> HIDE DEF r
<1> QED BY <1>1, <1>2, <1>3, <1>4, EndOrdered

LEMMA NewerEndOrdered == ASSUME IInv, IInv', Ordered, NewerEnd PROVE Ordered'
<1>1. /\ pc = "newer" /\ todo = {} /\ Flush /\ pc' = "done" /\ UNCHANGED given
    BY DEF NewerEnd
<1>2. OptsTyped /\ Building(batch) /\ err = "none" /\ out \in Seq(AllTasks) /\ TypesOK
    BY <1>1 DEF IInv, TypesOK, Flow
<1>3. InOrder(<<>>)
    BY <1>1, <1>2, FlushInOrder
<1> DEFINE r == Rest("newer", {})
<1>4. r \in Seq(OpSet) /\ Rest(pc, todo) = r
  <2>1. r = <<>> /\ Rest(pc, todo) = r
      BY <1>1, <1>2, Rests
  <2>2. <<>> \in Seq(OpSet)
      OBVIOUS
  <2> HIDE DEF r
  <2> QED BY <2>1, <2>2
<1>5. pc \in CopyPhases /\ UNCHANGED <<scenario, src, dst>> /\ pc' \notin CopyPhases
      /\ pc' \notin DeletePhases
    BY <1>1 DEF CopyPhases, DeletePhases, given
<1> HIDE DEF r
<1> QED BY <1>1, <1>3, <1>4, <1>5, EndOrdered

(* A delete comes after all that was emitted.                              *)
LEMMA DeleteStepOrdered ==
    ASSUME IInv, Ordered, pc \in DeletePhases, NEW k, k \in todo,
           out' = Append(out, DeleteTask(k)), todo' = todo \ {k},
           UNCHANGED given, UNCHANGED <<pc, batch, err>>
    PROVE  Ordered'
<1> DEFINE t == DeleteTask(k)
           x == [from |-> "delete", key |-> k]
           P == CopyPlan
           L == Emitted
           K == Emitted'
<1>1. /\ err = "none" /\ out \in Seq(AllTasks) /\ UNCHANGED <<scenario, src, dst>>
      /\ PendingAt(pc, todo) \subseteq Planned /\ todo \subseteq TodoOf(pc) /\ batch = Empty /\ TypesOK
    BY DEF IInv, TypesOK, Flow, Coverage, DeletePhases, given
<1>2. IsSnapshot(DstFiles, DstDirs) /\ TodoOf(pc) \subseteq Keys
    BY <1>1, Snapshots DEF TodoOf, IsSnapshot, DeletePhases
<1>3. t \in AllTasks /\ OpsIn(t) = <<x>>
    BY <1>1, <1>2 DEF AllTasks, DeleteTasks, DeleteTask, OpsIn
<1>4. /\ UNCHANGED <<CopyPlan, DeletePlan>> /\ Emitted' = Line(out', batch')
      /\ UNCHANGED <<SrcDirs, DstDirs>>
    BY <1>1, OrderKept, GivenKept
<1>5. L = LogOf(out) /\ L \in Seq(OpSet) /\ K = LogOf(out')
  <2>1. batch.entries = <<>> /\ batch'.entries = <<>> /\ out' \in Seq(AllTasks)
      BY <1>1, <1>3 DEF Empty
  <2> QED BY <1>1, <1>4, <2>1, EmittedType, LineEmpty
<1> HIDE DEF t
<1>6. K = L \o <<x>>
    BY <1>1, <1>3, <1>5, LogAppend DEF t
<1>7. P \in Seq(OpSet)
    BY <1>1, PlanTypes
<1>8. x \in Ops("delete", DeletePlan)
  <2>1. x \in PendingAt(pc, todo)
      BY DEF PendingAt, Ops, DeletePhases
  <2>2. x \in Planned
      BY <1>1, <2>1
  <2> QED BY <2>2 DEF Planned, Ops
<1>9. x \in Ops("delete", PendingDeletes)
    BY DEF PendingDeletes, Ops, DeletePhases
<1>10. PendingDeletes' \subseteq PendingDeletes /\ k \notin PendingDeletes'
  <2>1. CASE pc = "deleteFiles"
    <3>1. k \notin DstDirs
        BY <1>1, <1>2, <2>1 DEF TodoOf, IsSnapshot
    <3> QED BY <1>4, <2>1, <3>1 DEF PendingDeletes
  <2>2. CASE pc = "deleteDirs"
      BY <2>2 DEF PendingDeletes
  <2> QED BY <2>1, <2>2 DEF DeletePhases
<1>11. x \notin Ops("delete", PendingDeletes')
    BY <1>10 DEF Ops
<1>12. Ops("delete", PendingDeletes') \subseteq Ops("delete", PendingDeletes)
    BY <1>10 DEF Ops
<1>13. /\ \A i \in DOMAIN L : IF i \in DOMAIN P THEN L[i] = P[i] ELSE L[i] \in Ops("delete", DeletePlan)
       /\ \A i, j \in DOMAIN L \ DOMAIN P : L[i] = L[j] => i = j
       /\ DOMAIN P \subseteq DOMAIN L
       /\ \A i \in DOMAIN L \ DOMAIN P : L[i] \notin Ops("delete", PendingDeletes)
    BY DEF Ordered, FollowsPlan
<1> DEFINE n == Len(L)
           D == Ops("delete", DeletePlan)
           Q == Ops("delete", PendingDeletes)
           R == Ops("delete", PendingDeletes')
<1> HIDE DEF K, L, x, D, Q, R
<1>14. /\ n \in Nat /\ DOMAIN L = 1..n /\ DOMAIN K = 1..(n + 1)
       /\ (\A i \in 1..n : K[i] = L[i]) /\ K[n + 1] = x
    BY <1>5, <1>6, <1>8 DEF x, OpSet
<1> HIDE DEF n, P
<1>15. n + 1 \notin DOMAIN P /\ \A i \in DOMAIN K : i \in DOMAIN L \/ i = n + 1
    BY <1>13, <1>14
<1>16. \A i \in DOMAIN K : IF i \in DOMAIN P THEN K[i] = P[i] ELSE K[i] \in D
    BY <1>8, <1>13, <1>14, <1>15 DEF D
<1>17. \A i \in DOMAIN K \ DOMAIN P : K[i] \notin R
    BY <1>11, <1>12, <1>13, <1>14, <1>15 DEF Q, R
<1>18. \A i, j \in DOMAIN K \ DOMAIN P : K[i] = K[j] => i = j
  <2> SUFFICES ASSUME NEW i \in DOMAIN K \ DOMAIN P, NEW j \in DOMAIN K \ DOMAIN P, K[i] = K[j]
               PROVE  i = j
      OBVIOUS
  <2>1. \A h \in DOMAIN L \ DOMAIN P : L[h] # x
      BY <1>9, <1>13
  <2> QED BY <1>13, <1>14, <1>15, <2>1
<1>19. DOMAIN P \subseteq DOMAIN K
    BY <1>13, <1>14
<1>20. FollowsPlan'
    BY <1>4, <1>16, <1>18 DEF FollowsPlan, K, D, P
<1>21. Ops("delete", PendingDeletes)' = R
    BY DEF Ops, R
<1>22. pc' \notin {"snapshot"} \cup CopyPhases'
    BY DEF CopyPhases, DeletePhases
<1> QED BY <1>4, <1>17, <1>19, <1>20, <1>21, <1>22 DEF Ordered, K, P

LEMMA DeleteEndOrdered ==
    ASSUME Ordered, pc \in DeletePhases, UNCHANGED given, UNCHANGED <<batch, out, err>>,
           pc' \in {"deleteDirs", "done"}, PendingDeletes' \subseteq PendingDeletes
    PROVE  Ordered'
<1>1. /\ UNCHANGED <<CopyPlan, DeletePlan>> /\ Emitted' = Emitted
    BY OrderKept DEF Emitted, Line, given
<1>2. FollowsPlan'
    BY <1>1 DEF Ordered, FollowsPlan
<1>3. pc' \notin {"snapshot"} \cup CopyPhases'
    BY DEF CopyPhases
<1>4. Ops("delete", PendingDeletes)' \subseteq Ops("delete", PendingDeletes)
    BY DEF Ops
<1> QED BY <1>1, <1>2, <1>3, <1>4 DEF Ordered

LEMMA DeletesOrdered ==
    ASSUME IInv, Ordered, DeleteFile \/ DeleteDir \/ DeleteFilesEnd \/ DeleteDirsEnd
    PROVE  Ordered'
<1>1. CASE DeleteFile
  <2>1. PICK k \in todo : out' = Append(out, DeleteTask(k)) /\ todo' = todo \ {k}
      BY <1>1 DEF DeleteFile
  <2>2. pc \in DeletePhases /\ UNCHANGED given /\ UNCHANGED <<pc, batch, err>>
      BY <1>1 DEF DeleteFile, DeletePhases
  <2> QED BY <2>1, <2>2, DeleteStepOrdered
<1>2. CASE DeleteDir
  <2>1. PICK k \in Longest : out' = Append(out, DeleteTask(k)) /\ todo' = todo \ {k}
      BY <1>2 DEF DeleteDir
  <2>2. pc \in DeletePhases /\ UNCHANGED given /\ UNCHANGED <<pc, batch, err>> /\ k \in todo
      BY <1>2 DEF DeleteDir, DeletePhases, Longest
  <2> QED BY <2>1, <2>2, DeleteStepOrdered
<1>3. CASE DeleteFilesEnd
  <2>1. /\ pc = "deleteFiles" /\ pc' = "deleteDirs" /\ todo' = DstDirs \ SrcDirs
        /\ UNCHANGED given /\ UNCHANGED <<batch, out, err>>
      BY <1>3 DEF DeleteFilesEnd, batcherVars
  <2>2. PendingDeletes' \subseteq PendingDeletes /\ pc \in DeletePhases
      BY <2>1 DEF PendingDeletes, DeletePhases
  <2> QED BY <2>1, <2>2, DeleteEndOrdered
<1>4. CASE DeleteDirsEnd
  <2>1. /\ pc = "deleteDirs" /\ pc' = "done"
        /\ UNCHANGED given /\ UNCHANGED <<batch, out, err>>
      BY <1>4 DEF DeleteDirsEnd, batcherVars
  <2>2. PendingDeletes' \subseteq PendingDeletes /\ pc \in DeletePhases
      BY <2>1 DEF PendingDeletes, DeletePhases
  <2> QED BY <2>1, <2>2, DeleteEndOrdered
<1> QED BY <1>1, <1>2, <1>3, <1>4

(* Whatever is batched, flushed or dropped after an error, the operations  *)
(* sent, followed by those in the batch, are the beginning of the plan.    *)
THEOREM PlanIsFollowed == Spec => []FollowsPlan
<1>1. ASSUME IInv, IInv', Ordered, [Next]_scanVars PROVE Ordered'
  <2>1. CASE UNCHANGED scanVars
      BY <1>1, <2>1, StutterOrdered DEF scanVars, given, batcherVars
  <2> QED BY <1>1, <2>1, SnapshotOrdered, ForwardStepOrdered, ForwardEndOrdered, DeletesOrdered,
             MissingStepOrdered, MissingEndOrdered, NewerStepOrdered, NewerEndOrdered
             DEF Next
<1>2. ScanInit => Ordered
    BY InitOrdered
<1>3. Ordered => FollowsPlan
    BY DEF Ordered
<1> QED BY <1>1, <1>2, <1>3, IInvariance, PTL DEF Spec
=============================================================================
