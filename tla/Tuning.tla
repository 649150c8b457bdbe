------------------------------- MODULE Tuning -------------------------------
(***************************************************************************)
(* tuneBatchingOptions (internal/scanner/scanner.go): before the batcher   *)
(* is made, and only if batching was asked to be tuned and no limit was    *)
(* given by hand, the limits are computed from the sizes of the files at   *)
(* the source.  The sizes come out of a map, in any order, and are sorted. *)
(***************************************************************************)
EXTENDS Integers, SequencesExt

KB == 1024
MB == 1024 * KB

SmallFileCutoff == 512 * KB
MinThreshold    == 4 * KB
MinSmallFiles   == 4

AtLeast(x, low) == IF x < low THEN low ELSE x
AtMost(x, high) == IF x > high THEN high ELSE x
OrElse(x, y)    == IF x <= 0 THEN y ELSE x

(* percentileInt64(data, num/10) for 0 < num < 10, data sorted and not     *)
(* empty.  math.Ceil of the float product is exact: the error of 0.9 is    *)
(* below half a unit in the last place of the product.                     *)
Percentile(data, num) == data[(num * Len(data) + 9) \div 10]

(* Mutated form of Small: the order of the map iteration is kept. *)
SmallUnsorted(s) ==
    LET small   == {i \in DOMAIN s : s[i] <= SmallFileCutoff}
        rank(i) == Cardinality({j \in small : j <= i})
    IN  [r \in 1..Cardinality(small) |-> s[CHOOSE i \in small : rank(i) = r]]

(* The sizes, each under a number, in increasing order. *)
Small(s) ==
    LET small   == {i \in DOMAIN s : s[i] <= SmallFileCutoff}
        rank(i) == Cardinality({j \in small : s[j] < s[i] \/ (s[j] = s[i] /\ j <= i)})
    IN  [r \in 1..Cardinality(small) |-> s[CHOOSE i \in small : rank(i) = r]]

AvgSmall(small) == OrElse(SumFunction(small) \div Len(small), 1)
Median(small)   == OrElse(Percentile(small, 5), AvgSmall(small))
P90(small)      == OrElse(Percentile(small, 9), Median(small))

(* Mutated form of Threshold: the cutoff is applied before the minimum of  *)
(* twice the median.                                                       *)
ThresholdUncapped(median, p90) ==
    AtLeast(AtLeast(AtMost(p90, SmallFileCutoff), 2 * median), MinThreshold)

Threshold(median, p90) ==
    AtMost(AtLeast(AtLeast(p90, 2 * median), MinThreshold), SmallFileCutoff)

TargetBytes(avg, threshold) ==
    AtLeast(AtMost(AtLeast(64 * avg, MB), 8 * MB), 4 * threshold)

MaxFiles(avg, target) == AtMost(AtLeast(target \div avg, 8), 512)

Manual(o) == o.threshold > 0 \/ o.maxFiles > 0 \/ o.maxBytes > 0

(* The options that batching is done with. *)
Tuned(o, s) ==
    LET small     == Small(s)
        avg       == AvgSmall(small)
        threshold == Threshold(Median(small), P90(small))
        target    == TargetBytes(avg, threshold)
    IN  IF ~o.auto \/ Manual(o) \/ Len(small) < MinSmallFiles
        THEN o
        ELSE [o EXCEPT !.threshold = threshold,
                       !.maxFiles  = MaxFiles(avg, target),
                       !.maxBytes  = target]
=============================================================================
