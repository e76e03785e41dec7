----------------------------- MODULE Histogram -----------------------------
(***************************************************************************)
(* The latency histogram of bench/include/leaper_bench/histogram.h and the *)
(* percentile of the difference of two snapshots.  Buckets are one wide    *)
(* below kLinearMax and 1/kSubBuckets of an octave above; the last bucket  *)
(* takes everything beyond the last octave.                                *)
(*                                                                         *)
(* A snapshot is a function from buckets to counts.  A share p is a        *)
(* percentage.                                                             *)
(***************************************************************************)
EXTENDS Integers, FiniteSetsExt, SequencesExt

CONSTANTS kSubBucketBits, kOctaves

ASSUME HistogramAssumption == kSubBucketBits \in Nat \ {0} /\ kOctaves \in Nat \ {0}

kSubBuckets == 2 ^ kSubBucketBits
kLinearMax == 2 * kSubBuckets
kNumBuckets == kLinearMax + kOctaves * kSubBuckets
Buckets == 0 .. kNumBuckets - 1

Log2(us) == CHOOSE e \in 0 .. us : 2 ^ e <= us /\ us < 2 ^ (e + 1)

Octave(e) == e - (kSubBucketBits + 1)

BucketOf(us) ==
    IF us < kLinearMax THEN us
    ELSE LET e   == Log2(us)
             m   == (us \div 2 ^ (e - kSubBucketBits)) % kSubBuckets
             idx == kLinearMax + Octave(e) * kSubBuckets + m
         IN  IF idx < kNumBuckets THEN idx ELSE kNumBuckets - 1

ValueOf(bucket) ==
    IF bucket < kLinearMax THEN bucket
    ELSE LET rel == bucket - kLinearMax
             e   == kSubBucketBits + 1 + rel \div kSubBuckets
         IN  (kSubBuckets + (rel % kSubBuckets)) * 2 ^ (e - kSubBucketBits)

Add(h, us) == [h EXCEPT ![BucketOf(us)] = @ + 1]

(* One histogram per worker thread, accumulated into one snapshot. *)
AccumulateInto(out, h) == [b \in Buckets |-> out[b] + h[b]]

Empty == [b \in Buckets |-> 0]

Seen(cur, prev, b) == FoldLeft(LAMBDA s, i : s + cur[i - 1] - prev[i - 1], 0, [i \in 1 .. b + 1 |-> i])

Total(cur, prev) == Seen(cur, prev, kNumBuckets - 1)

(* A slip: the rank is rounded up. *)
TargetUp(total, p) == (total * p) \div 100 + 1

Target(total, p) == (total * p) \div 100

(* The first bucket at which enough samples have been seen.  A target of 0 *)
(* is met by the first bucket, sample or not.                              *)
Percentile(cur, prev, p) ==
    LET total  == Total(cur, prev)
        enough == {b \in Buckets : Seen(cur, prev, b) >= Target(total, p)}
    IN  IF total = 0 THEN 0
        ELSE ValueOf(IF enough = {} THEN kNumBuckets - 1 ELSE Min(enough))

-----------------------------------------------------------------------------
(* Reference definition: the rank-th smallest of the samples. *)
OrderStatistic(samples, rank) == SortSeq(samples, LAMBDA x, y : x < y)[rank]

(* What lies in a bucket's octave of the histogram's range. *)
Limit == 2 ^ (kSubBucketBits + 1 + kOctaves)
Resolution(us) == IF us < kLinearMax THEN 1 ELSE 2 ^ (Log2(us) - kSubBucketBits)

(* The percentile of an interval is its exact order statistic, rounded     *)
(* down by less than one bucket; it is 0 for a share of the samples that   *)
(* rounds to none of them.                                                 *)
Brackets(value, samples, p) ==
    LET rank == (Len(samples) * p) \div 100
    IN  IF rank = 0 THEN value = 0
        ELSE LET exact == OrderStatistic(samples, rank)
             IN  value <= exact /\ (exact < Limit => exact < value + Resolution(exact))
=============================================================================
