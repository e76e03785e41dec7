------------------------------- MODULE KeyGen -------------------------------
(***************************************************************************)
(* The key distributions of bench/include/leaper_bench/keygen.h, as        *)
(* operators on integers.  The random generator and the hashes (SplitMix,  *)
(* Mix, FnvHash64) are inputs: whatever they return, a draw must be a key  *)
(* of the key space, in the region the distribution chose for it.          *)
(*                                                                         *)
(* Probabilities are numerators over a common denominator and times are    *)
(* ticks; the floors the code takes of doubles are integer divisions.      *)
(***************************************************************************)
EXTENDS Integers, FiniteSetsExt, SequencesExt

(* ZipfianRank::Next: the two first ranks are special, the others clamped. *)
ZipfRank(n, raw) == IF raw < n THEN raw ELSE n - 1
ZipfRanks(n, raws) == {0, 1} \cup {ZipfRank(n, r) : r \in raws}

-----------------------------------------------------------------------------
(* MixgraphChooser.  c.p holds the key ranges' probabilities in the order  *)
(* of the constructor's loop, over c.denom; c.swaps the shuffle's targets. *)
Num(c) == Len(c.p)

RangeKeys(c) == IF c.n \div Num(c) = 0 THEN 1 ELSE c.n \div Num(c)

(* The first positive probability fixes the scale. *)
Amplify(c) ==
    LET pos == {i \in DOMAIN c.p : c.p[i] > 0}
    IN  IF pos = {} THEN 0 ELSE c.denom \div c.p[Min(pos)] + 1

Shuffle(units, swaps) ==
    LET Swap(u, i) ==
          [j \in DOMAIN u |-> CASE j = i -> u[swaps[i]]
                                [] j = swaps[i] /\ j # i -> u[i]
                                [] OTHER -> u[j]]
    IN  FoldLeft(Swap, units, [i \in DOMAIN units |-> i])

(* The accesses of each unit, in key-space order. *)
Access(c) == Shuffle([i \in DOMAIN c.p |-> (Amplify(c) * c.p[i]) \div c.denom], c.swaps)

SumTo(s, i) == FoldLeft(LAMBDA a, x : a + x, 0, SubSeq(s, 1, i))

(* A slip: the starts are those of the order before the shuffle. *)
StartsUnshuffled(c) ==
    LET a == [i \in DOMAIN c.p |-> (Amplify(c) * c.p[i]) \div c.denom]
    IN  [i \in DOMAIN c.p |-> SumTo(a, i - 1)]

Starts(c) == [i \in DOMAIN c.p |-> SumTo(Access(c), i - 1)]

RandMax(c) == LET total == SumTo(Access(c), Num(c)) IN IF total > 0 THEN total ELSE 1

(* The unit a draw falls into, by halving; numbered from 0. *)
UnitOf(c, kr) ==
    LET start == Starts(c)
        search[lo \in 0 .. Num(c), hi \in 0 .. Num(c)] ==
          LET mid == lo + (hi - lo) \div 2
          IN  IF lo + 1 >= hi THEN lo
              ELSE IF kr < start[mid + 1] THEN search[lo, mid]
              ELSE search[mid, hi]
    IN  search[0, Num(c)]

MixgraphNext(c, ini, offset) == (RangeKeys(c) * UnitOf(c, ini % RandMax(c)) + offset) % c.n

-----------------------------------------------------------------------------
(* LifecycleChooser.  Mix is three tables: the phase of a slot, the range  *)
(* a slot starts a generation with, the range that follows another.        *)
NRanges(c) == IF c.n \div c.range_size = 0 THEN 1 ELSE c.n \div c.range_size

ChainLen(c) == IF c.chain > 1 THEN c.chain ELSE 1

Members(c) == 0 .. c.hot_slots * ChainLen(c) - 1

Slot(c, m) == m \div ChainLen(c)
Position(c, m) == m % ChainLen(c)

Shifted(c, m, t) == t + c.phase[Slot(c, m)]
Generation(c, m, t) == Shifted(c, m, t) \div c.lifetime
Age(c, m, t) == Shifted(c, m, t) % c.lifetime

Lag(c) == IF ChainLen(c) > 1 THEN c.lag ELSE 0

Width(c) ==
    LET w == c.lifetime - Lag(c) * (ChainLen(c) - 1) IN IF w > 0 THEN w ELSE c.lifetime

(* The trapezoid is positive strictly inside the member's window; how high *)
(* it is there only decides how often the member is drawn.                 *)
Active(c, m, t) ==
    LET v == Age(c, m, t) - Lag(c) * Position(c, m) IN 0 < v /\ v < Width(c)

MemberRange(c, m, t) ==
    LET follow[j \in 0 .. ChainLen(c)] ==
          IF j = 0 THEN c.first[Slot(c, m), Generation(c, m, t)] % NRanges(c)
          ELSE c.successor[follow[j - 1]] % NRanges(c)
    IN  follow[Position(c, m)]

(* A member is drawn and kept with its weight; a run of refusals, like the *)
(* cold share, ends in a uniform draw.                                     *)
LifecycleHot(c, m, t, off) == (MemberRange(c, m, t) * c.range_size + off) % c.n

-----------------------------------------------------------------------------
(* KeyChooser.  Origin: where the hot region starts. *)
Phase(c, t) == IF c.phases > 1 /\ c.phase_period > 0 THEN (t \div c.phase_period) % c.phases ELSE 0

PhaseOffset(c, t) == IF c.phases > 1 THEN Phase(c, t) * (c.n \div c.phases) ELSE 0

Origin(c, t) == (c.hotspot + ((c.shift * t) % c.n) + PhaseOffset(c, t)) % c.n

ZipfNext(c, t, rank) == (Origin(c, t) + rank) % c.n

-----------------------------------------------------------------------------
(* Reference definitions. *)
Nondecreasing(s) == \A i \in 1 .. Len(s) - 1 : s[i] <= s[i + 1]

(* A draw of the mixgraph is a key, and each range gets exactly its share  *)
(* of the draws; with the fitted, monotone probabilities no range that has *)
(* one is left out.                                                        *)
MixgraphExact(c) ==
    LET a == Access(c)
        draws == 0 .. RandMax(c) - 1
    IN  /\ \A kr \in draws, off \in 0 .. RangeKeys(c) - 1 :
             LET k == MixgraphNext(c, kr, off)
             IN  k \in 0 .. c.n - 1 /\ (c.n >= Num(c) => k \div RangeKeys(c) = UnitOf(c, kr))
        /\ \A u \in DOMAIN a :
             SumTo(a, Num(c)) > 0 => Cardinality({kr \in draws : UnitOf(c, kr) = u - 1}) = a[u]
        /\ Nondecreasing(c.p) => Cardinality({i \in DOMAIN a : a[i] > 0})
                                   = Cardinality({i \in DOMAIN c.p : c.p[i] > 0})

(* A hot draw of the lifecycle is a key of its member's range, and the     *)
(* members of a chain follow each other inside one generation: each opens  *)
(* a lag after its predecessor and closes a lag before its successor.      *)
LifecycleExact(c, t) ==
    \A m \in Members(c) : Active(c, m, t) =>
        /\ \A off \in 0 .. c.range_size - 1 :
             LET k == LifecycleHot(c, m, t, off)
             IN  /\ k \in 0 .. c.n - 1
                 /\ c.n >= c.range_size => k \div c.range_size = MemberRange(c, m, t)
        /\ Lag(c) * (ChainLen(c) - 1) < c.lifetime
             => /\ Age(c, m, t) > Lag(c) * Position(c, m)
                /\ Age(c, m, t) < c.lifetime - Lag(c) * (ChainLen(c) - 1 - Position(c, m))

(* The hot region starts in the key space, and without drift two phases    *)
(* start a whole region apart.                                             *)
OriginExact(c, t) ==
    LET apart(i, j) == {(i - j) % c.n, (j - i) % c.n}
    IN  /\ Origin(c, t) \in 0 .. c.n - 1
        /\ \A rank \in ZipfRanks(c.n, 0 .. c.n + 1) : ZipfNext(c, t, rank) \in 0 .. c.n - 1
        /\ \A u \in 0 .. t : c.shift = 0 /\ Phase(c, t) # Phase(c, u)
             => \A d \in apart(Origin(c, t), Origin(c, u)) : d >= c.n \div c.phases
=============================================================================
