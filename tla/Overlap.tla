------------------------------ MODULE Overlap ------------------------------
(***************************************************************************)
(* The overlap check of leaper/src/overlap.cc: predicted-hot range ids are *)
(* merged into spans, and blocks are matched against the spans by binary   *)
(* search or by one merge pass, whichever the cost model prefers.          *)
(*                                                                         *)
(* The state machine builds every pair of inputs the code may be given:    *)
(* hot ids in ascending order, with or without repetitions, and blocks     *)
(* sorted by first_range that may overlap, nest or repeat.                 *)
(***************************************************************************)
EXTENDS Integers, Sequences

CONSTANTS
    MaxRangeId,   \* the largest range id
    MaxBlocks,    \* bound on the number of blocks
    MaxHot        \* bound on the number of hot ids

ASSUME OverlapAssumption == MaxRangeId \in Nat

VARIABLES
    hot_ids,      \* sorted_hot
    blocks        \* sorted by first_range

vars == <<hot_ids, blocks>>

Ranges == 0 .. MaxRangeId
Extents == {e \in [first_range: Ranges, last_range: Ranges] : e.first_range <= e.last_range}

-----------------------------------------------------------------------------
Extends(span, r) == r <= span.end + 1

Pushed(spans, r) ==
    LET n == Len(spans)
    IN  IF n > 0 /\ Extends(spans[n], r)
        THEN [spans EXCEPT ![n] = [begin |-> @.begin, end |-> IF @.end < r THEN r ELSE @.end]]
        ELSE Append(spans, [begin |-> r, end |-> r])

ToSpans(sorted_hot) ==
    LET spans[n \in 0 .. Len(sorted_hot)] ==
          IF n = 0 THEN <<>> ELSE Pushed(spans[n - 1], sorted_hot[n])
    IN  spans[Len(sorted_hot)]

EndsBefore(span, block) == span.end < block.first_range

(* Index of the first span that does not end before the block, by halving. *)
FirstReaching(block, spans) ==
    LET n == Len(spans)
        search[w \in (0 .. n) \X (0 .. n)] ==
          LET lo  == w[1]
              hi  == w[2]
              mid == lo + (hi - lo) \div 2
          IN  IF lo >= hi THEN lo
              ELSE IF EndsBefore(spans[mid + 1], block) THEN search[<<mid + 1, hi>>]
              ELSE search[<<lo, mid>>]
    IN  search[<<0, n>>] + 1

Reaches(k, block, spans) == k <= Len(spans) /\ spans[k].begin <= block.last_range

BlockOverlaps(block, spans) == Reaches(FirstReaching(block, spans), block, spans)

(* One forward pass: the span cursor never moves back. *)
Advance(j, block, spans) ==
    CHOOSE k \in j .. Len(spans) + 1 :
        /\ k <= Len(spans) => ~EndsBefore(spans[k], block)
        /\ \A i \in j .. k - 1 : EndsBefore(spans[i], block)

(* A slip: the cursor moves past a span once a block has matched it, and   *)
(* a block nested in an earlier one goes unmatched.                        *)
VisitConsuming(s, i, block, spans) ==
    LET j == Advance(s.j, block, spans)
    IN  IF Reaches(j, block, spans) THEN [j |-> j + 1, out |-> Append(s.out, i)]
        ELSE [j |-> j, out |-> s.out]

Visit(s, i, block, spans) ==
    LET j == Advance(s.j, block, spans)
    IN  [j |-> j, out |-> IF Reaches(j, block, spans) THEN Append(s.out, i) ELSE s.out]

(* Once the cursor is past the last span no block matches any more, and    *)
(* the loop's break saves only time.                                       *)
MergePass(bs, spans) ==
    LET pass[n \in 0 .. Len(bs)] ==
          IF n = 0 THEN [j |-> 1, out |-> <<>>] ELSE Visit(pass[n - 1], n, bs[n], spans)
    IN  pass[Len(bs)].out

SearchEach(bs, spans) ==
    LET found[n \in 0 .. Len(bs)] ==
          IF n = 0 THEN <<>>
          ELSE IF BlockOverlaps(bs[n], spans) THEN Append(found[n - 1], n) ELSE found[n - 1]
    IN  found[Len(bs)]

(* 1 + floor(log2 m), by shifting. *)
LogCost(m) == 1 + CHOOSE k \in 0 .. m : 2 ^ k <= m /\ m < 2 ^ (k + 1)

PrefersSearch(m, n) == n * LogCost(m) < n + m

SelectOverlapping(bs, spans) ==
    IF bs = <<>> \/ spans = <<>> THEN <<>>
    ELSE IF PrefersSearch(Len(bs), Len(spans)) THEN SearchEach(bs, spans)
    ELSE MergePass(bs, spans)

-----------------------------------------------------------------------------
Init == hot_ids = <<>> /\ blocks = <<>>

AddHot(r) ==
    /\ Len(hot_ids) < MaxHot
    /\ hot_ids # <<>> => hot_ids[Len(hot_ids)] <= r
    /\ hot_ids' = Append(hot_ids, r)
    /\ UNCHANGED blocks

AddBlock(b) ==
    /\ Len(blocks) < MaxBlocks
    /\ blocks # <<>> => blocks[Len(blocks)].first_range <= b.first_range
    /\ blocks' = Append(blocks, b)
    /\ UNCHANGED hot_ids

Next == (\E r \in Ranges : AddHot(r)) \/ (\E b \in Extents : AddBlock(b))

Spec == Init /\ [][Next]_vars

-----------------------------------------------------------------------------
(* Reference definitions: spans as the set of ids they cover, a match as a *)
(* common id.                                                              *)
Covered(spans) == UNION {spans[i].begin .. spans[i].end : i \in DOMAIN spans}
HotIds == {hot_ids[k] : k \in DOMAIN hot_ids}
Meets(b) == \E r \in HotIds : b.first_range <= r /\ r <= b.last_range

(* ToSpans covers exactly the hot ids, with as few spans as possible, in   *)
(* order: what LeaperCore relies on when it represents spans by a set.     *)
(* SelectOverlapping returns the indices of exactly the blocks that meet a *)
(* hot range, ascending, whichever branch the cost model picks, also when  *)
(* blocks of several files overlap or nest; the binary search of           *)
(* ShouldPrefetch finds the same of every single block.                    *)
OverlapExact ==
    LET spans  == ToSpans(hot_ids)
        chosen == SelectOverlapping(blocks, spans)
    IN  /\ Covered(spans) = HotIds
        /\ \A i \in 1 .. Len(spans) - 1 : spans[i].end + 1 < spans[i + 1].begin
        /\ {chosen[k] : k \in DOMAIN chosen} = {i \in DOMAIN blocks : Meets(blocks[i])}
        /\ \A k \in 1 .. Len(chosen) - 1 : chosen[k] < chosen[k + 1]
        /\ \A i \in DOMAIN blocks : BlockOverlaps(blocks[i], spans) <=> Meets(blocks[i])
=============================================================================
