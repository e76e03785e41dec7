--------------------------- MODULE OverlapProofs ---------------------------
(***************************************************************************)
(* The overlap computation is exact for every sorted vector of hot ids and *)
(* every vector of blocks sorted by first range, of any length             *)
(* (OverlapExact): the spans are the maximal runs of the hot ids, the      *)
(* halving search finds the first span that reaches a block, and the       *)
(* forward pass, whose cursor never moves back, selects the same blocks as *)
(* one search per block.                                                   *)
(*                                                                         *)
(* The loops are functions defined by recursion, and each is reasoned      *)
(* about in two steps: its equations have a solution (Recursion), and a    *)
(* set that holds 0 and, with n - 1, also n holds every iteration          *)
(* (EveryIteration).                                                       *)
(***************************************************************************)
EXTENDS Overlap, WellFoundedInduction, NaturalsInduction, TLAPS

(* The provers that a leaf is tried with in turn, unless it names its own. *)
USE SMT, Zenon, Z3, SMTT(30), Z3T(30)

-----------------------------------------------------------------------------
(* A loop of N iterations stays in a set it starts in and that no          *)
(* iteration leaves.                                                       *)
LEMMA EveryIteration ==
    ASSUME NEW N \in Nat, NEW S, 0 \in S,
           \A n \in 1 .. N : n - 1 \in S => n \in S
    PROVE  \A n \in 0 .. N : n \in S
<1> DEFINE T == {n \in 0 .. N : n \notin S}
<1> SUFFICES ASSUME T # {} PROVE FALSE
  OBVIOUS
<1>1. T \subseteq Nat
  OBVIOUS
<1>2. PICK n \in T : \A m \in T : ~(<<m, n>> \in OpToRel(<, Nat))
  BY Zenon, <1>1, WFMin, NatLessThanWellFounded
<1>3. \A m \in T : ~(m < n)
  BY Zenon, <1>1, <1>2 DEF OpToRel
<1>4. n \in 1 .. N /\ n - 1 \in 0 .. N /\ n - 1 < n
  OBVIOUS
<1>5. n - 1 \in S
  BY <1>3, <1>4
<1> QED  BY <1>4, <1>5

(* The least number of a nonempty set of naturals. *)
LEMMA LeastExists ==
    ASSUME NEW T, T \subseteq Nat, T # {}
    PROVE  \E n \in T : \A m \in T : n <= m
<1>1. PICK n \in T : \A m \in T : ~(<<m, n>> \in OpToRel(<, Nat))
  BY Zenon, WFMin, NatLessThanWellFounded
<1>2. \A m \in T : ~(m < n)
  BY Zenon, <1>1 DEF OpToRel
<1> QED  BY <1>2

(* The states g[0] = b, g[1], ... of a loop whose n-th iteration makes     *)
(* step[<<n, s>>] of the state s.                                          *)
Iterates(g, N, b, step) == g[0] = b /\ \A n \in 1 .. N : g[n] = step[<<n, g[n - 1]>>]

(* The equations of such a loop have a solution.                           *)
LEMMA Recursion ==
    ASSUME NEW N \in Nat, NEW V, NEW b \in V, NEW step \in [(1 .. N) \X V -> V]
    PROVE  \E g \in [0 .. N -> V] : Iterates(g, N, b, step)
<1> DEFINE Solves(g, k) == Iterates(g, k, b, step)
           S == {k \in 0 .. N : \E g \in [0 .. k -> V] : Solves(g, k)}
<1>1. 0 \in S
  <2> DEFINE g == [n \in 0 .. 0 |-> b]
  <2>1. g \in [0 .. 0 -> V] /\ Solves(g, 0)
    BY DEF Iterates
  <2>2. 0 \in 0 .. N
    OBVIOUS
  <2> HIDE DEF g, Solves
  <2> QED  BY Zenon, <2>1, <2>2
<1>2. ASSUME NEW k \in 1 .. N, k - 1 \in S  PROVE k \in S
  <2>1. PICK g \in [0 .. k - 1 -> V] : Solves(g, k - 1)
    BY <1>2
  <2> DEFINE h == [n \in 0 .. k |-> IF n = k THEN step[<<k, g[k - 1]>>] ELSE g[n]]
  <2>2. k - 1 \in 0 .. k - 1 /\ g[k - 1] \in V
    OBVIOUS
  <2>3. step[<<k, g[k - 1]>>] \in V
    BY <2>2
  <2>4. h \in [0 .. k -> V]
    BY <2>3
  <2>5. \A n \in 0 .. k - 1 : h[n] = g[n]
    OBVIOUS
  <2>6. h[k] = step[<<k, g[k - 1]>>]
    OBVIOUS
  <2> HIDE DEF h
  <2>7. ASSUME NEW n \in 1 .. k  PROVE h[n] = step[<<n, h[n - 1]>>]
    <3>1. CASE n = k
      <4>1. h[k - 1] = g[k - 1]
        BY Zenon, <2>2, <2>5
      <4> QED  BY Zenon, <3>1, <4>1, <2>6
    <3>2. CASE n # k
      <4>1. n \in 1 .. k - 1 /\ n \in 0 .. k - 1 /\ n - 1 \in 0 .. k - 1
        BY <3>2
      <4> QED  BY <4>1, <2>1, <2>5 DEF Iterates
    <3> QED  BY <3>1, <3>2
  <2>8. h[0] = b
    BY <2>1, <2>5 DEF Iterates
  <2>9. Solves(h, k)
    BY <2>7, <2>8 DEF Iterates
  <2> QED  BY <2>4, <2>9
<1> HIDE DEF S
<1>3. N \in S
  BY <1>1, <1>2, EveryIteration
<1> QED  BY <1>3 DEF S

-----------------------------------------------------------------------------
(* Spans that are runs: none is empty, and a gap lies between any two. *)
Span == [begin : Nat, end : Nat]

Runs(spans) ==
    /\ spans \in Seq(Span)
    /\ \A i \in DOMAIN spans : spans[i].begin <= spans[i].end
    /\ \A i, k \in DOMAIN spans : i < k => spans[i].end + 1 < spans[k].begin

(* One iteration of ToSpans' loop, on an id no smaller than the last one:  *)
(* the spans stay runs, and cover that id besides.                         *)
LEMMA PushedRuns ==
    ASSUME NEW spans, Runs(spans), NEW r \in Nat,
           Len(spans) > 0 => spans[Len(spans)].end <= r
    PROVE  /\ Runs(Pushed(spans, r))
           /\ Covered(Pushed(spans, r)) = Covered(spans) \cup {r}
           /\ Len(Pushed(spans, r)) > 0
           /\ Pushed(spans, r)[Len(Pushed(spans, r))].end = r
<1> DEFINE n == Len(spans)
           p == Pushed(spans, r)
<1>1. spans \in Seq(Span) /\ n \in Nat /\ DOMAIN spans = 1 .. n
  BY DEF Runs
<1>2. \A i \in 1 .. n : /\ spans[i] \in Span /\ spans[i].begin \in Nat /\ spans[i].end \in Nat
                        /\ spans[i].begin <= spans[i].end
  <2> TAKE i \in 1 .. n
  <2>1. spans[i] \in Span
    BY <1>1
  <2>2. spans[i].begin \in Nat /\ spans[i].end \in Nat
    BY <2>1 DEF Span
  <2> QED  BY <1>1, <2>1, <2>2 DEF Runs
<1>3. \A i, k \in 1 .. n : i < k => spans[i].end + 1 < spans[k].begin
  BY <1>1 DEF Runs
<1>4. CASE n > 0 /\ Extends(spans[n], r)
  <2> DEFINE grown == [begin |-> spans[n].begin, end |-> r]
  <2>1. n \in 1 .. n /\ spans[n].end <= r /\ r <= spans[n].end + 1
    BY <1>1, <1>4 DEF Extends
  <2>2. grown \in Span /\ grown.begin = spans[n].begin /\ grown.end = r
    BY <1>2, <2>1 DEF Span
  <2>3. (IF spans[n].end < r THEN r ELSE spans[n].end) = r
    BY <1>2, <2>1
  <2>4. p = [spans EXCEPT ![n] = grown]
    BY Zenon, <1>4, <2>3 DEF Pushed
  <2> HIDE DEF grown, p
  <2>5. /\ p \in Seq(Span) /\ Len(p) = n /\ DOMAIN p = 1 .. n /\ p[n] = grown
        /\ \A i \in 1 .. n : i # n => p[i] = spans[i]
    BY <1>1, <2>1, <2>2, <2>4
  <2>6. \A i \in 1 .. n : p[i].begin = spans[i].begin
    BY Zenon, <2>2, <2>5
  <2>7. \A i \in 1 .. n : p[i].begin <= p[i].end
    <3> TAKE i \in 1 .. n
    <3>1. CASE i = n
      BY <3>1, <1>2, <2>1, <2>2, <2>5
    <3>2. CASE i # n
      BY Zenon, <3>2, <1>2, <2>5
    <3> QED  BY <3>1, <3>2
  <2>8. \A i, k \in 1 .. n : i < k => p[i].end + 1 < p[k].begin
    <3> TAKE i, k \in 1 .. n
    <3> HAVE i < k
    <3>1. i # n
      <4> HIDE DEF n
      <4> QED  BY <1>1
    <3>2. p[i] = spans[i] /\ p[k].begin = spans[k].begin
      BY ZenonT(60), <2>5, <2>6, <3>1
    <3> QED  BY <1>3, <3>2
  <2>9. Runs(p)
    BY ZenonT(60), <2>5, <2>7, <2>8 DEF Runs
  <2>10. p[n].begin .. p[n].end = (spans[n].begin .. spans[n].end) \cup {r}
    <3>1. spans[n].begin \in Nat /\ spans[n].end \in Nat /\ spans[n].begin <= spans[n].end
      BY <1>2, <2>1
    <3>2. spans[n].begin .. r = (spans[n].begin .. spans[n].end) \cup {r}
      BY <3>1, <2>1
    <3> QED  BY Zenon, <3>2, <2>2, <2>5
  <2>11. Covered(p) = Covered(spans) \cup {r}
    <3>1. ASSUME NEW x \in Covered(p)  PROVE x \in Covered(spans) \cup {r}
      <4>1. PICK i \in 1 .. n : x \in p[i].begin .. p[i].end
        BY Zenon, <3>1, <2>5 DEF Covered
      <4>2. x \in spans[i].begin .. spans[i].end \/ x = r
        BY ZenonT(60), <4>1, <2>5, <2>10
      <4> QED  BY <4>2, <1>1 DEF Covered
    <3>2. ASSUME NEW x \in Covered(spans)  PROVE x \in Covered(p)
      <4>1. PICK i \in 1 .. n : x \in spans[i].begin .. spans[i].end
        BY <3>2, <1>1 DEF Covered
      <4>2. x \in p[i].begin .. p[i].end
        BY ZenonT(60), <4>1, <2>5, <2>10
      <4> QED  BY Zenon, <4>2, <2>5 DEF Covered
    <3>3. r \in Covered(p)
      BY Zenon, <2>1, <2>5, <2>10 DEF Covered
    <3> QED  BY ZenonT(60), <3>1, <3>2, <3>3
  <2> QED  BY Zenon, <1>4, <2>2, <2>5, <2>9, <2>11 DEF p
<1>5. CASE ~(n > 0 /\ Extends(spans[n], r))
  <2> DEFINE new == [begin |-> r, end |-> r]
  <2>1. p = Append(spans, new)
    BY <1>5 DEF Pushed
  <2>2. new \in Span /\ new.begin = r /\ new.end = r
    BY DEF Span
  <2> HIDE DEF new, p
  <2>3. /\ p \in Seq(Span) /\ Len(p) = n + 1 /\ DOMAIN p = 1 .. n + 1 /\ p[n + 1] = new
        /\ \A i \in 1 .. n : p[i] = spans[i]
    BY <1>1, <2>1, <2>2
  <2>4. \A i \in 1 .. n : spans[i].end + 1 < r
    <3> TAKE i \in 1 .. n
    <3>1. n \in 1 .. n /\ spans[n].end + 1 < r
      BY <1>1, <1>2, <1>5 DEF Extends
    <3>2. spans[i].end <= spans[n].end
      BY <1>1, <1>2, <1>3, <3>1
    <3> QED  BY <1>2, <3>1, <3>2
  <2>5. \A i \in 1 .. n + 1 : p[i].begin <= p[i].end
    <3> TAKE i \in 1 .. n + 1
    <3>1. CASE i = n + 1
      BY <3>1, <2>2, <2>3
    <3>2. CASE i \in 1 .. n
      BY <3>2, <1>2, <2>3
    <3> QED  BY <1>1, <3>1, <3>2
  <2>6. \A i, k \in 1 .. n + 1 : i < k => p[i].end + 1 < p[k].begin
    <3> TAKE i, k \in 1 .. n + 1
    <3> HAVE i < k
    <3>1. i \in 1 .. n
      BY <1>1
    <3>2. CASE k = n + 1
      BY <3>1, <3>2, <2>2, <2>3, <2>4
    <3>3. CASE k \in 1 .. n
      BY <3>1, <3>3, <1>3, <2>3
    <3> QED  BY <1>1, <3>2, <3>3
  <2>7. Runs(p)
    BY <2>3, <2>5, <2>6 DEF Runs
  <2>8. p[n + 1].begin .. p[n + 1].end = {r}
    BY <2>2, <2>3
  <2>9. Covered(p) = Covered(spans) \cup {r}
    <3>1. ASSUME NEW x \in Covered(p)  PROVE x \in Covered(spans) \cup {r}
      <4>1. PICK i \in 1 .. n + 1 : x \in p[i].begin .. p[i].end
        BY <3>1, <2>3 DEF Covered
      <4>2. CASE i = n + 1
        BY <4>1, <4>2, <2>8
      <4>3. CASE i \in 1 .. n
        BY <4>1, <4>3, <1>1, <2>3 DEF Covered
      <4> QED  BY <1>1, <4>2, <4>3
    <3>2. ASSUME NEW x \in Covered(spans)  PROVE x \in Covered(p)
      <4>1. PICK i \in 1 .. n : x \in spans[i].begin .. spans[i].end
        BY <3>2, <1>1 DEF Covered
      <4>2. i \in 1 .. n + 1 /\ x \in p[i].begin .. p[i].end
        BY <4>1, <1>1, <2>3
      <4> QED  BY <4>2, <2>3 DEF Covered
    <3>3. n + 1 \in 1 .. n + 1
      BY <1>1
    <3>4. r \in Covered(p)
      BY <2>3, <2>8, <3>3 DEF Covered
    <3> QED  BY <3>1, <3>2, <3>4
  <2> QED  BY <1>1, <2>2, <2>3, <2>7, <2>9 DEF p
<1> QED  BY <1>4, <1>5

(* An iteration of ToSpans' loop makes spans of spans. *)
LEMMA PushedTyped ==
    ASSUME NEW spans \in Seq(Span), NEW r \in Nat
    PROVE  Pushed(spans, r) \in Seq(Span)
<1>1. [begin |-> r, end |-> r] \in Span
  BY DEF Span
<1>2. ASSUME Len(spans) > 0
      PROVE  [begin |-> spans[Len(spans)].begin,
              end |-> IF spans[Len(spans)].end < r THEN r ELSE spans[Len(spans)].end] \in Span
  <2>1. spans[Len(spans)] \in Span
    BY <1>2
  <2> QED  BY <2>1 DEF Span
<1> QED  BY <1>1, <1>2 DEF Pushed

Ascending(ids) == \A i, k \in DOMAIN ids : i <= k => ids[i] <= ids[k]

(* ToSpans: its loop makes runs that cover the ids seen so far, the last   *)
(* of which is where the last run ends.                                    *)
LEMMA ToSpansRuns ==
    ASSUME NEW hot \in Seq(Nat), Ascending(hot)
    PROVE  /\ Runs(ToSpans(hot))
           /\ Covered(ToSpans(hot)) = {hot[k] : k \in DOMAIN hot}
<1> DEFINE N == Len(hot)
           f == CHOOSE g : g = [n \in 0 .. N |-> IF n = 0 THEN <<>> ELSE Pushed(g[n - 1], hot[n])]
           step == [x \in (1 .. N) \X Seq(Span) |-> Pushed(x[2], hot[x[1]])]
<1>1. N \in Nat /\ DOMAIN hot = 1 .. N /\ \A n \in 1 .. N : hot[n] \in Nat
  OBVIOUS
<1>2. ToSpans(hot) = f[N]
  BY DEF ToSpans
<1>3. f = [n \in 0 .. N |-> IF n = 0 THEN <<>> ELSE Pushed(f[n - 1], hot[n])]
  <2>1. step \in [(1 .. N) \X Seq(Span) -> Seq(Span)]
    BY <1>1, PushedTyped
  <2>2. \A n \in 1 .. N, v \in Seq(Span) : step[<<n, v>>] = Pushed(v, hot[n])
    OBVIOUS
  <2>3. <<>> \in Seq(Span)
    OBVIOUS
  <2> HIDE DEF step
  <2>4. PICK g \in [0 .. N -> Seq(Span)] : Iterates(g, N, <<>>, step)
    BY Zenon, <1>1, <2>1, <2>3, Recursion
  <2>5. \A n \in 1 .. N : g[n] = Pushed(g[n - 1], hot[n])
    <3> TAKE n \in 1 .. N
    <3>1. n - 1 \in 0 .. N
      BY <1>1
    <3> QED  BY Zenon, <2>2, <2>4, <3>1 DEF Iterates
  <2>6. g = [n \in 0 .. N |-> IF n = 0 THEN <<>> ELSE Pushed(g[n - 1], hot[n])]
    BY <1>1, <2>4, <2>5 DEF Iterates
  <2> QED  BY Zenon, <2>6
<1> HIDE DEF f
<1>4. f[0] = <<>> /\ \A n \in 1 .. N : f[n] = Pushed(f[n - 1], hot[n])
  <2>1. 0 \in 0 .. N /\ \A n \in 1 .. N : n \in 0 .. N /\ n # 0
    BY <1>1
  <2> QED  BY Zenon, <1>3, <2>1
<1> DEFINE S == {n \in 0 .. N : /\ Runs(f[n]) /\ Covered(f[n]) = {hot[k] : k \in 1 .. n}
                                /\ n > 0 => f[n][Len(f[n])].end = hot[n]}
<1>5. 0 \in S
  <2>1. Runs(<<>>)
    BY DEF Runs
  <2>2. Covered(<<>>) = {}
    BY DEF Covered
  <2> QED  BY <1>1, <1>4, <2>1, <2>2
<1>6. ASSUME NEW n \in 1 .. N, n - 1 \in S  PROVE n \in S
  <2>1. Len(f[n - 1]) > 0 => f[n - 1][Len(f[n - 1])].end <= hot[n]
    <3>1. CASE n = 1
      BY <3>1, <1>4
    <3>2. CASE n > 1
      <4>1. n - 1 \in 1 .. N
        BY <3>2
      <4>2. hot[n - 1] <= hot[n]
        BY <4>1, <1>1 DEF Ascending
      <4> QED  BY <4>2, <1>6, <3>2
    <3> QED  BY <3>1, <3>2
  <2>2. Runs(f[n - 1]) /\ hot[n] \in Nat /\ f[n] = Pushed(f[n - 1], hot[n])
    BY <1>1, <1>4, <1>6
  <2>3. Runs(f[n]) /\ Covered(f[n]) = Covered(f[n - 1]) \cup {hot[n]} /\ f[n][Len(f[n])].end = hot[n]
    BY ZenonT(60), <2>1, <2>2, PushedRuns
  <2>4. {hot[k] : k \in 1 .. n} = {hot[k] : k \in 1 .. n - 1} \cup {hot[n]}
    OBVIOUS
  <2>5. n \in 0 .. N /\ Covered(f[n - 1]) = {hot[k] : k \in 1 .. n - 1}
    BY <1>6
  <2> QED  BY Zenon, <2>3, <2>4, <2>5
<1>7. N \in S
  <2> HIDE DEF S, N
  <2>1. N \in 0 .. N
    BY <1>1
  <2> QED  BY Zenon, <1>1, <1>5, <1>6, <2>1, EveryIteration
<1> QED  BY <1>1, <1>2, <1>7

-----------------------------------------------------------------------------
(* Span k is the first one that does not end before the block; one past    *)
(* the last if they all do.                                                *)
IsFirst(k, block, spans) ==
    /\ k \in 1 .. Len(spans) + 1
    /\ \A i \in 1 .. k - 1 : EndsBefore(spans[i], block)
    /\ k <= Len(spans) => ~EndsBefore(spans[k], block)

(* There is such a span. *)
LEMMA FirstExists ==
    ASSUME NEW spans, Len(spans) \in Nat, NEW block
    PROVE  \E k : IsFirst(k, block, spans)
<1> DEFINE n == Len(spans)
           T == {k \in 1 .. n + 1 : k = n + 1 \/ ~EndsBefore(spans[k], block)}
<1>1. T \subseteq Nat /\ n + 1 \in T
  OBVIOUS
<1>2. PICK k \in T : \A m \in T : k <= m
  BY Zenon, <1>1, LeastExists
<1>3. ASSUME NEW i \in 1 .. k - 1  PROVE EndsBefore(spans[i], block)
  <2>1. i \in 1 .. n + 1 /\ i < k
    OBVIOUS
  <2> QED  BY <1>2, <2>1
<1> QED  BY <1>3 DEF IsFirst

(* The middle of a nonempty window of the search is inside it. *)
LEMMA Half ==
    ASSUME NEW lo \in Nat, NEW hi \in Nat, lo < hi
    PROVE  lo + (hi - lo) \div 2 \in lo .. hi - 1
<1>1. PICK d \in Nat : d = hi - lo /\ d > 0
  OBVIOUS
<1>2. d \div 2 \in Nat /\ d \div 2 < d
  BY <1>1
<1> QED  BY <1>1, <1>2

(* The ends of runs ascend, so a span ends before the block if and only if *)
(* it comes before the first that does not.                                *)
LEMMA BeforeFirst ==
    ASSUME NEW spans, Runs(spans), NEW block, block.first_range \in Nat,
           NEW k, IsFirst(k, block, spans), NEW i \in 1 .. Len(spans)
    PROVE  EndsBefore(spans[i], block) <=> i < k
<1>1. /\ Len(spans) \in Nat /\ DOMAIN spans = 1 .. Len(spans)
      /\ \A m \in 1 .. Len(spans) : spans[m] \in Span
  BY DEF Runs
<1>2. \A m \in 1 .. Len(spans) : spans[m].begin \in Nat /\ spans[m].end \in Nat
  BY <1>1 DEF Span
<1>3. CASE i < k
  BY <1>3 DEF IsFirst
<1>4. CASE ~(i < k)
  <2>1. k \in 1 .. Len(spans) /\ ~EndsBefore(spans[k], block)
    BY <1>1, <1>4 DEF IsFirst
  <2>2. spans[k].end <= spans[i].end
    <3>1. CASE k = i
      BY <3>1, <1>2
    <3>2. CASE k < i
      BY <3>2, <1>1, <1>2, <2>1 DEF Runs
    <3> QED  BY <1>4, <2>1, <3>1, <3>2
  <2> QED  BY <1>2, <1>4, <2>1, <2>2 DEF EndsBefore
<1> QED  BY <1>3, <1>4

(* The halving search finds that span. *)
LEMMA SearchFindsFirst ==
    ASSUME NEW spans, Runs(spans), NEW block, block.first_range \in Nat,
           NEW k, IsFirst(k, block, spans)
    PROVE  FirstReaching(block, spans) = k
<1> DEFINE n == Len(spans)
           D == 0 .. n
           mid(lo, hi) == lo + (hi - lo) \div 2
           Halve(g, lo, hi) == IF lo >= hi THEN lo
                               ELSE IF EndsBefore(spans[mid(lo, hi) + 1], block)
                                    THEN g[<<mid(lo, hi) + 1, hi>>]
                               ELSE g[<<lo, mid(lo, hi)>>]
           f == CHOOSE g : g = [w \in D \X D |-> Halve(g, w[1], w[2])]
           Nearest(lo, hi) == IF lo >= hi \/ k - 1 < lo THEN lo
                              ELSE IF k - 1 > hi THEN hi ELSE k - 1
           sol == [w \in D \X D |-> Nearest(w[1], w[2])]
<1>1. n \in Nat /\ k \in 1 .. n + 1
  BY DEF Runs, IsFirst
<1>2. FirstReaching(block, spans) = f[<<0, n>>] + 1
  BY DEF FirstReaching
<1>3. ASSUME NEW lo \in D, NEW hi \in D, lo < hi
      PROVE  /\ mid(lo, hi) \in lo .. hi - 1
             /\ EndsBefore(spans[mid(lo, hi) + 1], block) <=> mid(lo, hi) + 1 < k
  <2>1. mid(lo, hi) \in lo .. hi - 1
    BY <1>1, <1>3, Half
  <2>2. mid(lo, hi) + 1 \in 1 .. n
    BY <1>1, <2>1
  <2> QED  BY <2>1, <2>2, BeforeFirst
<1> HIDE DEF mid, f
<1>4. \A lo, hi \in D : sol[<<lo, hi>>] = Nearest(lo, hi)
  OBVIOUS
<1>5. ASSUME NEW g, NEW lo \in D, NEW hi \in D,
             \A l, h \in D : h - l < hi - lo => g[<<l, h>>] = Nearest(l, h)
      PROVE  Halve(g, lo, hi) = Nearest(lo, hi)
  <2>1. CASE lo >= hi
    BY <2>1
  <2>2. CASE lo < hi
    <3> DEFINE c == mid(lo, hi)
    <3>1. c \in lo .. hi - 1 /\ (EndsBefore(spans[c + 1], block) <=> c + 1 < k)
      BY <1>3, <2>2
    <3> HIDE DEF c
    <3>2. c \in D /\ c + 1 \in D /\ hi - (c + 1) < hi - lo /\ c - lo < hi - lo
      BY <1>1, <3>1
    <3>3. g[<<c + 1, hi>>] = Nearest(c + 1, hi) /\ g[<<lo, c>>] = Nearest(lo, c)
      BY <1>5, <3>2
    <3>4. CASE EndsBefore(spans[c + 1], block)
      <4>1. Halve(g, lo, hi) = Nearest(c + 1, hi)
        BY <1>1, <2>2, <3>3, <3>4 DEF c
      <4>2. Nearest(c + 1, hi) = Nearest(lo, hi)
        BY <1>1, <2>2, <3>1, <3>2, <3>4
      <4> QED  BY <4>1, <4>2
    <3>5. CASE ~EndsBefore(spans[c + 1], block)
      <4>1. Halve(g, lo, hi) = Nearest(lo, c)
        BY <1>1, <2>2, <3>3, <3>5 DEF c
      <4>2. Nearest(lo, c) = Nearest(lo, hi)
        BY <1>1, <2>2, <3>1, <3>2, <3>5
      <4> QED  BY <4>1, <4>2
    <3> QED  BY <3>4, <3>5
  <2> QED  BY <1>1, <2>1, <2>2
<1>6. f = [w \in D \X D |-> Halve(f, w[1], w[2])]
  <2>1. \A lo, hi \in D : Halve(sol, lo, hi) = Nearest(lo, hi)
    BY Zenon, <1>4, <1>5
  <2>2. sol = [w \in D \X D |-> Halve(sol, w[1], w[2])]
    <3> HIDE DEF Halve, Nearest
    <3>1. \A w \in D \X D : Halve(sol, w[1], w[2]) = Nearest(w[1], w[2])
      BY Zenon, <2>1
    <3> QED  BY Zenon, <3>1
  <2> HIDE DEF sol
  <2> QED  BY Zenon, <2>2 DEF f
<1>7. \A lo, hi \in D : f[<<lo, hi>>] = Halve(f, lo, hi)
  BY Zenon, <1>6
<1> DEFINE S == {d \in 0 .. n : \A lo, hi \in D : hi - lo <= d => f[<<lo, hi>>] = Nearest(lo, hi)}
<1>8. 0 \in S
  <2>1. ASSUME NEW lo \in D, NEW hi \in D, hi - lo <= 0  PROVE f[<<lo, hi>>] = Nearest(lo, hi)
    <3>1. lo >= hi
      BY <1>1, <2>1
    <3> QED  BY Zenon, <1>7, <3>1
  <2> QED  BY <1>1, <2>1
<1>9. ASSUME NEW d \in 1 .. n, d - 1 \in S  PROVE d \in S
  <2>1. ASSUME NEW lo \in D, NEW hi \in D, hi - lo <= d  PROVE f[<<lo, hi>>] = Nearest(lo, hi)
    <3>1. \A l, h \in D : h - l < hi - lo => f[<<l, h>>] = Nearest(l, h)
      <4> TAKE l, h \in D
      <4> HAVE h - l < hi - lo
      <4>1. h - l <= d - 1
        BY <1>1, <2>1
      <4> QED  BY <4>1, <1>9
    <3>2. Halve(f, lo, hi) = Nearest(lo, hi)
      BY <1>5, <3>1
    <3> QED  BY <1>7, <3>2
  <2> QED  BY <2>1, <1>1
<1>10. n \in S
  <2> HIDE DEF S, n
  <2>1. n \in 0 .. n
    BY <1>1
  <2> QED  BY Zenon, <1>1, <1>8, <1>9, <2>1, EveryIteration
<1>11. f[<<0, n>>] = Nearest(0, n)
  BY <1>1, <1>10
<1> QED  BY <1>1, <1>2, <1>11

-----------------------------------------------------------------------------
IsBlock(b) == b.first_range \in Nat /\ b.last_range \in Nat /\ b.first_range <= b.last_range

(* A block and the spans have an id in common. *)
Overlaps(b, spans) == \E r \in Covered(spans) : b.first_range <= r /\ r <= b.last_range

(* It is enough to test a block against the first span that does not end   *)
(* before it.                                                              *)
LEMMA FirstDecides ==
    ASSUME NEW spans, Runs(spans), NEW block, IsBlock(block),
           NEW k, IsFirst(k, block, spans)
    PROVE  Reaches(k, block, spans) <=> Overlaps(block, spans)
<1> DEFINE n == Len(spans)
<1>1. /\ n \in Nat /\ DOMAIN spans = 1 .. n /\ k \in 1 .. n + 1
      /\ \A m \in 1 .. n : spans[m] \in Span
  BY DEF Runs, IsFirst
<1>2. \A m \in 1 .. n : /\ spans[m].begin \in Nat /\ spans[m].end \in Nat
                        /\ spans[m].begin <= spans[m].end
  BY <1>1 DEF Span, Runs
<1>3. ASSUME Reaches(k, block, spans)  PROVE Overlaps(block, spans)
  <2>1. k \in 1 .. n /\ spans[k].begin <= block.last_range /\ block.first_range <= spans[k].end
    BY <1>1, <1>2, <1>3 DEF Reaches, IsFirst, EndsBefore, IsBlock
  <2> DEFINE r == IF spans[k].begin < block.first_range THEN block.first_range ELSE spans[k].begin
  <2>2. r \in spans[k].begin .. spans[k].end /\ block.first_range <= r /\ r <= block.last_range
    BY <1>2, <2>1 DEF IsBlock
  <2>3. r \in Covered(spans)
    BY <1>1, <2>1, <2>2 DEF Covered
  <2> QED  BY <2>2, <2>3 DEF Overlaps
<1>4. ASSUME Overlaps(block, spans)  PROVE Reaches(k, block, spans)
  <2>1. PICK r \in Covered(spans) : block.first_range <= r /\ r <= block.last_range
    BY <1>4 DEF Overlaps
  <2>2. PICK i \in 1 .. n : r \in spans[i].begin .. spans[i].end
    BY <1>1, <2>1 DEF Covered
  <2>3. ~EndsBefore(spans[i], block)
    BY <1>2, <2>1, <2>2 DEF EndsBefore, IsBlock
  <2>4. k <= i
    BY <1>1, <2>3, BeforeFirst DEF IsBlock
  <2>5. k \in 1 .. n /\ spans[k].begin <= spans[i].begin
    <3>1. k \in 1 .. n
      BY <1>1, <2>4
    <3>2. CASE k = i
      BY <3>1, <3>2, <1>2
    <3>3. CASE k < i
      BY <3>1, <3>3, <1>1, <1>2 DEF Runs
    <3> QED  BY <2>4, <3>1, <3>2, <3>3
  <2> QED  BY <1>1, <1>2, <2>1, <2>2, <2>5 DEF Reaches, IsBlock
<1> QED  BY <1>3, <1>4

(* BlockOverlaps: a search and one test. *)
LEMMA BlockOverlapsExact ==
    ASSUME NEW spans, Runs(spans), NEW block, IsBlock(block)
    PROVE  BlockOverlaps(block, spans) <=> Overlaps(block, spans)
<1>1. Len(spans) \in Nat
  BY DEF Runs
<1>2. PICK k : IsFirst(k, block, spans)
  BY Zenon, <1>1, FirstExists
<1>3. FirstReaching(block, spans) = k
  BY Zenon, <1>2, SearchFindsFirst DEF IsBlock
<1> QED  BY Zenon, <1>2, <1>3, FirstDecides DEF BlockOverlaps

(* The cursor of the forward pass stops at the first span that does not    *)
(* end before the block, if it starts no later than there.                 *)
LEMMA AdvanceFindsFirst ==
    ASSUME NEW spans, Len(spans) \in Nat, NEW block,
           NEW k, IsFirst(k, block, spans), NEW j \in 1 .. k
    PROVE  Advance(j, block, spans) = k
<1> DEFINE n == Len(spans)
           P(x) == /\ x <= n => ~EndsBefore(spans[x], block)
                   /\ \A i \in j .. x - 1 : EndsBefore(spans[i], block)
<1>1. k \in j .. n + 1 /\ P(k)
  BY DEF IsFirst
<1>2. ASSUME NEW x \in j .. n + 1, P(x)  PROVE x = k
  <2>1. CASE x < k
    <3>1. x \in 1 .. k - 1 /\ x <= n
      BY <1>1, <2>1
    <3> QED  BY <1>2, <3>1 DEF IsFirst
  <2>2. CASE k < x
    <3>1. k \in j .. x - 1 /\ k <= n
      BY <1>1, <2>2
    <3> QED  BY <1>1, <1>2, <3>1
  <2> QED  BY <1>1, <2>1, <2>2
<1> HIDE DEF P
<1>3. (CHOOSE x \in j .. n + 1 : P(x)) = k
  BY Zenon, <1>1, <1>2
<1> QED  BY Zenon, <1>3 DEF P, Advance

(* Wherever it starts, the cursor stops at a span or one past the last. *)
LEMMA AdvanceTyped ==
    ASSUME NEW spans, Len(spans) \in Nat, NEW block, NEW j \in 1 .. Len(spans) + 1
    PROVE  Advance(j, block, spans) \in 1 .. Len(spans) + 1
<1> DEFINE n == Len(spans)
           T == {k \in j .. n + 1 : k = n + 1 \/ ~EndsBefore(spans[k], block)}
           P(x) == /\ x <= n => ~EndsBefore(spans[x], block)
                   /\ \A i \in j .. x - 1 : EndsBefore(spans[i], block)
<1>1. T \subseteq Nat /\ n + 1 \in T
  OBVIOUS
<1>2. PICK k \in T : \A m \in T : k <= m
  BY Zenon, <1>1, LeastExists
<1>3. ASSUME NEW i \in j .. k - 1  PROVE EndsBefore(spans[i], block)
  <2>1. i \in j .. n + 1 /\ i < k
    OBVIOUS
  <2> QED  BY <1>2, <2>1
<1>4. k \in j .. n + 1 /\ P(k)
  BY <1>3
<1> HIDE DEF P
<1>5. (CHOOSE x \in j .. n + 1 : P(x)) \in j .. n + 1
  BY Zenon, <1>4
<1>6. Advance(j, block, spans) \in j .. n + 1
  BY Zenon, <1>5 DEF P, Advance
<1> QED  BY <1>6

-----------------------------------------------------------------------------
(* out lists the numbers up to n that are in M, in ascending order. *)
Lists(out, M, n) ==
    /\ out \in Seq(Nat)
    /\ {out[k] : k \in DOMAIN out} = M \cap (1 .. n)
    /\ \A k \in 1 .. Len(out) - 1 : out[k] < out[k + 1]

(* out is empty before the first block. *)
LEMMA ListsNothing ==
    ASSUME NEW M
    PROVE  Lists(<<>>, M, 0)
BY DEF Lists

(* push_back of the next block's index, or none. *)
LEMMA ListsOneMore ==
    ASSUME NEW out, NEW M, NEW n \in Nat \ {0}, Lists(out, M, n - 1)
    PROVE  /\ n \in M => Lists(Append(out, n), M, n)
           /\ n \notin M => Lists(out, M, n)
<1>1. out \in Seq(Nat) /\ Len(out) \in Nat /\ DOMAIN out = 1 .. Len(out)
  BY DEF Lists
<1>2. {out[k] : k \in DOMAIN out} = M \cap (1 .. n - 1)
  BY DEF Lists
<1>3. ASSUME n \in M  PROVE Lists(Append(out, n), M, n)
  <2> DEFINE new == Append(out, n)
             m == Len(out)
  <2>1. /\ new \in Seq(Nat) /\ Len(new) = m + 1 /\ DOMAIN new = 1 .. m + 1
        /\ new[m + 1] = n /\ \A k \in 1 .. m : new[k] = out[k]
    BY <1>1
  <2> HIDE DEF new
  <2>2. ASSUME NEW k \in 1 .. m  PROVE new[k] \in M \cap (1 .. n - 1)
    BY Zenon, <1>1, <1>2, <2>1
  <2>3. {new[k] : k \in DOMAIN new} = M \cap (1 .. n)
    <3>1. ASSUME NEW k \in 1 .. m + 1  PROVE new[k] \in M \cap (1 .. n)
      <4>1. CASE k = m + 1
        BY <4>1, <1>3, <2>1
      <4>2. CASE k \in 1 .. m
        BY <4>2, <2>2
      <4> QED  BY <1>1, <4>1, <4>2
    <3>2. ASSUME NEW x \in M \cap (1 .. n)  PROVE \E k \in 1 .. m + 1 : new[k] = x
      <4>1. CASE x = n
        <5>1. m + 1 \in 1 .. m + 1
          BY <1>1
        <5> QED  BY <4>1, <5>1, <2>1
      <4>2. CASE x # n
        <5>1. x \in M \cap (1 .. n - 1)
          BY <4>2
        <5>2. PICK k \in 1 .. m : out[k] = x
          BY <5>1, <1>1, <1>2
        <5>3. k \in 1 .. m + 1
          BY <1>1
        <5> QED  BY <5>2, <5>3, <2>1
      <4> QED  BY <4>1, <4>2
    <3>3. ASSUME NEW x \in {new[k] : k \in DOMAIN new}  PROVE x \in M \cap (1 .. n)
      BY Zenon, <2>1, <3>1, <3>3
    <3>4. ASSUME NEW x \in M \cap (1 .. n)  PROVE x \in {new[k] : k \in DOMAIN new}
      BY Zenon, <2>1, <3>2, <3>4
    <3> QED  BY Zenon, <3>3, <3>4
  <2>4. ASSUME NEW k \in 1 .. Len(new) - 1  PROVE new[k] < new[k + 1]
    <3>1. k \in 1 .. m
      BY <1>1, <2>1
    <3>2. CASE k = m
      <4>1. new[k] \in 1 .. n - 1
        BY <2>2, <3>1
      <4> QED  BY <3>2, <4>1, <2>1
    <3>3. CASE k < m
      <4>1. k \in 1 .. m - 1 /\ k + 1 \in 1 .. m
        BY <1>1, <3>1, <3>3
      <4> QED  BY <4>1, <2>1, <3>1 DEF Lists
    <3>4. k = m \/ k < m
      <4>1. m \in Nat
        BY <1>1
      <4> HIDE DEF m
      <4> QED  BY <3>1, <4>1
    <3> QED  BY Zenon, <3>2, <3>3, <3>4
  <2> QED  BY <2>1, <2>3, <2>4 DEF Lists, new
<1>4. ASSUME n \notin M  PROVE Lists(out, M, n)
  <2>1. M \cap (1 .. n) = M \cap (1 .. n - 1)
    BY <1>4
  <2> QED  BY <2>1 DEF Lists
<1> QED  BY <1>3, <1>4

(* One search per block lists the blocks that overlap the spans. *)
LEMMA SearchEachLists ==
    ASSUME NEW spans, NEW bs, Len(bs) \in Nat, NEW M,
           \A i \in 1 .. Len(bs) : BlockOverlaps(bs[i], spans) <=> i \in M
    PROVE  Lists(SearchEach(bs, spans), M, Len(bs))
<1> DEFINE N == Len(bs)
           Tested(out, n) == IF BlockOverlaps(bs[n], spans) THEN Append(out, n) ELSE out
           f == CHOOSE g : g = [n \in 0 .. N |-> IF n = 0 THEN <<>> ELSE Tested(g[n - 1], n)]
           step == [x \in (1 .. N) \X Seq(Nat) |-> Tested(x[2], x[1])]
<1>1. SearchEach(bs, spans) = f[N]
  BY DEF SearchEach
<1>2. f = [n \in 0 .. N |-> IF n = 0 THEN <<>> ELSE Tested(f[n - 1], n)]
  <2>1. step \in [(1 .. N) \X Seq(Nat) -> Seq(Nat)]
    OBVIOUS
  <2>2. \A n \in 1 .. N, v \in Seq(Nat) : step[<<n, v>>] = Tested(v, n)
    OBVIOUS
  <2>3. <<>> \in Seq(Nat)
    OBVIOUS
  <2> HIDE DEF step, Tested
  <2>4. PICK g \in [0 .. N -> Seq(Nat)] : Iterates(g, N, <<>>, step)
    BY Zenon, <2>1, <2>3, Recursion
  <2>5. \A n \in 1 .. N : g[n] = Tested(g[n - 1], n)
    <3> TAKE n \in 1 .. N
    <3>1. n - 1 \in 0 .. N
      OBVIOUS
    <3> QED  BY Zenon, <2>2, <2>4, <3>1 DEF Iterates
  <2>6. g = [n \in 0 .. N |-> IF n = 0 THEN <<>> ELSE Tested(g[n - 1], n)]
    BY <2>4, <2>5 DEF Iterates
  <2> QED  BY Zenon, <2>6
<1> HIDE DEF f
<1>3. f[0] = <<>> /\ \A n \in 1 .. N : f[n] = Tested(f[n - 1], n)
  <2> HIDE DEF Tested
  <2> QED  BY <1>2
<1> DEFINE S == {n \in 0 .. N : Lists(f[n], M, n)}
<1>4. 0 \in S
  BY <1>3, ListsNothing
<1>5. ASSUME NEW n \in 1 .. N, n - 1 \in S  PROVE n \in S
  <2>1. n \in Nat \ {0} /\ n \in 0 .. N /\ Lists(f[n - 1], M, n - 1)
    BY <1>5
  <2>2. /\ n \in M => Lists(Append(f[n - 1], n), M, n)
        /\ n \notin M => Lists(f[n - 1], M, n)
    BY Zenon, <2>1, ListsOneMore
  <2> QED  BY Zenon, <1>3, <2>1, <2>2
<1>6. N \in S
  <2> HIDE DEF S, N
  <2>1. N \in 0 .. N
    BY DEF N
  <2>2. N \in Nat
    BY DEF N
  <2> QED  BY Zenon, <1>4, <1>5, <2>1, <2>2, EveryIteration
<1> QED  BY Zenon, <1>1, <1>6

(* The forward pass lists them too.  After block n its cursor is at the    *)
(* first span that does not end before block n; blocks come in the order   *)
(* of their first ranges, so the spans it has passed end before every      *)
(* later block as well.                                                    *)
LEMMA MergePassLists ==
    ASSUME NEW spans, Len(spans) \in Nat, \A k \in 1 .. Len(spans) : spans[k].end \in Nat,
           NEW bs, Len(bs) \in Nat, \A i \in 1 .. Len(bs) : bs[i].first_range \in Nat,
           \A i, k \in 1 .. Len(bs) : i <= k => bs[i].first_range <= bs[k].first_range,
           NEW M,
           \A i \in 1 .. Len(bs) : \A k : IsFirst(k, bs[i], spans)
                                            => (Reaches(k, bs[i], spans) <=> i \in M)
    PROVE  Lists(MergePass(bs, spans), M, Len(bs))
<1> DEFINE N == Len(bs)
           V == [j : 1 .. Len(spans) + 1, out : Seq(Nat)]
           start == [j |-> 1, out |-> <<>>]
           f == CHOOSE g : g = [n \in 0 .. N |-> IF n = 0 THEN start
                                                 ELSE Visit(g[n - 1], n, bs[n], spans)]
           step == [x \in (1 .. N) \X V |-> Visit(x[2], x[1], bs[x[1]], spans)]
<1>1. MergePass(bs, spans) = f[N].out
  BY DEF MergePass
<1>2. f = [n \in 0 .. N |-> IF n = 0 THEN start ELSE Visit(f[n - 1], n, bs[n], spans)]
  <2>1. ASSUME NEW n \in 1 .. N, NEW v \in V  PROVE Visit(v, n, bs[n], spans) \in V
    <3>1. Advance(v.j, bs[n], spans) \in 1 .. Len(spans) + 1
      BY AdvanceTyped
    <3>2. v.out \in Seq(Nat) /\ Append(v.out, n) \in Seq(Nat)
      OBVIOUS
    <3> QED  BY <3>1, <3>2 DEF Visit
  <2>2. step \in [(1 .. N) \X V -> V]
    <3> HIDE DEF V, N
    <3> QED  BY <2>1
  <2>3. \A n \in 1 .. N, v \in V : step[<<n, v>>] = Visit(v, n, bs[n], spans)
    <3> HIDE DEF V, N
    <3> QED  OBVIOUS
  <2>4. start \in V
    OBVIOUS
  <2> HIDE DEF step, V, start
  <2>5. PICK g \in [0 .. N -> V] : Iterates(g, N, start, step)
    BY Zenon, <2>2, <2>4, Recursion
  <2>6. \A n \in 1 .. N : g[n] = Visit(g[n - 1], n, bs[n], spans)
    <3> TAKE n \in 1 .. N
    <3>1. n - 1 \in 0 .. N
      OBVIOUS
    <3> QED  BY Zenon, <2>3, <2>5, <3>1 DEF Iterates
  <2>7. g = [n \in 0 .. N |-> IF n = 0 THEN start ELSE Visit(g[n - 1], n, bs[n], spans)]
    BY <2>5, <2>6 DEF Iterates
  <2> QED  BY Zenon, <2>7
<1> HIDE DEF f
<1>3. f[0] = start /\ \A n \in 1 .. N : f[n] = Visit(f[n - 1], n, bs[n], spans)
  <2> HIDE DEF start
  <2> QED  BY <1>2
<1> DEFINE S == {n \in 0 .. N : /\ Lists(f[n].out, M, n)
                                /\ IF n = 0 THEN f[n].j = 1 ELSE IsFirst(f[n].j, bs[n], spans)}
<1>4. 0 \in S
  BY <1>3, ListsNothing
<1>5. ASSUME NEW n \in 1 .. N, n - 1 \in S  PROVE n \in S
  <2>1. PICK k : IsFirst(k, bs[n], spans)
    BY Zenon, FirstExists
  <2> DEFINE j == f[n - 1].j
  <2>2. j \in 1 .. k
    <3>1. k \in Nat /\ 1 <= k
      BY <2>1 DEF IsFirst
    <3>2. CASE n = 1
      BY <3>1, <3>2, <1>5
    <3>3. CASE n # 1
      <4>1. n - 1 \in 1 .. N /\ IsFirst(j, bs[n - 1], spans)
        BY <3>3, <1>5
      <4>2. j \in Nat /\ 1 <= j /\ j <= Len(spans) + 1
        BY <4>1 DEF IsFirst
      <4>3. ASSUME k < j  PROVE FALSE
        <5>1. k \in 1 .. j - 1 /\ k \in 1 .. Len(spans)
          BY <3>1, <4>2, <4>3
        <5>2. EndsBefore(spans[k], bs[n - 1]) /\ ~EndsBefore(spans[k], bs[n])
          BY <2>1, <4>1, <5>1 DEF IsFirst
        <5>3. bs[n - 1].first_range <= bs[n].first_range
          BY <4>1
        <5> QED  BY <4>1, <5>1, <5>2, <5>3 DEF EndsBefore
      <4> QED  BY <3>1, <4>2, <4>3
    <3> QED  BY <3>2, <3>3
  <2>3. Advance(j, bs[n], spans) = k
    BY Zenon, <2>1, <2>2, AdvanceFindsFirst
  <2>4. f[n] = [j |-> k, out |-> IF Reaches(k, bs[n], spans) THEN Append(f[n - 1].out, n)
                                 ELSE f[n - 1].out]
    BY Zenon, <1>3, <2>3 DEF Visit
  <2>5. n \in Nat \ {0} /\ n \in 0 .. N /\ Lists(f[n - 1].out, M, n - 1)
    BY <1>5
  <2>6. /\ n \in M => Lists(Append(f[n - 1].out, n), M, n)
        /\ n \notin M => Lists(f[n - 1].out, M, n)
    BY Zenon, <2>5, ListsOneMore
  <2>7. Reaches(k, bs[n], spans) <=> n \in M
    BY Zenon, <2>1
  <2>8. f[n].j = k /\ f[n].out = IF n \in M THEN Append(f[n - 1].out, n) ELSE f[n - 1].out
    BY <2>4, <2>7
  <2>9. n # 0
    OBVIOUS
  <2> QED  BY Zenon, <2>1, <2>5, <2>6, <2>8, <2>9
<1>6. N \in S
  <2> HIDE DEF S, N
  <2>1. N \in 0 .. N
    BY DEF N
  <2>2. N \in Nat
    BY DEF N
  <2> QED  BY Zenon, <1>4, <1>5, <2>1, <2>2, EveryIteration
<1> QED  BY Zenon, <1>1, <1>6

-----------------------------------------------------------------------------
(* SelectOverlapping lists the blocks that overlap the spans, whichever    *)
(* branch the cost model prefers.                                          *)
LEMMA SelectOverlappingLists ==
    ASSUME NEW spans, Runs(spans), NEW bs, bs \in Seq(Extents),
           \A i, k \in 1 .. Len(bs) : i <= k => bs[i].first_range <= bs[k].first_range,
           NEW M, M = {i \in 1 .. Len(bs) : Overlaps(bs[i], spans)}
    PROVE  Lists(SelectOverlapping(bs, spans), M, Len(bs))
<1>1. Len(bs) \in Nat /\ Len(spans) \in Nat /\ DOMAIN spans = 1 .. Len(spans)
  BY DEF Runs
<1>2. \A i \in 1 .. Len(bs) : IsBlock(bs[i])
  <2> TAKE i \in 1 .. Len(bs)
  <2>1. bs[i] \in Extents
    OBVIOUS
  <2> QED  BY <2>1, OverlapAssumption DEF Extents, Ranges, IsBlock
<1>3. CASE bs = <<>> \/ spans = <<>>
  <2>1. M = {}
    <3>1. CASE bs = <<>>
      BY <3>1
    <3>2. CASE spans = <<>>
      <4>1. Covered(spans) = {}
        BY <3>2 DEF Covered
      <4> QED  BY Zenon, <4>1 DEF Overlaps
    <3> QED  BY <1>3, <3>1, <3>2
  <2>2. Lists(<<>>, M, Len(bs))
    BY <2>1 DEF Lists
  <2> QED  BY <1>3, <2>2 DEF SelectOverlapping
<1>4. Lists(SearchEach(bs, spans), M, Len(bs))
  <2>1. \A i \in 1 .. Len(bs) : BlockOverlaps(bs[i], spans) <=> i \in M
    BY Zenon, <1>2, BlockOverlapsExact
  <2> QED  BY Zenon, <1>1, <2>1, SearchEachLists
<1>5. Lists(MergePass(bs, spans), M, Len(bs))
  <2>1. \A i \in 1 .. Len(bs) : \A k : IsFirst(k, bs[i], spans)
                                         => (Reaches(k, bs[i], spans) <=> i \in M)
    BY Zenon, <1>2, FirstDecides
  <2>2. \A k \in 1 .. Len(spans) : spans[k].end \in Nat
    <3> TAKE k \in 1 .. Len(spans)
    <3>1. spans[k] \in Span
      BY DEF Runs
    <3> QED  BY <3>1 DEF Span
  <2>3. \A i \in 1 .. Len(bs) : bs[i].first_range \in Nat
    BY <1>2 DEF IsBlock
  <2> QED  BY Zenon, <1>1, <2>1, <2>2, <2>3, MergePassLists
<1> QED  BY Zenon, <1>3, <1>4, <1>5 DEF SelectOverlapping

(* The vectors a caller hands over: hot ids ascending, blocks sorted by    *)
(* first range.                                                            *)
Sorted ==
    /\ hot_ids \in Seq(Ranges) /\ Ascending(hot_ids)
    /\ blocks \in Seq(Extents)
    /\ \A i, k \in 1 .. Len(blocks) : i <= k => blocks[i].first_range <= blocks[k].first_range

(* On such vectors the computation is exact. *)
LEMMA SortedIsExact ==
    ASSUME Sorted
    PROVE  OverlapExact
<1> DEFINE spans == ToSpans(hot_ids)
           chosen == SelectOverlapping(blocks, spans)
           M == {i \in 1 .. Len(blocks) : Overlaps(blocks[i], spans)}
<1>1. hot_ids \in Seq(Nat)
  BY OverlapAssumption DEF Sorted, Ranges
<1>2. Runs(spans) /\ Covered(spans) = HotIds
  BY Zenon, <1>1, ToSpansRuns DEF Sorted, HotIds
<1> HIDE DEF spans
<1>3. \A b : Meets(b) <=> Overlaps(b, spans)
  BY Zenon, <1>2 DEF Meets, Overlaps
<1>4. Lists(chosen, M, Len(blocks))
  BY Zenon, <1>2, SelectOverlappingLists DEF Sorted
<1>5. DOMAIN blocks = 1 .. Len(blocks) /\ Len(blocks) \in Nat
  BY DEF Sorted
<1>6. \A i \in 1 .. Len(spans) - 1 : spans[i].end + 1 < spans[i + 1].begin
  BY <1>2 DEF Runs
<1>7. {chosen[k] : k \in DOMAIN chosen} = {i \in DOMAIN blocks : Meets(blocks[i])}
  <2>1. M \cap (1 .. Len(blocks)) = {i \in DOMAIN blocks : Meets(blocks[i])}
    BY Zenon, <1>3, <1>5
  <2> QED  BY Zenon, <1>4, <2>1 DEF Lists
<1>8. \A i \in DOMAIN blocks : BlockOverlaps(blocks[i], spans) <=> Meets(blocks[i])
  <2> TAKE i \in DOMAIN blocks
  <2>1. blocks[i] \in Extents
    BY DEF Sorted
  <2>2. IsBlock(blocks[i])
    BY <2>1, OverlapAssumption DEF Extents, Ranges, IsBlock
  <2> QED  BY Zenon, <1>2, <1>3, <2>2, BlockOverlapsExact
<1>9. \A k \in 1 .. Len(chosen) - 1 : chosen[k] < chosen[k + 1]
  BY Zenon, <1>4 DEF Lists
<1> QED  BY Zenon, <1>2, <1>6, <1>7, <1>8, <1>9 DEF OverlapExact, spans

(* The vectors are such at every step. *)
LEMMA SortedIsKept == Spec => []Sorted
<1>1. Init => Sorted
  BY DEF Init, Sorted, Ascending
<1>2. Sorted /\ [Next]_vars => Sorted'
  <2> SUFFICES ASSUME Sorted, [Next]_vars PROVE Sorted'
    OBVIOUS
  <2>1. ASSUME NEW r \in Ranges, AddHot(r)  PROVE Sorted'
    <3>1. hot_ids \in Seq(Ranges) /\ r \in Nat /\ \A i \in 1 .. Len(hot_ids) : hot_ids[i] \in Nat
      BY OverlapAssumption DEF Sorted, Ranges
    <3>2. \A i \in 1 .. Len(hot_ids) : hot_ids[i] <= r
      <4> TAKE i \in 1 .. Len(hot_ids)
      <4>1. Len(hot_ids) \in 1 .. Len(hot_ids) /\ hot_ids # <<>>
        BY <3>1
      <4>2. hot_ids[Len(hot_ids)] <= r
        BY <2>1, <4>1 DEF AddHot
      <4>3. hot_ids[i] <= hot_ids[Len(hot_ids)]
        BY <3>1, <4>1 DEF Sorted, Ascending
      <4> QED  BY <3>1, <4>1, <4>2, <4>3
    <3>3. /\ hot_ids' \in Seq(Ranges) /\ DOMAIN hot_ids' = 1 .. Len(hot_ids) + 1
          /\ hot_ids'[Len(hot_ids) + 1] = r
          /\ \A i \in 1 .. Len(hot_ids) : hot_ids'[i] = hot_ids[i]
      BY <2>1, <3>1 DEF AddHot
    <3>4. ASSUME NEW i \in DOMAIN hot_ids', NEW k \in DOMAIN hot_ids', i <= k
          PROVE  hot_ids'[i] <= hot_ids'[k]
      <4>1. CASE k \in 1 .. Len(hot_ids)
        BY <3>1, <3>3, <3>4, <4>1 DEF Sorted, Ascending
      <4>2. CASE k = Len(hot_ids) + 1
        BY <3>1, <3>2, <3>3, <3>4, <4>2
      <4> QED  BY <3>1, <3>3, <4>1, <4>2
    <3> QED  BY <2>1, <3>3, <3>4 DEF Sorted, Ascending, AddHot
  <2>2. ASSUME NEW b \in Extents, AddBlock(b)  PROVE Sorted'
    <3>1. /\ blocks \in Seq(Extents) /\ b.first_range \in Nat
          /\ \A i \in 1 .. Len(blocks) : blocks[i].first_range \in Nat
      <4>1. \A e \in Extents : e.first_range \in Nat
        BY OverlapAssumption DEF Extents, Ranges
      <4>2. blocks \in Seq(Extents) /\ \A i \in 1 .. Len(blocks) : blocks[i] \in Extents
        BY DEF Sorted
      <4> QED  BY Zenon, <4>1, <4>2, <2>2
    <3>2. \A i \in 1 .. Len(blocks) : blocks[i].first_range <= b.first_range
      <4> TAKE i \in 1 .. Len(blocks)
      <4>1. Len(blocks) \in 1 .. Len(blocks) /\ blocks # <<>>
        BY <3>1
      <4>2. blocks[Len(blocks)].first_range <= b.first_range
        BY <2>2, <4>1 DEF AddBlock
      <4>3. blocks[i].first_range <= blocks[Len(blocks)].first_range
        BY <3>1, <4>1 DEF Sorted
      <4> QED  BY <3>1, <4>1, <4>2, <4>3
    <3>3. /\ blocks' \in Seq(Extents) /\ Len(blocks') = Len(blocks) + 1
          /\ blocks'[Len(blocks) + 1] = b
          /\ \A i \in 1 .. Len(blocks) : blocks'[i] = blocks[i]
      BY <2>2, <3>1 DEF AddBlock
    <3>4. ASSUME NEW i \in 1 .. Len(blocks'), NEW k \in 1 .. Len(blocks'), i <= k
          PROVE  blocks'[i].first_range <= blocks'[k].first_range
      <4>1. CASE k \in 1 .. Len(blocks)
        <5>1. i \in 1 .. Len(blocks)
          BY <3>1, <3>4, <4>1
        <5>2. blocks[i].first_range <= blocks[k].first_range
          BY <3>4, <4>1, <5>1 DEF Sorted
        <5> QED  BY <3>3, <4>1, <5>1, <5>2
      <4>2. CASE k = Len(blocks) + 1
        BY <3>1, <3>2, <3>3, <3>4, <4>2
      <4> QED  BY <3>1, <3>3, <4>1, <4>2
    <3> QED  BY <2>2, <3>3, <3>4 DEF Sorted, Ascending, AddBlock
  <2>3. CASE UNCHANGED vars
    BY <2>3 DEF Sorted, Ascending, vars
  <2> QED  BY <2>1, <2>2, <2>3 DEF Next
<1> QED  BY <1>1, <1>2, PTL DEF Spec

(* OverlapExact, for any number of ranges, hot ids and blocks: ToSpans     *)
(* covers exactly the hot ids with as few spans as possible, and           *)
(* SelectOverlapping and BlockOverlaps find exactly the blocks that meet a *)
(* hot range, in either branch and however the blocks overlap or nest.     *)
THEOREM OverlapIsExact == Spec => []OverlapExact
<1>1. Sorted => OverlapExact
  BY SortedIsExact
<1> QED  BY <1>1, SortedIsKept, PTL

=============================================================================
