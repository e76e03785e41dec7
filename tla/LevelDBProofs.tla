--------------------------- MODULE LevelDBProofs ---------------------------
(***************************************************************************)
(* The LevelDB adapter and the engine around it, for any files, blocks,    *)
(* forecasts and options and any nesting the engine allows: a block is     *)
(* warmed for the job, the file and the prediction it was chosen for and   *)
(* within the job's budget, and a deleted file leaves nothing in the cache. *)
(***************************************************************************)
EXTENDS LevelDBAdapter, LeaperCoreProofs, FiniteSetTheorems

(* The provers that a leaf is tried with in turn, unless it names its own. *)
USE SMT, Zenon, Z3, SMTT(30), Z3T(30)

BgJob == [is_flush: BOOLEAN, inputs: SUBSET Nat, outputs: SUBSET Nat, out: Nat,
          layout: Seq(Extents), failed: BOOLEAN, hot: SUBSET Ranges, warmed: SUBSET BlockRef]

Views == [pending_warm: SUBSET BlockRef, current_output: Nat]

(* The adapter's two members, and what they are between jobs. *)
Current == [pending_warm |-> pending_warm, current_output |-> current_output]
NoView == [pending_warm |-> {}, current_output |-> 0]

(* The core's context of the i-th open job: that of the innermost is in    *)
(* the members, the others are on the stack.                               *)
CtxAt(i) == IF i < Len(bg) THEN ctx_stack[i + 1] ELSE Context

Selective == opt.policy \in {"leaper", "incremental", "oracle"}

(* The bytes of a set of blocks, one by one, and that a set of blocks is   *)
(* finite and has at most n of them.                                       *)
Units(s) == UNION {{r} \X (1 .. r.size) : r \in s}
FitsIn(s, n) == IsFiniteSet(s) /\ Cardinality(Units(s)) <= n

(* What an open job j, the adapter's view v of it and its context c in the *)
(* core have to do with each other.                                        *)
JobOK(j, v, c) ==
    /\ j.hot = c.hot_t2
    /\ FitsIn(j.warmed \cup v.pending_warm, c.prefetched_bytes)
    /\ j.out # 0 => v.current_output = j.out
    /\ j.out = 0 => v.pending_warm = {}
    /\ \A r \in v.pending_warm : /\ r.file_id = j.out /\ r.offset \in DOMAIN j.layout
                                 /\ r.last_range = j.layout[r.offset].last_range
    /\ Selective => \A r \in j.warmed \cup v.pending_warm : Overlaps(r, j.hot)

(* The engine's open jobs, the adapter's stack and the core's stack stay   *)
(* in step, level by level.                                                *)
StackInv ==
    /\ bg \in Seq(BgJob) /\ nested \in Seq(Views) /\ Current \in Views
    /\ Len(nested) = Len(bg) /\ Len(ctx_stack) = Len(bg)
    /\ (IF nested = <<>> THEN Current ELSE nested[1]) = NoView
    /\ \A i \in 1 .. Len(bg) : JobOK(bg[i], View(i), CtxAt(i))

(* An open job's files: what it finished is on disk and stays there, and   *)
(* the number it writes under is still free unless finishing failed.       *)
FilesOK(j) ==
    /\ j.outputs \subseteq DOMAIN disk \ gc
    /\ j.out < next_file
    /\ j.out # 0 /\ ~j.failed => j.out \notin DOMAIN disk
    /\ j.is_flush => j.out # 0 /\ ~j.failed

(* File numbers are not used twice, and what a version, a reader or a job  *)
(* needs is on disk and not about to be deleted.                           *)
FileInv ==
    /\ next_file \in Nat \ {0} /\ DOMAIN disk \subseteq 1 .. next_file - 1
    /\ version \subseteq DOMAIN disk /\ pinned \subseteq DOMAIN disk
    /\ gc \subseteq DOMAIN disk \ (version \cup pinned)
    /\ flushed # 0 => flushed \in DOMAIN disk /\ gc = {}
    /\ \A i \in DOMAIN bg : FilesOK(bg[i])
    /\ \A i, k \in DOMAIN bg : i # k /\ bg[i].out = bg[k].out => bg[i].out = 0

(* A cached block is a block of a file on disk. *)
CacheInv == opt.policy # "off" =>
    \A id \in cache : id.file_id \in DOMAIN disk /\ id \in IdsOf(id.file_id)

LDInv == CoreInv /\ StackInv /\ FileInv /\ CacheInv

-----------------------------------------------------------------------------
(* The bytes of one block. *)
LEMMA UnitsOfOne ==
    ASSUME NEW x, NEW k \in Nat
    PROVE  IsFiniteSet({x} \X (1 .. k)) /\ Cardinality({x} \X (1 .. k)) = k
<1>1. IsFiniteSet({x}) /\ Cardinality({x}) = 1
  BY FS_Singleton
<1>2. IsFiniteSet(1 .. k) /\ Cardinality(1 .. k) = k
  BY FS_Interval
<1>3. /\ IsFiniteSet({x} \X (1 .. k))
      /\ Cardinality({x} \X (1 .. k)) = Cardinality({x}) * Cardinality(1 .. k)
  BY Zenon, <1>1, <1>2, FS_Product
<1> QED  BY <1>1, <1>2, <1>3

(* The bytes of finitely many blocks are finitely many. *)
LEMMA UnitsOf ==
    ASSUME NEW s, IsFiniteSet(s), \A r \in s : r.size \in Nat
    PROVE  IsFiniteSet(Units(s)) /\ Cardinality(Units(s)) \in Nat
<1> DEFINE T == {{r} \X (1 .. r.size) : r \in s}
           f == [r \in s |-> {r} \X (1 .. r.size)]
<1>1. f \in Surjection(s, T)
  BY Zenon DEF Surjection
<1>2. IsFiniteSet(T)
  BY <1>1, FS_Surjection
<1>3. \A r \in s : IsFiniteSet({r} \X (1 .. r.size))
  BY Zenon, UnitsOfOne
<1>4. IsFiniteSet(Units(s))
  BY Zenon, <1>2, <1>3, FS_UNION DEF Units
<1> QED  BY <1>4, FS_CardinalityType

(* One more block adds its size. *)
LEMMA UnitsAdd ==
    ASSUME NEW s, IsFiniteSet(s), \A r \in s : r.size \in Nat, NEW x, x \notin s, x.size \in Nat
    PROVE  Cardinality(Units(s \cup {x})) = Cardinality(Units(s)) + x.size
<1> DEFINE P == {x} \X (1 .. x.size)
<1>1. Units(s \cup {x}) = Units(s) \cup P
  BY DEF Units
<1>2. Units(s) \cap P = {}
  BY DEF Units
<1>5. IsFiniteSet(P) /\ Cardinality(P) = x.size
  BY Zenon, UnitsOfOne
<1>6. IsFiniteSet(Units(s)) /\ Cardinality(Units(s)) \in Nat
  BY UnitsOf
<1> HIDE DEF P
<1>7. Cardinality(Units(s) \cup P) = Cardinality(Units(s)) + Cardinality(P) - Cardinality(Units(s) \cap P)
  BY <1>5, <1>6, FS_Union
<1>8. Cardinality(Units(s) \cup P) = Cardinality(Units(s)) + x.size - 0
  BY Zenon, <1>2, <1>5, <1>7, FS_EmptySet
<1>9. \A m, k \in Nat : m + k - 0 = m + k
  OBVIOUS
<1> QED  BY Zenon, <1>1, <1>6, <1>8, <1>9

(* The recursive sum of the sizes counts the bytes.  The count solves the  *)
(* equations the sum is chosen by, and a smallest set on which another     *)
(* solution differed from it would not be the smallest.                    *)
LEMMA SumIsCount ==
    ASSUME NEW S, IsFiniteSet(S), \A r \in S : r.size \in Nat
    PROVE  MapThenSumSet(LAMBDA r : r.size, S) = Cardinality(Units(S))
<1> DEFINE one(s) == CHOOSE x \in s : TRUE
           Body(g) == [s \in SUBSET S |-> IF s = {} THEN 0 ELSE one(s).size + g[s \ {one(s)}]]
           cnt == [s \in SUBSET S |-> Cardinality(Units(s))]
<1>1. Units({}) = {} /\ Cardinality(Units({})) = 0
  BY FS_EmptySet DEF Units
<1>2. ASSUME NEW s \in SUBSET S, s # {}
      PROVE  /\ one(s) \in s /\ s \ {one(s)} \in SUBSET S /\ IsFiniteSet(s)
             /\ one(s).size \in Nat /\ Cardinality(Units(s \ {one(s)})) \in Nat
             /\ Cardinality(Units(s)) = one(s).size + Cardinality(Units(s \ {one(s)}))
  <2>1. one(s) \in s
    BY <1>2
  <2> HIDE DEF one
  <2>2. IsFiniteSet(s) /\ IsFiniteSet(s \ {one(s)})
    BY FS_Subset
  <2>3. s = (s \ {one(s)}) \cup {one(s)}
    BY <2>1
  <2>4. one(s).size \in Nat /\ \A r \in s \ {one(s)} : r.size \in Nat
    BY <2>1
  <2>5. Cardinality(Units(s \ {one(s)})) \in Nat
    BY <2>2, <2>4, UnitsOf
  <2>6. Cardinality(Units((s \ {one(s)}) \cup {one(s)})) = Cardinality(Units(s \ {one(s)})) + one(s).size
    BY <2>2, <2>4, UnitsAdd
  <2>7. Cardinality(Units(s)) = Cardinality(Units(s \ {one(s)})) + one(s).size
    BY Zenon, <2>3, <2>6
  <2> HIDE DEF Body, cnt
  <2>8. Cardinality(Units(s)) = one(s).size + Cardinality(Units(s \ {one(s)}))
    BY <2>4, <2>5, <2>7
  <2> QED  BY Zenon, <2>1, <2>2, <2>4, <2>5, <2>8
<1> HIDE DEF one
<1>3. cnt = Body(cnt)
  BY Zenon, <1>1, <1>2
<1>4. ASSUME NEW g, g = Body(g), NEW s \in SUBSET S, g[s] # cnt[s] PROVE FALSE
  <2> DEFINE T == {Cardinality(u) : u \in {v \in SUBSET S : g[v] # cnt[v]}}
  <2>1. \A v \in SUBSET S : IsFiniteSet(v) /\ Cardinality(v) \in Nat
    BY FS_Subset, FS_CardinalityType
  <2>2. T \subseteq Nat /\ Cardinality(s) \in T
    BY Zenon, <1>4, <2>1
  <2>3. \E n \in T : \A m \in T : <<m, n>> \notin OpToRel(<, Nat)
    BY <2>2, WFMin, NatLessThanWellFounded
  <2>4. PICK n \in T : \A m \in T : ~(m < n)
    BY Zenon, <2>2, <2>3 DEF OpToRel
  <2>5. PICK u \in SUBSET S : g[u] # cnt[u] /\ n = Cardinality(u)
    BY Zenon, <2>4
  <2>6. u # {}
    <3>1. ASSUME u = {} PROVE FALSE
      BY <1>1, <1>4, <2>5, <3>1
    <3> QED  BY <3>1
  <2>7. u \ {one(u)} \in SUBSET S /\ Cardinality(u \ {one(u)}) = n - 1 /\ n \in Nat
    BY Zenon, <1>2, <2>1, <2>5, <2>6, FS_RemoveElement
  <2>8. g[u \ {one(u)}] = cnt[u \ {one(u)}]
    <3>1. Cardinality(u \ {one(u)}) \notin T
      <4>1. Cardinality(u \ {one(u)}) < n
        BY <2>7
      <4> QED  BY Zenon, <2>4, <4>1
    <3> QED  BY Zenon, <2>7, <3>1
  <2>9. g[u] = one(u).size + g[u \ {one(u)}]
    BY Zenon, <1>4, <2>5, <2>6
  <2> QED  BY <1>2, <2>5, <2>6, <2>7, <2>8, <2>9
<1>5. MapThenSumSet(LAMBDA r : r.size, S) = (CHOOSE g : g = Body(g))[S]
  BY DEF MapThenSumSet, MapThenFoldSet, one
<1>6. (CHOOSE g : g = Body(g)) = Body(CHOOSE g : g = Body(g))
  BY Zenon, <1>3
<1>7. (CHOOSE g : g = Body(g))[S] = cnt[S]
  <2>1. S \in SUBSET S
    OBVIOUS
  <2> QED  BY Zenon, <1>4, <1>6, <2>1
<1> QED  BY <1>5, <1>7

(* Nothing fits in any budget. *)
LEMMA NothingFits ==
    ASSUME NEW n \in Nat
    PROVE  FitsIn({}, n)
<1>1. Units({}) = {}
  BY DEF Units
<1> QED  BY <1>1, FS_EmptySet DEF FitsIn

(* What is granted is paid for. *)
LEMMA OneMoreFits ==
    ASSUME NEW C, \A r \in C : r.size \in Nat, NEW n \in Nat, FitsIn(C, n), NEW x, x.size \in Nat
    PROVE  FitsIn(C \cup {x}, n + x.size)
<1>1. IsFiniteSet(C) /\ Cardinality(Units(C)) <= n /\ IsFiniteSet(C \cup {x})
  BY FS_AddElement DEF FitsIn
<1>2. Cardinality(Units(C)) \in Nat
  BY <1>1, UnitsOf
<1>3. CASE x \in C
  <2>1. C \cup {x} = C
    BY <1>3
  <2>2. Cardinality(Units(C)) <= n + x.size
    BY <1>1, <1>2
  <2> QED  BY Zenon, <1>1, <2>1, <2>2 DEF FitsIn
<1>4. CASE x \notin C
  <2>1. Cardinality(Units(C \cup {x})) = Cardinality(Units(C)) + x.size
    BY Zenon, <1>1, <1>4, UnitsAdd
  <2>2. Cardinality(Units(C)) + x.size <= n + x.size
    BY <1>1, <1>2
  <2> QED  BY Zenon, <1>1, <2>1, <2>2 DEF FitsIn
<1> QED  BY <1>3, <1>4

-----------------------------------------------------------------------------
(* A job that keeps its view and its context. *)
LEMMA SameJob ==
    ASSUME opt' = opt, NEW i, bg'[i] = bg[i], View(i)' = View(i), CtxAt(i)' = CtxAt(i),
           JobOK(bg[i], View(i), CtxAt(i))
    PROVE  JobOK(bg[i], View(i), CtxAt(i))'
<1> DEFINE j == bg[i]
           v == View(i)
           c == CtxAt(i)
<1>1. PICK a, b, d : a = j /\ b = v /\ d = c /\ JobOK(a, b, d)
  OBVIOUS
<1>2. j' = a /\ v' = b /\ c' = d
  BY <1>1
<1>3. Selective' <=> Selective
  BY DEF Selective
<1> HIDE DEF j, v, c
<1>4. JobOK(j, v, c)'
  BY ZenonT(60), <1>1, <1>2, <1>3 DEF JobOK
<1> QED  BY <1>4 DEF j, v, c

(* A new job begins on top of the others, which keep their views. *)
LEMMA PushJob ==
    ASSUME StackInv, ctx_stack \in Seq(JobCtx), Context \in JobCtx, opt' = opt,
           NEW j \in BgJob, bg' = Append(bg, j), nested' = Append(nested, Current),
           ctx_stack' = Append(ctx_stack, Context), Current' \in Views,
           JobOK(j, Current', Context')
    PROVE  StackInv'
<1>0. PICK n \in Nat : n = Len(bg)
  BY DEF StackInv
<1>1. n = Len(bg) /\ Len(nested) = n /\ Len(ctx_stack) = n /\ bg \in Seq(BgJob) /\ nested \in Seq(Views)
      /\ Current \in Views
  BY <1>0 DEF StackInv
<1>2. /\ bg' \in Seq(BgJob) /\ nested' \in Seq(Views)
      /\ Len(bg') = n + 1 /\ Len(nested') = n + 1 /\ Len(ctx_stack') = n + 1
  BY <1>1
<1>3. /\ \A i \in 1 .. n : bg'[i] = bg[i] /\ nested'[i] = nested[i] /\ ctx_stack'[i] = ctx_stack[i]
      /\ bg'[n + 1] = j /\ nested'[n + 1] = Current /\ ctx_stack'[n + 1] = Context
  BY <1>1
<1>4. (IF nested' = <<>> THEN Current' ELSE nested'[1]) = NoView
  <2>1. nested' # <<>>
    BY <1>1, <1>2
  <2>2. CASE n = 0
    BY <1>1, <1>3, <2>1, <2>2 DEF StackInv
  <2>3. CASE n # 0
    <3>1. 1 \in 1 .. n /\ nested # <<>>
      BY <1>1, <2>3
    <3> QED  BY <1>3, <2>1, <3>1 DEF StackInv
  <2> QED  BY <2>2, <2>3
<1>5. ASSUME NEW i \in 1 .. n  PROVE View(i)' = View(i) /\ CtxAt(i)' = CtxAt(i)
  <2>1. View(i)' = nested'[i + 1] /\ CtxAt(i)' = ctx_stack'[i + 1]
    BY <1>1, <1>2 DEF View, CtxAt
  <2>2. CASE i < n
    BY <1>1, <1>3, <2>1, <2>2 DEF View, CtxAt
  <2>3. CASE i = n
    <3>1. View(i) = Current /\ CtxAt(i) = Context
      BY <1>1, <2>3 DEF View, CtxAt, Current
    <3> QED  BY Zenon, <1>3, <2>1, <2>3, <3>1
  <2> QED  BY <1>1, <2>2, <2>3
<1>6. View(n + 1)' = Current' /\ CtxAt(n + 1)' = Context'
  BY <1>1, <1>2 DEF View, CtxAt, Current
<1>7. ASSUME NEW i \in 1 .. n + 1  PROVE JobOK(bg[i], View(i), CtxAt(i))'
  <2>1. CASE i \in 1 .. n
    <3>1. JobOK(bg[i], View(i), CtxAt(i))
      BY <1>1, <2>1 DEF StackInv
    <3> QED  BY Zenon, <1>3, <1>5, <2>1, <3>1, SameJob
  <2>2. CASE i = n + 1
    BY Zenon, <1>3, <1>6, <2>2 DEF JobOK, Selective
  <2> QED  BY <1>1, <2>1, <2>2
<1> QED  BY Zenon, <1>2, <1>4, <1>7 DEF StackInv

(* The innermost job moves on; the others keep their views. *)
LEMMA TopMoves ==
    ASSUME StackInv, bg # <<>>, opt' = opt, NEW j \in BgJob, SetTop(j),
           UNCHANGED <<nested, ctx_stack>>, Current' \in Views, JobOK(j, Current', Context')
    PROVE  StackInv'
<1> DEFINE n == Len(bg)
<1>1. n \in Nat \ {0} /\ Len(nested) = n /\ Len(ctx_stack) = n /\ bg \in Seq(BgJob)
  BY DEF StackInv
<1>2. /\ bg' \in Seq(BgJob) /\ Len(bg') = n /\ bg'[n] = j
      /\ \A i \in 1 .. n : i # n => bg'[i] = bg[i]
  BY <1>1 DEF SetTop
<1>3. nested # <<>>
  BY <1>1
<1>4. ASSUME NEW i \in 1 .. n, i # n  PROVE View(i)' = View(i) /\ CtxAt(i)' = CtxAt(i)
  BY <1>1, <1>2, <1>4 DEF View, CtxAt
<1>5. View(n)' = Current' /\ CtxAt(n)' = Context'
  BY <1>1, <1>2 DEF View, CtxAt, Current
<1>6. ASSUME NEW i \in 1 .. n  PROVE JobOK(bg[i], View(i), CtxAt(i))'
  <2>1. CASE i # n
    <3>1. JobOK(bg[i], View(i), CtxAt(i))
      BY <1>1 DEF StackInv
    <3> QED  BY Zenon, <1>2, <1>4, <2>1, <3>1, SameJob
  <2>2. CASE i = n
    BY Zenon, <1>2, <1>5, <2>2 DEF JobOK, Selective
  <2> QED  BY <2>1, <2>2
<1> QED  BY <1>1, <1>2, <1>3, <1>6 DEF StackInv

(* The innermost job ends; the adapter and the core are as the one around  *)
(* it left them.                                                           *)
LEMMA PopJob ==
    ASSUME StackInv, CoreType, bg # <<>>, opt' = opt, PopTop, AdapterEnd, OnCompactionEnd
    PROVE  StackInv'
<1> DEFINE n == Len(bg)
<1>1. /\ n \in Nat \ {0} /\ Len(nested) = n /\ Len(ctx_stack) = n /\ bg \in Seq(BgJob)
      /\ nested \in Seq(Views) /\ ctx_stack \in Seq(JobCtx) /\ nested # <<>> /\ ctx_stack # <<>>
  BY DEF StackInv, CoreType
<1>2. /\ nested' = SubSeq(nested, 1, n - 1) /\ pending_warm' = nested[n].pending_warm
      /\ current_output' = nested[n].current_output
      /\ ctx_stack' = SubSeq(ctx_stack, 1, n - 1) /\ Restore(ctx_stack[n])
      /\ bg' = SubSeq(bg, 1, n - 1)
  BY <1>1 DEF AdapterEnd, OnCompactionEnd, PopTop
<1>3. /\ bg' \in Seq(BgJob) /\ Len(bg') = n - 1 /\ \A i \in 1 .. n - 1 : bg'[i] = bg[i]
  BY <1>1, <1>2, PoppedStack
<1>4. /\ nested' \in Seq(Views) /\ Len(nested') = n - 1 /\ \A i \in 1 .. n - 1 : nested'[i] = nested[i]
  BY <1>1, <1>2, PoppedStack
<1>5. /\ Len(ctx_stack') = n - 1 /\ \A i \in 1 .. n - 1 : ctx_stack'[i] = ctx_stack[i]
  BY <1>1, <1>2, PoppedStack
<1>6. nested[n] \in Views /\ Current' = nested[n]
  <2>1. nested[n] \in Views
    BY <1>1
  <2> QED  BY <1>2, <2>1 DEF Views, Current
<1>7. Context' = ctx_stack[n]
  <2>1. ctx_stack[n] \in JobCtx
    BY <1>1
  <2> QED  BY <1>2, <2>1 DEF Context, Restore, JobCtx
<1>8. (IF nested' = <<>> THEN Current' ELSE nested'[1]) = NoView
  <2>1. nested[1] = NoView
    BY <1>1 DEF StackInv
  <2>2. CASE n = 1
    BY <1>4, <1>6, <2>1, <2>2
  <2>3. CASE n # 1
    <3>1. 1 \in 1 .. n - 1 /\ n - 1 # 0
      BY <1>1, <2>3
    <3> HIDE DEF n
    <3>2. nested' # <<>>
      BY <1>4, <3>1
    <3> QED  BY <1>4, <2>1, <3>1, <3>2
  <2> QED  BY <2>2, <2>3
<1>9. ASSUME NEW i \in 1 .. n - 1  PROVE View(i)' = View(i) /\ CtxAt(i)' = CtxAt(i) /\ i \in 1 .. n
  <2>0. i \in 1 .. n /\ i < n /\ View(i) = nested[i + 1] /\ CtxAt(i) = ctx_stack[i + 1]
    BY <1>1 DEF View, CtxAt
  <2>1. CASE i < n - 1
    <3>1. View(i)' = nested'[i + 1] /\ CtxAt(i)' = ctx_stack'[i + 1] /\ i + 1 \in 1 .. n - 1
      BY <1>1, <1>3, <2>1 DEF View, CtxAt
    <3> QED  BY <1>4, <1>5, <2>0, <3>1
  <2>2. CASE i = n - 1
    <3>1. View(i)' = Current' /\ CtxAt(i)' = Context' /\ i + 1 = n
      BY <1>1, <1>3, <2>2 DEF View, CtxAt, Current
    <3> QED  BY Zenon, <1>6, <1>7, <2>0, <3>1
  <2> QED  BY <1>1, <2>0, <2>1, <2>2
<1>10. ASSUME NEW i \in 1 .. n - 1  PROVE JobOK(bg[i], View(i), CtxAt(i))'
  <2>1. JobOK(bg[i], View(i), CtxAt(i))
    BY Zenon, <1>9, <1>10 DEF StackInv
  <2> QED  BY Zenon, <1>3, <1>9, <1>10, <2>1, SameJob
<1> QED  BY <1>1, <1>3, <1>4, <1>5, <1>6, <1>8, <1>10 DEF StackInv

(* A step of anyone else. *)
LEMMA SameStack ==
    ASSUME StackInv, opt' = opt, UNCHANGED <<bg, jobVars>>, UNCHANGED adapterVars
    PROVE  StackInv'
<1>1. UNCHANGED <<current_output, pending_warm, nested>>
  BY DEF adapterVars
<1>2. \A i : View(i)' = View(i) /\ CtxAt(i)' = CtxAt(i)
  BY <1>1 DEF View, CtxAt, Context, jobVars
<1>3. Current' = Current
  BY <1>1 DEF Current
<1>4. \A i \in 1 .. Len(bg) : JobOK(bg[i], View(i), CtxAt(i))'
  <2> TAKE i \in 1 .. Len(bg)
  <2>1. JobOK(bg[i], View(i), CtxAt(i))
    BY Zenon DEF StackInv
  <2> QED  BY Zenon, <1>2, <2>1, SameJob
<1> QED  BY <1>1, <1>3, <1>4 DEF StackInv, jobVars

-----------------------------------------------------------------------------
(* A step that touches no file. *)
LEMMA SameFiles ==
    ASSUME FileInv, UNCHANGED <<bg, flushed, gc, disk, version, pinned, next_file>>
    PROVE  FileInv'
BY DEF FileInv, FilesOK

(* The open jobs and the innermost of them. *)
LEMMA JobTypes ==
    ASSUME bg \in Seq(BgJob), FileInv
    PROVE  /\ Len(bg) \in Nat /\ DOMAIN bg = 1 .. Len(bg)
           /\ \A i \in DOMAIN bg : bg[i] \in BgJob /\ bg[i].out \in Nat /\ bg[i].out < next_file
           /\ bg # <<>> => Len(bg) \in DOMAIN bg /\ Top = bg[Len(bg)] /\ Top \in BgJob /\ FilesOK(Top)
<1>1. \A i \in DOMAIN bg : bg[i] \in BgJob /\ FilesOK(bg[i])
  BY DEF FileInv
<1>2. \A j \in BgJob : j.out \in Nat
  BY DEF BgJob
<1>3. bg # <<>> => Len(bg) \in DOMAIN bg
  OBVIOUS
<1> QED  BY <1>1, <1>2, <1>3 DEF Top, FilesOK

(* A new job, which may have been given a new file number. *)
LEMMA FilesPush ==
    ASSUME FileInv, bg \in Seq(BgJob), NEW j \in BgJob, bg' = Append(bg, j), j.outputs = {},
           \/ j.out = 0 /\ ~j.is_flush /\ next_file' = next_file
           \/ j.out = next_file /\ ~j.failed /\ next_file' = next_file + 1,
           UNCHANGED <<flushed, gc, disk, version, pinned>>
    PROVE  FileInv'
<1>0. PICK n \in Nat : n = Len(bg)
  OBVIOUS
<1>1. DOMAIN bg = 1 .. n /\ DOMAIN bg' = 1 .. n + 1 /\ bg'[n + 1] = j /\ \A i \in 1 .. n : bg'[i] = bg[i]
  BY <1>0
<1>2. \A i \in 1 .. n : bg[i].out \in Nat /\ bg[i].out < next_file /\ FilesOK(bg[i])
  BY Zenon, <1>1, JobTypes DEF FileInv
<1>3. next_file \in Nat \ {0} /\ next_file' \in Nat \ {0} /\ next_file <= next_file'
      /\ DOMAIN disk \subseteq 1 .. next_file' - 1 /\ j.out < next_file' /\ next_file \notin DOMAIN disk
  BY DEF FileInv
<1>4. \A i \in 1 .. n + 1 : i \in 1 .. n \/ i = n + 1
  OBVIOUS
<1>5. \A i \in 1 .. n : bg[i].out < next_file' /\ bg[i].out # next_file
  BY <1>2, <1>3
<1>6. \A i \in DOMAIN bg' : FilesOK(bg[i])'
  <2>1. \A i \in 1 .. n : FilesOK(bg[i])'
    BY <1>1, <1>2, <1>5 DEF FilesOK
  <2>2. FilesOK(bg[n + 1])'
    BY <1>1, <1>3 DEF FilesOK
  <2> QED  BY ZenonT(60), <1>1, <1>4, <2>1, <2>2
<1>7. \A i, k \in DOMAIN bg' : i # k /\ bg'[i].out = bg'[k].out => bg'[i].out = 0
  BY <1>1, <1>4, <1>5 DEF FileInv
<1> QED  BY <1>3, <1>6, <1>7 DEF FileInv

(* The innermost job moves on with the same files, or opens a new one. *)
LEMMA FilesTop ==
    ASSUME FileInv, bg \in Seq(BgJob), bg # <<>>, NEW j \in BgJob, SetTop(j),
           j.outputs = Top.outputs, j.failed = Top.failed, j.is_flush = Top.is_flush,
           \/ j.out = Top.out /\ next_file' = next_file
           \/ j.out = next_file /\ next_file' = next_file + 1,
           UNCHANGED <<flushed, gc, disk, version, pinned>>
    PROVE  FileInv'
<1>0. PICK n \in Nat \ {0} : n = Len(bg)
  OBVIOUS
<1>1. /\ DOMAIN bg = 1 .. n /\ DOMAIN bg' = 1 .. n /\ bg'[n] = j /\ Top = bg[n] /\ n \in 1 .. n
      /\ \A i \in 1 .. n : i # n => bg'[i] = bg[i]
  BY <1>0 DEF SetTop, Top
<1>2. \A i \in 1 .. n : bg[i].out \in Nat /\ bg[i].out < next_file /\ FilesOK(bg[i])
  BY Zenon, <1>1, JobTypes DEF FileInv
<1>3. next_file \in Nat \ {0} /\ next_file' \in Nat \ {0} /\ next_file <= next_file'
      /\ DOMAIN disk \subseteq 1 .. next_file' - 1 /\ j.out < next_file' /\ next_file \notin DOMAIN disk
  BY <1>1, <1>2 DEF FileInv
<1>4. \A i \in 1 .. n : bg[i].out < next_file' /\ bg[i].out # next_file
  BY <1>2, <1>3
<1>5. \A i \in DOMAIN bg' : FilesOK(bg[i])'
  <2>1. \A i \in 1 .. n : i # n => FilesOK(bg[i])'
    BY <1>1, <1>2, <1>4 DEF FilesOK
  <2>2. FilesOK(bg[n])'
    BY <1>1, <1>2, <1>3 DEF FilesOK
  <2> QED  BY <1>1, <2>1, <2>2
<1>6. \A i, k \in DOMAIN bg' : i # k /\ bg'[i].out = bg'[k].out => bg'[i].out = 0
  BY <1>1, <1>4 DEF FileInv
<1> QED  BY <1>3, <1>5, <1>6 DEF FileInv

(* The innermost compaction's file is on disk: finished, or unreadable and *)
(* the compaction failed.                                                  *)
LEMMA FilesWritten ==
    ASSUME FileInv, bg \in Seq(BgJob), bg # <<>>, gc = {}, Top.out # 0, ~Top.failed,
           NEW blocks, disk' = WithFile(Top.out, blocks), NEW j \in BgJob, SetTop(j), ~j.is_flush,
           \/ j.out = 0 /\ j.outputs = Top.outputs \cup {Top.out}
           \/ j.out = Top.out /\ j.failed /\ j.outputs = Top.outputs,
           UNCHANGED <<flushed, gc, version, pinned, next_file>>
    PROVE  FileInv'
<1>0. PICK n \in Nat \ {0} : n = Len(bg)
  OBVIOUS
<1>1. /\ DOMAIN bg = 1 .. n /\ DOMAIN bg' = 1 .. n /\ bg'[n] = j /\ Top = bg[n] /\ n \in 1 .. n
      /\ \A i \in 1 .. n : i # n => bg'[i] = bg[i]
  BY <1>0 DEF SetTop, Top
<1>2. \A i \in 1 .. n : bg[i].out \in Nat /\ bg[i].out < next_file /\ FilesOK(bg[i])
  BY ZenonT(60), <1>1, JobTypes DEF FileInv
<1>3. /\ next_file \in Nat \ {0} /\ DOMAIN disk' = DOMAIN disk \cup {Top.out}
      /\ Top.out \in 1 .. next_file - 1
  <2>1. next_file \in Nat \ {0}
    BY Zenon, <1>1 DEF FileInv
  <2>2. DOMAIN disk' = DOMAIN disk \cup {Top.out}
    BY Zenon, <1>1 DEF WithFile
  <2>3. Top.out \in 1 .. next_file - 1
    BY <1>1, <1>2, <2>1
  <2> QED  BY Zenon, <2>1, <2>2, <2>3
<1>4. \A i \in 1 .. n : i # n => bg[i].out # Top.out
  BY <1>1 DEF FileInv
<1>5. \A i \in DOMAIN bg' : FilesOK(bg[i])'
  <2>1. \A i \in 1 .. n : i # n => FilesOK(bg[i])'
    BY ZenonT(100), <1>1, <1>2, <1>3, <1>4 DEF FilesOK
  <2>2. FilesOK(bg[n])'
    BY <1>1, <1>2, <1>3 DEF FilesOK
  <2> QED  BY <1>1, <2>1, <2>2
<1>6. \A i, k \in DOMAIN bg' : i # k /\ bg'[i].out = bg'[k].out => bg'[i].out = 0
  BY <1>1, <1>4 DEF FileInv
<1> QED  BY <1>3, <1>5, <1>6 DEF FileInv

(* Jobs that stay open while files are added, installed and collected: a   *)
(* file they finished or are writing is never among the obsolete ones.     *)
LEMMA FilesStay ==
    ASSUME FileInv, bg \in Seq(BgJob), next_file' = next_file, pinned' = pinned,
           DOMAIN bg' \subseteq DOMAIN bg, \A i \in DOMAIN bg' : bg'[i] = bg[i],
           DOMAIN disk \subseteq DOMAIN disk', DOMAIN disk' \subseteq 1 .. next_file - 1,
           \A i \in DOMAIN bg' : bg[i].out \notin DOMAIN disk' \ DOMAIN disk,
           version' \subseteq DOMAIN disk',
           gc' = {} \/ gc' = Unreferenced(version', bg'),
           flushed' # 0 => flushed' \in DOMAIN disk' /\ gc' = {}
    PROVE  FileInv'
<1>1. gc' \subseteq DOMAIN disk' \ (version' \cup pinned)
  BY DEF Unreferenced
<1>2. \A i \in DOMAIN bg' : FilesOK(bg[i])'
  <2> SUFFICES ASSUME NEW i \in DOMAIN bg' PROVE FilesOK(bg[i])'
    BY Zenon
  <2>1. FilesOK(bg[i]) /\ bg'[i] = bg[i] /\ bg[i].out \notin DOMAIN disk' \ DOMAIN disk
    BY DEF FileInv
  <2>2. bg[i].outputs \cap gc' = {}
    BY <2>1 DEF Unreferenced
  <2> QED  BY <2>1, <2>2 DEF FilesOK
<1>3. \A i, k \in DOMAIN bg' : i # k /\ bg'[i].out = bg'[k].out => bg'[i].out = 0
  BY DEF FileInv
<1> QED  BY <1>1, <1>2, <1>3 DEF FileInv

(* Cached blocks stay blocks of files on disk when files are only added. *)
LEMMA CacheShrinks ==
    ASSUME CacheInv, opt' = opt, cache' \subseteq cache,
           \A f \in DOMAIN disk : f \in DOMAIN disk' /\ disk'[f] = disk[f]
    PROVE  CacheInv'
BY DEF CacheInv, IdsOf

(* Warming adds blocks of a file that is on disk now. *)
LEMMA CacheWarms ==
    ASSUME CacheInv, opt' = opt, NEW f, f \notin DOMAIN disk, NEW layout, disk' = WithFile(f, layout),
           NEW W, cache' = cache \cup {Id(r) : r \in W},
           \A r \in W : r.file_id = f /\ r.offset \in DOMAIN layout
    PROVE  CacheInv'
<1>1. /\ DOMAIN disk' = DOMAIN disk \cup {f} /\ disk'[f] = layout
      /\ \A g \in DOMAIN disk : disk'[g] = disk[g]
  BY DEF WithFile
<1>2. ASSUME opt.policy # "off", NEW id \in cache
      PROVE  id.file_id \in DOMAIN disk' /\ id \in IdsOf(id.file_id)'
  BY <1>1, <1>2 DEF CacheInv, IdsOf
<1>3. ASSUME NEW r \in W
      PROVE  Id(r).file_id \in DOMAIN disk' /\ Id(r) \in IdsOf(Id(r).file_id)'
  BY <1>1, <1>3 DEF Id, IdsOf
<1> QED  BY <1>2, <1>3 DEF CacheInv

(* Core steps that touch no job. *)
LEMMA CoreQuiet ==
    ASSUME CoreInv, UNCHANGED <<opt, jobVars>>, UNCHANGED ssadVars, UNCHANGED qps,
           forecast' \in Forecasts
    PROVE  CoreInv'
<1>1. SsadTypeOK'
  BY SameSsad
<1>2. qps' \in Nat
  BY DEF CoreInv, CoreType
<1> QED  BY <1>1, <1>2, QuietCore

-----------------------------------------------------------------------------
(* WriteLevel0Table: a flush begins, also inside a compaction. *)
LEMMA FlushBeginStep ==
    ASSUME LDInv, NEW e \in Extents, FlushBegin(e)
    PROVE  LDInv' /\ Jobs!Open
<1> DEFINE blocks == <<[file_id |-> 0, offset |-> 0, size |-> 0,
                        first_range |-> e.first_range, last_range |-> e.last_range]>>
           j == Job(TRUE, {}, next_file)
<1>0. CoreInv /\ CoreType /\ StackInv /\ FileInv /\ CacheInv /\ next_file \in Nat \ {0}
      /\ ctx_stack \in Seq(JobCtx) /\ Context \in JobCtx /\ bg \in Seq(BgJob)
  BY DEF LDInv, CoreInv, CoreType, FileInv, StackInv
<1>1. /\ OnCompactionBegin(TRUE, 1, blocks) /\ AdapterBegin(next_file)
      /\ bg' = Append(bg, j) /\ next_file' = next_file + 1
      /\ UNCHANGED <<opt, forecast, qps>> /\ UNCHANGED ssadVars
      /\ UNCHANGED <<flushed, gc, disk, version, pinned>>
  BY Zenon DEF FlushBegin, quietVars
<1> HIDE DEF blocks
<1>2. CoreInv' /\ Jobs!Open
  BY Zenon, <1>0, <1>1, BeginCore
<1>3. hot_t2' \in SUBSET Ranges /\ cache' \subseteq cache
  BY Zenon, <1>0, <1>1, DecisionType
<1>4. /\ nested' = Append(nested, Current) /\ Current' = [pending_warm |-> {}, current_output |-> next_file]
      /\ Current' \in Views /\ ctx_stack' = Append(ctx_stack, Context)
  BY ZenonT(60), <1>0, <1>1 DEF AdapterBegin, Current, Views, OnCompactionBegin
<1>5. /\ j \in BgJob /\ j.outputs = {} /\ j.out = next_file /\ j.hot = hot_t2' /\ j.warmed = {} /\ ~j.failed
  BY <1>0, <1>3 DEF Job, BgJob
<1> HIDE DEF j
<1>6. Context'.hot_t2 = hot_t2' /\ Context'.prefetched_bytes = 0
  BY ZenonT(60), <1>1 DEF OnCompactionBegin, Context
<1>7. JobOK(j, Current', Context')
  BY <1>0, <1>4, <1>5, <1>6, NothingFits DEF JobOK
<1>8. StackInv'
  BY Zenon, <1>0, <1>1, <1>4, <1>5, <1>7, PushJob
<1>9. FileInv'
  BY <1>0, <1>1, <1>5, FilesPush
<1>10. CacheInv'
  BY <1>0, <1>1, <1>3, CacheShrinks
<1> QED  BY ZenonT(60), <1>2, <1>8, <1>9, <1>10 DEF LDInv

(* DoCompactionWork begins a compaction. *)
LEMMA CompactionBeginStep ==
    ASSUME LDInv, NEW inputs \in SUBSET version, CompactionBegin(inputs)
    PROVE  LDInv' /\ Jobs!Open
<1> DEFINE j == Job(FALSE, inputs, 0)
<1>0. CoreInv /\ CoreType /\ StackInv /\ FileInv /\ CacheInv /\ next_file \in Nat \ {0}
      /\ ctx_stack \in Seq(JobCtx) /\ Context \in JobCtx /\ bg \in Seq(BgJob)
  BY DEF LDInv, CoreInv, CoreType, FileInv, StackInv
<1>1. /\ OnCompactionBegin(FALSE, Len(InputRefs(inputs)), InputRefs(inputs)) /\ AdapterBegin(0)
      /\ bg = <<>> /\ bg' = <<j>> /\ next_file' = next_file
      /\ UNCHANGED <<opt, forecast, qps>> /\ UNCHANGED ssadVars
      /\ UNCHANGED <<flushed, gc, disk, version, pinned>>
  BY Zenon DEF CompactionBegin, quietVars
<1>2. CoreInv' /\ Jobs!Open
  BY Zenon, <1>0, <1>1, BeginCore
<1>3. hot_t2' \in SUBSET Ranges /\ cache' \subseteq cache
  BY Zenon, <1>0, <1>1, DecisionType
<1>4. /\ nested' = Append(nested, Current) /\ Current' = [pending_warm |-> {}, current_output |-> 0]
      /\ Current' \in Views /\ ctx_stack' = Append(ctx_stack, Context)
  BY ZenonT(60), <1>0, <1>1 DEF AdapterBegin, Current, Views, OnCompactionBegin
<1>5. /\ j \in BgJob /\ j.outputs = {} /\ j.out = 0 /\ j.hot = hot_t2' /\ j.warmed = {} /\ ~j.is_flush
  <2>1. inputs \in SUBSET Nat
    BY <1>0 DEF FileInv
  <2> QED  BY <1>0, <1>3, <2>1 DEF Job, BgJob
<1> HIDE DEF j
<1>6. Context'.hot_t2 = hot_t2' /\ Context'.prefetched_bytes = 0
  BY <1>1 DEF OnCompactionBegin, Context
<1>7. JobOK(j, Current', Context')
  BY <1>4, <1>5, <1>6, NothingFits DEF JobOK
<1>8. bg' = Append(bg, j)
  BY <1>0, <1>1
<1>9. StackInv'
  BY ZenonT(60), <1>0, <1>1, <1>4, <1>5, <1>7, <1>8, PushJob
<1>10. FileInv'
  BY ZenonT(60), <1>0, <1>1, <1>5, <1>8, FilesPush
<1>11. CacheInv'
  BY <1>0, <1>1, <1>3, CacheShrinks
<1> QED  BY ZenonT(60), <1>2, <1>9, <1>10, <1>11 DEF LDInv

(* The innermost job and the members that are in use for it. *)
LEMMA TopJob ==
    ASSUME LDInv, bg # <<>>
    PROVE  /\ CoreInv /\ CoreType /\ StackInv /\ FileInv /\ CacheInv /\ bg \in Seq(BgJob)
           /\ Top \in BgJob /\ FilesOK(Top) /\ JobOK(Top, Current, Context) /\ Current \in Views
           /\ pending_warm \in SUBSET BlockRef /\ ctx_stack # <<>> /\ opt \in Configs
<1>1. CoreInv /\ CoreType /\ StackInv /\ FileInv /\ CacheInv /\ bg \in Seq(BgJob) /\ Current \in Views
      /\ opt \in Configs
  BY DEF LDInv, CoreInv, CoreType, StackInv
<1>2. Top \in BgJob /\ FilesOK(Top) /\ Len(bg) \in 1 .. Len(bg) /\ Top = bg[Len(bg)]
  BY <1>1, JobTypes
<1>3. View(Len(bg)) = Current /\ CtxAt(Len(bg)) = Context
  BY <1>1 DEF View, CtxAt, Current
<1>4. JobOK(Top, Current, Context)
  BY <1>1, <1>2, <1>3 DEF StackInv
<1>5. ctx_stack # <<>> /\ Len(ctx_stack) = Len(bg)
  BY <1>1, <1>2 DEF StackInv
<1>6. pending_warm \in SUBSET BlockRef
  BY <1>1 DEF Views, Current
<1> QED  BY ZenonT(60), <1>1, <1>2, <1>4, <1>5, <1>6

(* OpenCompactionOutputFile: a compaction goes on to a new file. *)
LEMMA OpenFileStep ==
    ASSUME LDInv, OpenCompactionOutputFile
    PROVE  LDInv' /\ UNCHANGED OpenJobs
<1> DEFINE j == [Top EXCEPT !.out = next_file, !.layout = <<>>]
<1>1. /\ bg # <<>> /\ Top.out = 0 /\ ~Top.failed /\ SetTop(j) /\ next_file' = next_file + 1
      /\ current_output' = next_file /\ UNCHANGED <<pending_warm, nested>>
      /\ UNCHANGED <<opt, jobVars, cache, forecast, qps>> /\ UNCHANGED ssadVars
      /\ UNCHANGED <<flushed, gc, disk, version, pinned>>
  BY DEF OpenCompactionOutputFile, OnOutputFileStart, vars, envVars
<1>2. UNCHANGED <<Context, ctx_stack>>
  BY <1>1 DEF jobVars, Context
<1>3. /\ CoreInv /\ CoreType /\ StackInv /\ FileInv /\ CacheInv /\ bg \in Seq(BgJob)
      /\ Top \in BgJob /\ FilesOK(Top) /\ JobOK(Top, Current, Context) /\ Current \in Views
      /\ next_file \in Nat \ {0}
  BY <1>1, TopJob DEF FileInv
<1>4. pending_warm = {}
  BY <1>3, <1>1 DEF JobOK, Current
<1>5. Current' = [pending_warm |-> {}, current_output |-> next_file] /\ Current' \in Views
  BY <1>3, <1>1, <1>4 DEF Current, Views
<1>6. /\ j \in BgJob /\ j.out = next_file /\ j.layout = <<>> /\ j.hot = Top.hot /\ j.warmed = Top.warmed
      /\ j.outputs = Top.outputs /\ j.failed = Top.failed /\ j.is_flush = Top.is_flush
  <2>0. <<>> \in Seq(Extents)
    OBVIOUS
  <2>1. PICK layout \in Seq(Extents) : layout = <<>>
    BY Zenon, <2>0
  <2>2. PICK w \in BgJob : w = Top
    BY <1>3
  <2>3. j = [w EXCEPT !.out = next_file, !.layout = layout]
    BY <2>1, <2>2
  <2> HIDE DEF j
  <2>4. [w EXCEPT !.out = next_file, !.layout = layout] \in BgJob
    BY ZenonT(60), <1>3 DEF BgJob
  <2>5. j.out = next_file /\ j.layout = layout
    BY <2>3 DEF BgJob
  <2>6. j.hot = w.hot /\ j.warmed = w.warmed
    BY <2>3 DEF BgJob
  <2>7. j.outputs = w.outputs /\ j.failed = w.failed /\ j.is_flush = w.is_flush
    BY ZenonT(60), <2>3 DEF BgJob
  <2> QED  BY Zenon, <2>1, <2>2, <2>3, <2>4, <2>6, <2>7, <2>5
<1> HIDE DEF j
<1>7. JobOK(j, Current', Context')
  BY Zenon, <1>3, <1>2, <1>4, <1>5, <1>6 DEF JobOK, Current
<1>8. StackInv'
  BY ZenonT(60), <1>3, <1>1, <1>2, <1>5, <1>6, <1>7, TopMoves
<1>9. FileInv'
  BY Zenon, <1>3, <1>1, <1>6, FilesTop
<1>10. CacheInv'
  BY <1>3, <1>1, CacheShrinks
<1>11. CoreInv' /\ UNCHANGED OpenJobs
  <2>1. forecast' \in Forecasts
    BY <1>3, <1>1 DEF CoreType
  <2> QED  BY ZenonT(60), <1>3, <1>1, <2>1, CoreQuiet, SameJobs
<1> QED  BY <1>8, <1>9, <1>10, <1>11 DEF LDInv

(* TableBuilder::Flush: a block is written, and may be chosen. *)
LEMMA OutputBlockStep ==
    ASSUME LDInv, NEW e \in Extents, OutputBlock(e)
    PROVE  LDInv' /\ Jobs!Spend
<1> DEFINE r == [file_id |-> current_output, offset |-> Len(Top.layout) + 1, size |-> e.size,
                 first_range |-> e.first_range, last_range |-> e.last_range]
           j == [Top EXCEPT !.layout = Append(Top.layout, e)]
<1>1. /\ bg # <<>> /\ Top.out # 0 /\ ~Top.failed /\ SetTop(j) /\ ShouldPrefetch(r)
      /\ pending_warm' = IF Granted(r) THEN pending_warm \cup {r} ELSE pending_warm
      /\ UNCHANGED <<current_output, nested>>
      /\ UNCHANGED <<opt, forecast, qps>> /\ UNCHANGED ssadVars
      /\ UNCHANGED <<flushed, gc, disk, version, pinned, next_file>>
  BY DEF OutputBlock, OnOutputBlock, quietVars
<1>2. UNCHANGED <<hot_t2, ctx_stack, cache>>
  BY <1>1 DEF ShouldPrefetch
<1>3. /\ CoreInv /\ CoreType /\ StackInv /\ FileInv /\ CacheInv /\ bg \in Seq(BgJob)
      /\ Top \in BgJob /\ JobOK(Top, Current, Context) /\ Current \in Views
      /\ pending_warm \in SUBSET BlockRef /\ ctx_stack # <<>> /\ opt \in Configs
  BY <1>1, TopJob
<1>4. e \in [first_range: Nat, last_range: Nat, size: Nat]
  BY AdapterAssumption
<1>5. Top.layout \in Seq(Extents) /\ Top.out \in Nat /\ Top.hot = hot_t2 /\ current_output = Top.out
      /\ Top.warmed \in SUBSET BlockRef
  BY ZenonT(60), <1>3, <1>1 DEF BgJob, JobOK, Current, Context
<1>6. /\ r \in BlockRef /\ r.file_id = Top.out /\ r.offset = Len(Top.layout) + 1
      /\ r.last_range = e.last_range /\ r.size \in Nat
  <2>1. e.first_range \in Nat /\ e.last_range \in Nat /\ e.size \in Nat /\ Len(Top.layout) + 1 \in Nat
    BY <1>4, <1>5
  <2>2. r \in BlockRef
    BY <1>5, <2>1 DEF BlockRef
  <2> QED  BY <1>5, <2>1, <2>2
<1>7. /\ j \in BgJob /\ j.out = Top.out /\ j.hot = Top.hot /\ j.warmed = Top.warmed
      /\ j.outputs = Top.outputs /\ j.failed = Top.failed /\ j.is_flush = Top.is_flush
      /\ j.layout = Append(Top.layout, e)
  <2>0. Append(Top.layout, e) \in Seq(Extents)
    BY <1>5
  <2>1. PICK layout \in Seq(Extents) : layout = Append(Top.layout, e)
    BY Zenon, <2>0
  <2>2. PICK w \in BgJob : w = Top
    BY <1>3
  <2>3. j = [w EXCEPT !.layout = layout]
    BY <2>1, <2>2
  <2> HIDE DEF j
  <2>4. [w EXCEPT !.layout = layout] \in BgJob
    BY DEF BgJob
  <2>5. j.out = w.out /\ j.layout = layout
    BY <2>3 DEF BgJob
  <2>6. j.hot = w.hot /\ j.warmed = w.warmed
    BY <2>3 DEF BgJob
  <2>7. j.outputs = w.outputs /\ j.failed = w.failed /\ j.is_flush = w.is_flush
    BY <2>3 DEF BgJob
  <2> QED  BY ZenonT(60), <2>1, <2>2, <2>3, <2>4, <2>6, <2>7, <2>5
<1>8. /\ \A k \in DOMAIN Top.layout : k \in DOMAIN j.layout /\ j.layout[k] = Top.layout[k]
      /\ Len(Top.layout) + 1 \in DOMAIN j.layout /\ j.layout[Len(Top.layout) + 1] = e
  BY <1>5, <1>7
<1> HIDE DEF r, j
<1>9. CoreInv' /\ Jobs!Spend
  BY Zenon, <1>3, <1>1, <1>6, GrantCore
<1>10. Granted(r) /\ Selective => Overlaps(r, hot_t2)
  BY Zenon DEF Granted, Wanted, Selective
<1>11. Current' = [pending_warm |-> pending_warm', current_output |-> Top.out] /\ Current' \in Views
  BY <1>3, <1>1, <1>5, <1>6 DEF Current, Views
<1>12. \A x \in pending_warm' : x \in pending_warm \/ (x = r /\ Granted(r))
  BY <1>1
<1>13. Context'.hot_t2 = Top.hot
  BY <1>2, <1>5 DEF Context
<1>14. FitsIn(j.warmed \cup pending_warm', Context'.prefetched_bytes)
  <2> DEFINE C == Top.warmed \cup pending_warm
  <2>1. FitsIn(C, prefetched_bytes) /\ prefetched_bytes \in Nat
    BY ZenonT(60), <1>3 DEF JobOK, Current, Context, CoreType, JobCtx
  <2>2. C \in SUBSET BlockRef /\ \A x \in BlockRef : x.size \in Nat
    BY <1>3, <1>5 DEF BlockRef
  <2>3. \A x \in C : x.size \in Nat
    BY Zenon, <2>2
  <2>4. Context'.prefetched_bytes = IF Granted(r) THEN prefetched_bytes + r.size ELSE prefetched_bytes
    BY <1>1 DEF ShouldPrefetch, Context
  <2>5. j.warmed \cup pending_warm' = IF Granted(r) THEN C \cup {r} ELSE C
    BY Zenon, <1>1, <1>7
  <2> HIDE DEF C
  <2>6. FitsIn(C \cup {r}, prefetched_bytes + r.size)
    BY Zenon, <1>6, <2>1, <2>3, OneMoreFits
  <2> QED  BY ZenonT(100), <2>1, <2>4, <2>5, <2>6
<1>15. JobOK(j, Current', Context')
  <2>1. \A x \in pending_warm' : /\ x.file_id = j.out /\ x.offset \in DOMAIN j.layout
                                 /\ x.last_range = j.layout[x.offset].last_range
    BY ZenonT(60), <1>3, <1>6, <1>7, <1>8, <1>12 DEF JobOK, Current
  <2>2. Selective => \A x \in j.warmed \cup pending_warm' : Overlaps(x, j.hot)
    BY ZenonT(60), <1>3, <1>5, <1>7, <1>10, <1>12 DEF JobOK, Current
  <2> QED  BY ZenonT(60), <1>1, <1>5, <1>7, <1>11, <1>13, <1>14, <2>1, <2>2 DEF JobOK
<1>16. StackInv'
  BY ZenonT(100), <1>3, <1>1, <1>2, <1>7, <1>11, <1>15, TopMoves
<1>17. FileInv'
  BY <1>3, <1>1, <1>7, FilesTop
<1>18. CacheInv'
  BY <1>3, <1>1, <1>2, CacheShrinks
<1> QED  BY <1>9, <1>16, <1>17, <1>18 DEF LDInv

(* FinishCompactionOutputFile: the file is on disk and its chosen blocks   *)
(* are warmed, or it is unreadable and the compaction has failed.          *)
LEMMA FinishFileStep ==
    ASSUME LDInv, NEW ok \in BOOLEAN, FinishCompactionOutputFile(ok)
    PROVE  LDInv' /\ UNCHANGED OpenJobs
<1>1. /\ bg # <<>> /\ gc = {} /\ ~Top.is_flush /\ Top.out # 0 /\ ~Top.failed
      /\ UNCHANGED <<opt, jobVars, forecast, qps>> /\ UNCHANGED ssadVars
      /\ UNCHANGED <<current_output, nested, flushed, gc, version, pinned, next_file>>
  BY DEF FinishCompactionOutputFile, Running, quietVars
<1>2. UNCHANGED <<Context, ctx_stack>>
  BY <1>1 DEF jobVars, Context
<1>3. /\ CoreInv /\ CoreType /\ StackInv /\ FileInv /\ CacheInv /\ bg \in Seq(BgJob)
      /\ Top \in BgJob /\ FilesOK(Top) /\ JobOK(Top, Current, Context) /\ Current \in Views
      /\ pending_warm \in SUBSET BlockRef
  BY <1>1, TopJob
<1>4. PICK w \in BgJob : w = Top
  BY <1>3
<1>5. /\ w.out \in Nat /\ w.outputs \in SUBSET Nat /\ w.warmed \in SUBSET BlockRef
      /\ w.out \notin DOMAIN disk /\ current_output = w.out
  BY ZenonT(60), <1>3, <1>1, <1>4 DEF BgJob, FilesOK, JobOK, Current
<1>6. WarmNow(w.out) = pending_warm
  BY Zenon, <1>3, <1>4 DEF WarmNow, JobOK, Current
<1>7. CoreInv' /\ UNCHANGED OpenJobs
  <2>1. forecast' \in Forecasts
    BY <1>3, <1>1 DEF CoreType
  <2> QED  BY <1>3, <1>1, <2>1, CoreQuiet, SameJobs
<1>8. CASE ok
  <2> DEFINE outs == w.outputs \cup {w.out}
             warm == w.warmed \cup pending_warm
             j == [w EXCEPT !.outputs = outs, !.out = 0, !.warmed = warm]
  <2>1. /\ disk' = WithFile(w.out, w.layout) /\ cache' = cache \cup {Id(r) : r \in pending_warm}
        /\ pending_warm' = {}
    BY <1>4, <1>6, <1>8 DEF FinishCompactionOutputFile, StillPending
  <2>2. SetTop(j)
    BY <1>4, <1>6, <1>8 DEF FinishCompactionOutputFile
  <2>3. outs \in SUBSET Nat /\ warm \in SUBSET BlockRef
    BY Zenon, <1>3, <1>5
  <2> HIDE DEF outs, warm
  <2>4. j \in BgJob
    BY ZenonT(60), <2>3 DEF BgJob
  <2>5. j.out = 0 /\ j.outputs = outs /\ j.warmed = warm
    BY DEF BgJob
  <2>6. j.hot = w.hot /\ j.is_flush = w.is_flush
    BY DEF BgJob
  <2> HIDE DEF j
  <2>7. Current' = [pending_warm |-> {}, current_output |-> w.out] /\ Current' \in Views
    BY ZenonT(60), <1>1, <1>5, <2>1 DEF Current, Views
  <2>8. JobOK(j, Current', Context')
    <3>1. /\ w.hot = Context.hot_t2 /\ FitsIn(warm, Context.prefetched_bytes)
          /\ Selective => \A r \in warm : Overlaps(r, w.hot)
      BY Zenon, <1>3, <1>4 DEF JobOK, Current, warm
    <3>2. j.warmed \cup Current'.pending_warm = warm /\ Current'.pending_warm = {}
      BY Zenon, <2>5, <2>7
    <3> QED  BY Zenon, <1>2, <2>5, <2>6, <3>1, <3>2 DEF JobOK
  <2>9. StackInv'
    BY ZenonT(100), <1>3, <1>1, <1>2, <2>2, <2>4, <2>7, <2>8, TopMoves
  <2>10. FileInv'
    BY ZenonT(60), <1>3, <1>1, <1>4, <2>1, <2>2, <2>4, <2>5, <2>6, FilesWritten DEF outs
  <2>11. CacheInv'
    <3>1. \A r \in pending_warm : r.file_id = w.out /\ r.offset \in DOMAIN w.layout
      BY Zenon, <1>3, <1>4 DEF JobOK, Current
    <3> QED  BY ZenonT(60), <1>3, <1>1, <1>5, <2>1, <3>1, CacheWarms
  <2> QED  BY <1>7, <2>9, <2>10, <2>11 DEF LDInv
<1>9. CASE ~ok
  <2> DEFINE j == [w EXCEPT !.failed = TRUE]
  <2>1. disk' = WithFile(w.out, <<>>) /\ cache' = cache /\ pending_warm' = pending_warm
    BY <1>4, <1>9 DEF FinishCompactionOutputFile
  <2>2. SetTop(j)
    BY <1>4, <1>9 DEF FinishCompactionOutputFile
  <2>3. j \in BgJob
    BY Zenon DEF BgJob
  <2>4. j.out = w.out /\ j.outputs = w.outputs /\ j.warmed = w.warmed /\ j.layout = w.layout
    BY DEF BgJob
  <2>5. j.failed
    BY DEF BgJob
  <2>6. j.hot = w.hot /\ j.is_flush = w.is_flush
    BY DEF BgJob
  <2> HIDE DEF j
  <2>7. Current' = Current
    BY <1>1, <2>1 DEF Current
  <2>8. JobOK(j, Current', Context')
    BY Zenon, <1>3, <1>2, <1>4, <2>4, <2>6, <2>7 DEF JobOK
  <2>9. StackInv'
    BY ZenonT(60), <1>3, <1>1, <1>2, <2>2, <2>3, <2>7, <2>8, TopMoves
  <2>10. FileInv'
    BY ZenonT(100), <1>3, <1>1, <1>4, <2>1, <2>2, <2>3, <2>4, <2>5, <2>6, FilesWritten
  <2>11. CacheInv'
    <3>1. \A f \in DOMAIN disk : f \in DOMAIN disk' /\ disk'[f] = disk[f]
      BY <1>5, <2>1 DEF WithFile
    <3> QED  BY ZenonT(60), <1>3, <1>1, <2>1, <3>1, CacheShrinks
  <2> QED  BY <1>7, <2>9, <2>10, <2>11 DEF LDInv
<1> QED  BY <1>8, <1>9

(* What remains open when the innermost job ends. *)
LEMMA RestOpen ==
    ASSUME bg \in Seq(BgJob), bg # <<>>, PopTop
    PROVE  /\ DOMAIN bg' \subseteq DOMAIN bg /\ Len(bg) \notin DOMAIN bg'
           /\ \A i \in DOMAIN bg' : bg'[i] = bg[i]
<1>1. bg' = SubSeq(bg, 1, Len(bg) - 1)
  BY DEF PopTop
<1>2. /\ bg' \in Seq(BgJob) /\ Len(bg') = Len(bg) - 1 /\ \A i \in 1 .. Len(bg) - 1 : bg'[i] = bg[i]
  BY <1>1, PoppedStack
<1>3. DOMAIN bg' = 1 .. Len(bg) - 1 /\ DOMAIN bg = 1 .. Len(bg) /\ Len(bg) \in Nat
  BY <1>2
<1> QED  BY <1>2, <1>3

(* The end of DoCompactionWork. *)
LEMMA CompactionEndStep ==
    ASSUME LDInv, NEW ok \in BOOLEAN, CompactionEnd(ok)
    PROVE  LDInv' /\ [Jobs!Next]_OpenJobs
<1>1. /\ bg # <<>> /\ gc = {} /\ flushed = 0 /\ PopTop /\ OnCompactionEnd /\ AdapterEnd
      /\ UNCHANGED <<opt, forecast, qps>> /\ UNCHANGED ssadVars
      /\ UNCHANGED <<cache, flushed, disk, pinned, next_file>>
      /\ version' \subseteq version \cup Top.outputs
      /\ gc' = {} \/ gc' = Unreferenced(version', bg')
  BY ZenonT(60) DEF CompactionEnd, Running, quietVars
<1>2. /\ CoreInv /\ CoreType /\ StackInv /\ FileInv /\ CacheInv /\ bg \in Seq(BgJob)
      /\ Top \in BgJob /\ FilesOK(Top)
  BY ZenonT(60), <1>1, TopJob
<1>3. CoreInv' /\ [Jobs!Next]_OpenJobs
  BY <1>2, <1>1, EndCore DEF Jobs!Next
<1>4. StackInv'
  BY Zenon, <1>2, <1>1, PopJob
<1>5. FileInv'
  <2>1. version' \subseteq DOMAIN disk /\ DOMAIN disk \subseteq 1 .. next_file - 1
    BY Zenon, <1>2, <1>1 DEF FileInv, FilesOK
  <2> QED  BY Zenon, <1>2, <1>1, <2>1, RestOpen, FilesStay
<1>6. CacheInv'
  BY ZenonT(60), <1>2, <1>1, CacheShrinks
<1> QED  BY <1>3, <1>4, <1>5, <1>6 DEF LDInv

(* WriteLevel0Table after BuildTable. *)
LEMMA FlushEndStep ==
    ASSUME LDInv, NEW ok \in BOOLEAN, FlushEnd(ok)
    PROVE  LDInv' /\ [Jobs!Next]_OpenJobs
<1>1. /\ bg # <<>> /\ gc = {} /\ Top.is_flush /\ PopTop /\ OnCompactionEnd /\ AdapterEnd
      /\ UNCHANGED <<opt, forecast, qps>> /\ UNCHANGED ssadVars
      /\ UNCHANGED <<gc, version, pinned, next_file>>
      /\ flushed' = IF ok THEN Top.out ELSE 0
      /\ disk' = IF ok THEN WithFile(Top.out, Top.layout) ELSE disk
      /\ cache' = IF ok THEN cache \cup {Id(r) : r \in WarmNow(Top.out)} ELSE cache
  BY ZenonT(60) DEF FlushEnd, Running, quietVars
<1>2. /\ CoreInv /\ CoreType /\ StackInv /\ FileInv /\ CacheInv /\ bg \in Seq(BgJob)
      /\ Top \in BgJob /\ FilesOK(Top) /\ JobOK(Top, Current, Context) /\ Top = bg[Len(bg)]
      /\ Len(bg) \in DOMAIN bg
  BY ZenonT(60), <1>1, TopJob, JobTypes
<1>3. CoreInv' /\ [Jobs!Next]_OpenJobs
  BY <1>2, <1>1, EndCore DEF Jobs!Next
<1>4. StackInv'
  BY ZenonT(60), <1>2, <1>1, PopJob
<1>5. Top.out \in 1 .. next_file - 1 /\ Top.out \notin DOMAIN disk
  <2>1. Top.out \in Nat /\ Top.out # 0 /\ Top.out < next_file /\ ~Top.failed /\ next_file \in Nat
    BY Zenon, <1>2, <1>1 DEF BgJob, FilesOK, FileInv
  <2> QED  BY <1>2, <2>1 DEF FilesOK
<1>6. DOMAIN disk \subseteq DOMAIN disk' /\ DOMAIN disk' \subseteq DOMAIN disk \cup {Top.out}
  BY Zenon, <1>1 DEF WithFile
<1>7. FileInv'
  <2>1. DOMAIN disk' \subseteq 1 .. next_file - 1
    BY ZenonT(60), <1>2, <1>5, <1>6 DEF FileInv
  <2>2. \A i \in DOMAIN bg' : bg[i].out \notin DOMAIN disk' \ DOMAIN disk
    <3>1. \A i \in DOMAIN bg' : i \in DOMAIN bg /\ i # Len(bg)
      BY ZenonT(60), <1>2, <1>1, RestOpen
    <3>2. \A i \in DOMAIN bg' : bg[i].out # Top.out
      BY <1>2, <1>5, <3>1 DEF FileInv
    <3> QED  BY <1>6, <3>2
  <2>3. flushed' # 0 => flushed' \in DOMAIN disk' /\ gc' = {}
    BY ZenonT(60), <1>1 DEF WithFile
  <2>4. version' \subseteq DOMAIN disk' /\ gc' = {}
    BY <1>2, <1>1, <1>6 DEF FileInv
  <2> QED  BY ZenonT(60), <1>2, <1>1, <1>6, <2>1, <2>2, <2>3, <2>4, RestOpen, FilesStay
<1>8. CacheInv'
  <2>1. CASE ok
    <3>1. \A r \in WarmNow(Top.out) : r.file_id = Top.out /\ r.offset \in DOMAIN Top.layout
      BY ZenonT(60), <1>2 DEF WarmNow, JobOK, Current
    <3> QED  BY ZenonT(100), <1>2, <1>1, <1>5, <2>1, <3>1, CacheWarms
  <2>2. CASE ~ok
    BY ZenonT(60), <1>2, <1>1, <2>2, CacheShrinks
  <2> QED  BY <2>1, <2>2
<1> QED  BY <1>3, <1>4, <1>7, <1>8 DEF LDInv

(* CompactMemTable installs the flushed table and collects obsolete files. *)
LEMMA InstallFlushStep ==
    ASSUME LDInv, NEW ok \in BOOLEAN, InstallFlush(ok)
    PROVE  LDInv' /\ UNCHANGED OpenJobs
<1>1. /\ flushed # 0 /\ flushed' = 0 /\ version' \subseteq version \cup {flushed}
      /\ UNCHANGED <<opt, jobVars, cache, forecast, qps>> /\ UNCHANGED ssadVars
      /\ UNCHANGED adapterVars /\ UNCHANGED <<bg, disk, pinned, next_file>>
      /\ gc' = {} \/ gc' = Unreferenced(version', bg')
  BY DEF InstallFlush, vars, envVars
<1>2. CoreInv /\ CoreType /\ StackInv /\ FileInv /\ CacheInv /\ bg \in Seq(BgJob)
      /\ forecast' \in Forecasts
  BY <1>1 DEF LDInv, CoreInv, CoreType, StackInv
<1>3. CoreInv' /\ UNCHANGED OpenJobs
  BY <1>1, <1>2, CoreQuiet, SameJobs
<1>4. StackInv'
  BY ZenonT(60), <1>1, <1>2, SameStack
<1>5. FileInv'
  <2>1. version' \subseteq DOMAIN disk /\ DOMAIN disk \subseteq 1 .. next_file - 1
    BY <1>1, <1>2 DEF FileInv
  <2> QED  BY ZenonT(60), <1>1, <1>2, <2>1, FilesStay
<1>6. CacheInv'
  BY <1>1, <1>2, CacheShrinks
<1> QED  BY <1>3, <1>4, <1>5, <1>6 DEF LDInv

(* RemoveObsoleteFiles on one file: what it had in the cache goes first. *)
LEMMA RemoveFileStep ==
    ASSUME LDInv, NEW f \in gc, RemoveObsoleteFile(f)
    PROVE  LDInv' /\ UNCHANGED OpenJobs
<1>1. /\ UNCHANGED <<opt, jobVars, forecast, qps>> /\ UNCHANGED ssadVars
      /\ UNCHANGED adapterVars /\ UNCHANGED <<bg, flushed, version, pinned, next_file>>
      /\ gc' = gc \ {f} /\ disk' = [g \in DOMAIN disk \ {f} |-> disk[g]]
      /\ opt.policy # "off" => cache' = cache \ Ids(ForEachDataBlock(f))
  BY DEF RemoveObsoleteFile, OnFileObsolete, ObsoleteBlocks, quietVars
<1>2. CoreInv /\ CoreType /\ StackInv /\ FileInv /\ CacheInv /\ bg \in Seq(BgJob)
      /\ forecast' \in Forecasts
  BY <1>1 DEF LDInv, CoreInv, CoreType, StackInv
<1>3. CoreInv' /\ UNCHANGED OpenJobs
  BY ZenonT(60), <1>1, <1>2, CoreQuiet, SameJobs
<1>4. StackInv'
  BY <1>1, <1>2, SameStack
<1>5. FileInv'
  <2>1. DOMAIN disk' = DOMAIN disk \ {f}
    BY <1>1
  <2>2. \A i \in DOMAIN bg : FilesOK(bg[i]) => FilesOK(bg[i])'
    BY ZenonT(100), <1>1, <2>1 DEF FilesOK
  <2> QED  BY Zenon, <1>1, <1>2, <2>1, <2>2 DEF FileInv
<1>6. CacheInv'
  <2> SUFFICES ASSUME opt.policy # "off", NEW id \in cache'
               PROVE  id.file_id \in DOMAIN disk' /\ id \in IdsOf(id.file_id)'
    BY Zenon, <1>1 DEF CacheInv
  <2>1. id \in cache /\ id \notin Ids(ForEachDataBlock(f))
    BY ZenonT(60), <1>1
  <2>2. id.file_id \in DOMAIN disk /\ id \in IdsOf(id.file_id)
    BY ZenonT(60), <1>2, <2>1 DEF CacheInv
  <2>3. IdsOf(f) \subseteq Ids(ForEachDataBlock(f))
    <3> SUFFICES ASSUME NEW i \in DOMAIN disk[f]
                 PROVE  [file_id |-> f, offset |-> i] \in Ids(ForEachDataBlock(f))
      BY DEF IdsOf
    <3>1. i \in DOMAIN ForEachDataBlock(f) /\ Id(ForEachDataBlock(f)[i]) = [file_id |-> f, offset |-> i]
      BY Zenon DEF ForEachDataBlock, Id
    <3> QED  BY ZenonT(60), <3>1 DEF Ids, BlockSet
  <2>4. id.file_id # f
    BY <2>1, <2>2, <2>3
  <2> QED  BY ZenonT(60), <1>1, <2>2, <2>4 DEF IdsOf
<1> QED  BY ZenonT(60), <1>3, <1>4, <1>5, <1>6 DEF LDInv

(* Clients, the cache's LRU, the models and the table cache. *)
LEMMA ClientStep ==
    ASSUME LDInv,
           \/ PinVersion \/ ReleaseVersion \/ NewForecast
           \/ \E f \in version \cup pinned : \E id \in IdsOf(f) : ReadBlock(id)
           \/ \E id \in cache : LruEvict(id)
           \/ \E f \in DOMAIN disk : DropTable(f)
    PROVE  LDInv' /\ UNCHANGED OpenJobs
<1>0. CoreInv /\ CoreType /\ StackInv /\ FileInv /\ CacheInv /\ forecast \in Forecasts
  BY DEF LDInv, CoreInv, CoreType
<1> USE DEF PinVersion, ReleaseVersion, NewForecast, TimePasses, ReadBlock, CacheInsert, LruEvict,
            CacheDrop, DropTable, engineVars, vars, envVars
<1>1. /\ UNCHANGED <<opt, jobVars, qps>> /\ UNCHANGED ssadVars
      /\ UNCHANGED <<bg, flushed, gc, disk, version, next_file>>
      /\ forecast' \in Forecasts
  BY ZenonT(60), <1>0
<1>2. UNCHANGED adapterVars
  OBVIOUS
<1>3. pinned' \in {pinned, version, {}}
  OBVIOUS
<1>4. \/ cache' \subseteq cache
      \/ \E f \in version \cup pinned : \E id \in IdsOf(f) : cache' = cache \cup {id}
  OBVIOUS
<1> HIDE DEF PinVersion, ReleaseVersion, NewForecast, TimePasses, ReadBlock, CacheInsert, LruEvict,
            CacheDrop, DropTable, engineVars, vars, envVars
<1>5. CoreInv' /\ UNCHANGED OpenJobs
  BY ZenonT(60), <1>0, <1>1, CoreQuiet, SameJobs
<1>6. StackInv'
  BY <1>0, <1>1, <1>2, SameStack
<1>7. FileInv'
  BY Zenon, <1>0, <1>1, <1>3 DEF FileInv, FilesOK
<1>8. CacheInv'
  <2>1. CASE cache' \subseteq cache
    BY <1>0, <1>1, <2>1, CacheShrinks
  <2>2. ASSUME NEW f \in version \cup pinned, NEW id \in IdsOf(f), cache' = cache \cup {id}
        PROVE  CacheInv'
    <3>1. f \in DOMAIN disk
      BY Zenon, <1>0 DEF FileInv
    <3>2. id.file_id = f
      BY DEF IdsOf
    <3> QED  BY ZenonT(60), <1>0, <1>1, <2>2, <3>1, <3>2 DEF CacheInv, IdsOf
  <2> QED  BY ZenonT(60), <1>4, <2>1, <2>2
<1> QED  BY ZenonT(60), <1>5, <1>6, <1>7, <1>8 DEF LDInv

-----------------------------------------------------------------------------
(* A set of numbers up to N has a largest one. *)
LEMMA MaxOfBounded ==
    ASSUME NEW N \in Nat, NEW S \in SUBSET (0 .. N), S # {}
    PROVE  Max(S) \in S /\ \A x \in S : x <= Max(S)
<1> DEFINE T == {N - x : x \in S}
<1>1. T \subseteq Nat /\ T # {}
  <2>1. PICK z \in S : TRUE
    BY Zenon
  <2>2. N - z \in T
    BY <2>1
  <2>3. \A x \in S : N - x \in Nat
    OBVIOUS
  <2> QED  BY <2>2, <2>3
<1>2. \E x \in T : \A y \in T : <<y, x>> \notin OpToRel(<, Nat)
  BY <1>1, WFMin, NatLessThanWellFounded
<1>3. PICK t \in T : \A y \in T : ~(y < t)
  BY Zenon, <1>1, <1>2 DEF OpToRel
<1>4. PICK z \in S : t = N - z
  OBVIOUS
<1>5. \A y \in S : y \in Int
  OBVIOUS
<1>6. \A y \in S : z >= y
  <2> TAKE y \in S
  <2>1. ~(N - y < N - z)
    BY Zenon, <1>3, <1>4
  <2>2. y \in Int /\ z \in Int
    BY <1>5
  <2> HIDE DEF T
  <2> QED  BY <2>1, <2>2
<1>7. Max(S) = CHOOSE x \in S : \A y \in S : x >= y
  BY Zenon DEF Max
<1>8. Max(S) \in S /\ \A y \in S : Max(S) >= y
  BY Zenon, <1>6, <1>7
<1> QED  BY <1>8, <1>5

(* The adapter starts with no job, and the engine with files of its own.   *)
LEMMA InitLD == AInit => LDInv
<1> SUFFICES ASSUME AInit PROVE LDInv
  OBVIOUS
<1>1. CoreInit /\ disk = InitialFiles /\ bg = <<>> /\ nested = <<>> /\ ctx_stack = <<>>
      /\ pending_warm = {} /\ current_output = 0 /\ flushed = 0 /\ gc = {} /\ pinned = {}
      /\ version = DOMAIN disk /\ next_file = Max(DOMAIN disk \cup {0}) + 1
      /\ cache \in SUBSET UNION {IdsOf(f) : f \in DOMAIN disk}
  BY DEF AInit, AdapterInit, CoreInit
<1>2. CoreInv
  BY <1>1, InitCore
<1>3. StackInv
  <2>1. bg \in Seq(BgJob) /\ nested \in Seq(Views) /\ Len(bg) = 0 /\ Len(nested) = 0 /\ Len(ctx_stack) = 0
    BY <1>1
  <2>2. Current = NoView /\ Current \in Views
    BY <1>1 DEF Current, NoView, Views
  <2> QED  BY <1>1, <2>1, <2>2 DEF StackInv
<1>4. FileInv
  <2> DEFINE S == DOMAIN disk \cup {0}
  <2>1. MaxFile \in Nat /\ S \in SUBSET (0 .. MaxFile) /\ S # {} /\ DOMAIN disk \subseteq 1 .. MaxFile
    BY <1>1, AdapterAssumption
  <2> HIDE DEF S
  <2>2. Max(S) \in S /\ \A x \in S : x <= Max(S)
    BY Zenon, <2>1, MaxOfBounded
  <2>3. \A x \in S : x \in Nat
    BY <2>1
  <2>4. Max(S) \in Nat
    BY <2>2, <2>3
  <2>5. PICK m \in Nat : m = Max(S)
    BY <2>4
  <2>6. next_file = m + 1
    BY <1>1, <2>5 DEF S
  <2>7. \A x \in DOMAIN disk : x \in S
    BY DEF S
  <2>8. \A x \in DOMAIN disk : x \in Nat \ {0}
    BY <2>1
  <2>9. next_file = m + 1 /\ \A x \in DOMAIN disk : x \in Nat \ {0} /\ x <= m
    BY <2>2, <2>5, <2>6, <2>7, <2>8
  <2>10. next_file \in Nat \ {0} /\ DOMAIN disk \subseteq 1 .. next_file - 1
    BY <2>9
  <2>11. DOMAIN bg = {}
    BY <1>1
  <2> QED  BY Zenon, <1>1, <2>10, <2>11 DEF FileInv
<1>5. CacheInv
  BY <1>1 DEF CacheInv, IdsOf
<1> QED  BY <1>2, <1>3, <1>4, <1>5 DEF LDInv

(* Every step keeps the invariant and is, on the open jobs, a step of the  *)
(* abstract job contexts.                                                  *)
LEMMA NextLD ==
    ASSUME LDInv, [ANext]_allVars
    PROVE  LDInv' /\ [Jobs!Next]_OpenJobs
<1>1. ASSUME NEW e \in Extents, FlushBegin(e) PROVE LDInv' /\ [Jobs!Next]_OpenJobs
  BY <1>1, FlushBeginStep DEF Jobs!Next
<1>2. ASSUME NEW e \in Extents, OutputBlock(e) PROVE LDInv' /\ [Jobs!Next]_OpenJobs
  BY <1>2, OutputBlockStep DEF Jobs!Next
<1>3. ASSUME NEW inputs \in SUBSET version, CompactionBegin(inputs)
      PROVE  LDInv' /\ [Jobs!Next]_OpenJobs
  BY <1>3, CompactionBeginStep DEF Jobs!Next
<1>4. ASSUME OpenCompactionOutputFile PROVE LDInv' /\ [Jobs!Next]_OpenJobs
  BY <1>4, OpenFileStep
<1>5. ASSUME NEW ok \in BOOLEAN, FinishCompactionOutputFile(ok) \/ InstallFlush(ok)
      PROVE  LDInv' /\ [Jobs!Next]_OpenJobs
  BY <1>5, FinishFileStep, InstallFlushStep
<1>6. ASSUME NEW ok \in BOOLEAN, CompactionEnd(ok) \/ FlushEnd(ok)
      PROVE  LDInv' /\ [Jobs!Next]_OpenJobs
  BY <1>6, CompactionEndStep, FlushEndStep
<1>7. ASSUME NEW f \in gc, RemoveObsoleteFile(f) PROVE LDInv' /\ [Jobs!Next]_OpenJobs
  BY <1>7, RemoveFileStep
<1>8. ASSUME \/ PinVersion \/ ReleaseVersion \/ NewForecast
             \/ \E f \in version \cup pinned : \E id \in IdsOf(f) : ReadBlock(id)
             \/ \E id \in cache : LruEvict(id)
             \/ \E f \in DOMAIN disk : DropTable(f)
      PROVE  LDInv' /\ [Jobs!Next]_OpenJobs
  BY <1>8, ClientStep
<1>9. ASSUME UNCHANGED allVars PROVE LDInv' /\ [Jobs!Next]_OpenJobs
  <2>1. /\ UNCHANGED <<opt, jobVars, cache, forecast, qps>> /\ UNCHANGED ssadVars
        /\ UNCHANGED adapterVars
        /\ UNCHANGED <<bg, flushed, gc, disk, version, pinned, next_file>>
    BY <1>9 DEF allVars, vars, envVars, engineVars
  <2>2. CoreInv /\ StackInv /\ FileInv /\ CacheInv /\ forecast' \in Forecasts
    BY <2>1 DEF LDInv, CoreInv, CoreType
  <2>3. CoreInv' /\ UNCHANGED OpenJobs
    BY <2>1, <2>2, CoreQuiet, SameJobs
  <2>4. StackInv'
    BY <2>1, <2>2, SameStack
  <2>5. FileInv' /\ CacheInv'
    BY <2>1, <2>2, SameFiles, CacheShrinks
  <2> QED  BY <2>3, <2>4, <2>5 DEF LDInv
<1> QED  BY ZenonT(60), <1>1, <1>2, <1>3, <1>4, <1>5, <1>6, <1>7, <1>8, <1>9 DEF ANext

(* The invariant of the adapter inside the engine. *)
THEOREM EngineInvariance == ASpec => []LDInv
<1>1. LDInv /\ [ANext]_allVars => LDInv'
  BY NextLD
<1> QED  BY InitLD, <1>1, PTL DEF ASpec

(* A block waiting to be warmed is one its own job wrote to the file it    *)
(* names, whatever flush ran in between and whatever failed, and between   *)
(* jobs nothing of a job is left (leaper_leveldb.cc, OnCompactionBegin,    *)
(* OnOutputBlock, OnCompactionEnd).                                        *)
THEOREM RightFileKept == ASpec => []RightFile
<1>1. LDInv => RightFile
  <2> SUFFICES ASSUME LDInv PROVE RightFile
    OBVIOUS
  <2>1. CoreInv /\ StackInv /\ bg \in Seq(BgJob) /\ Len(nested) = Len(bg) /\ Len(ctx_stack) = Len(bg)
        /\ nested \in Seq(Views) /\ ctx_stack \in Seq(JobCtx)
    BY DEF LDInv, StackInv, CoreInv, CoreType
  <2>2. ASSUME bg = <<>> PROVE Context = Idle /\ pending_warm = {} /\ current_output = 0
    <3>1. nested = <<>> /\ ctx_stack = <<>>
      BY <2>1, <2>2
    <3>2. Current = NoView
      BY <2>1, <3>1 DEF StackInv
    <3>3. Context = Idle
      BY <2>1, <3>1 DEF CoreInv, IdleRestored, BaseContext
    <3> QED  BY <3>2, <3>3 DEF Current, NoView
  <2>3. \A i \in DOMAIN bg : JobOK(bg[i], View(i), CtxAt(i))
    BY <2>1 DEF StackInv
  <2> QED  BY Zenon, <2>1, <2>2, <2>3 DEF RightFile, JobOK
<1> QED  BY EngineInvariance, <1>1, PTL

(* A selective policy warms for a job only blocks that meet the ranges     *)
(* predicted when that job began (leaper.cc, OnCompactionBegin and         *)
(* ShouldPrefetch), however jobs nest.                                     *)
THEOREM PredictionKept == ASpec => []WarmsOwnPrediction
<1>1. LDInv => WarmsOwnPrediction
  <2> SUFFICES ASSUME LDInv PROVE WarmsOwnPrediction
    OBVIOUS
  <2>1. \A i \in DOMAIN bg : JobOK(bg[i], View(i), CtxAt(i))
    BY DEF LDInv, StackInv
  <2> QED  BY Zenon, <2>1 DEF WarmsOwnPrediction, JobOK, Chosen, Selective
<1> QED  BY EngineInvariance, <1>1, PTL

(* What a job warms and is about to warm never exceeds its budget          *)
(* (leaper.h, Options::max_prefetch_frac; leaper.cc, ShouldPrefetch),      *)
(* however jobs nest and whichever of its files fail: the blocks it chose  *)
(* have no more bytes than the core granted it, and those are within the   *)
(* budget.                                                                 *)
THEOREM WarmingKeptInBudget == ASpec => []WarmWithinBudget
<1>1. LDInv => WarmWithinBudget
  <2> SUFFICES ASSUME LDInv, NEW i \in DOMAIN bg
               PROVE  MapThenSumSet(LAMBDA r : r.size, Chosen(i)) <= opt.budget
    BY Zenon DEF WarmWithinBudget
  <2>1. /\ CoreType /\ BudgetPerJob /\ bg \in Seq(BgJob) /\ nested \in Seq(Views) /\ Current \in Views
        /\ Len(nested) = Len(bg) /\ Len(ctx_stack) = Len(bg) /\ opt.budget \in Nat
    BY ZenonT(60), CoreAssumption DEF LDInv, CoreInv, CoreType, StackInv
  <2>2. bg[i] \in BgJob /\ View(i) \in Views /\ CtxAt(i) \in JobCtx
    BY <2>1 DEF View, CtxAt, Current, CoreType
  <2>3. FitsIn(Chosen(i), CtxAt(i).prefetched_bytes)
    <3>1. JobOK(bg[i], View(i), CtxAt(i))
      BY <2>1 DEF LDInv, StackInv
    <3> QED  BY Zenon, <3>1 DEF JobOK, Chosen
  <2>4. CtxAt(i).prefetched_bytes \in Nat /\ CtxAt(i).prefetched_bytes <= opt.budget
    <3>1. i \in DOMAIN OpenJobs /\ OpenJobs[i] = JobOf(CtxAt(i))
      BY <2>1 DEF OpenJobs, CtxAt
    <3>2. OpenJobs[i].spent = CtxAt(i).prefetched_bytes
      BY <3>1 DEF JobOf
    <3>3. CtxAt(i).prefetched_bytes \in Nat
      BY <2>2 DEF JobCtx
    <3> QED  BY <2>1, <3>1, <3>2, <3>3 DEF BudgetPerJob
  <2>5. \A r \in Chosen(i) : r.size \in Nat
    BY <2>2 DEF Chosen, BgJob, Views, BlockRef
  <2>6. IsFiniteSet(Chosen(i)) /\ Cardinality(Units(Chosen(i))) <= CtxAt(i).prefetched_bytes
    BY <2>3 DEF FitsIn
  <2>7. Cardinality(Units(Chosen(i))) \in Nat
    BY Zenon, <2>5, <2>6, UnitsOf
  <2>8. MapThenSumSet(LAMBDA r : r.size, Chosen(i)) = Cardinality(Units(Chosen(i)))
    BY Zenon, <2>5, <2>6, SumIsCount
  <2> QED  BY <2>1, <2>4, <2>6, <2>7, <2>8
<1> QED  BY EngineInvariance, <1>1, PTL

(* A deleted file leaves no block in the cache (leaper.cc, OnFileObsolete; *)
(* RemoveObsoleteFiles), for any readers, failures and nesting.            *)
THEOREM NoGarbageKept == ASpec => []NoGarbage
<1>1. LDInv => NoGarbage
  BY DEF LDInv, CacheInv, NoGarbage
<1> QED  BY EngineInvariance, <1>1, PTL

(* The calls LevelDB really makes drive the core as a stack of private job *)
(* contexts (leaper.cc, OnCompactionBegin and OnCompactionEnd).            *)
THEOREM EngineIsolation == ASpec => JobIsolation /\ []BudgetPerJob
<1>1. AInit => Jobs!Init
  BY DEF AInit, AdapterInit, CoreInit, Jobs!Init, OpenJobs
<1>2. LDInv /\ [ANext]_allVars => [Jobs!Next]_OpenJobs
  BY NextLD
<1>3. LDInv => BudgetPerJob
  BY DEF LDInv, CoreInv
<1> QED  BY EngineInvariance, <1>1, <1>2, <1>3, PTL DEF ASpec, JobIsolation, Jobs!Spec
=============================================================================
